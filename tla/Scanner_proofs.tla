--------------------------- MODULE Scanner_proofs ---------------------------
(***************************************************************************)
(* Proofs about the scanner's buffers, the scanner and its callers, for any *)
(* texts, values and keywords and any growth of the buffers.               *)
(***************************************************************************)
EXTENDS ScannerCalls, SequenceTheorems, FiniteSetTheorems, NaturalsInduction, TLAPS

-----------------------------------------------------------------------------
(* The buffers: a string the scanner hands out is never overwritten, for   *)
(* any sequence of calls of the buffer operations, any contents and any    *)
(* growth.                                                                 *)

Ints == Seq(Int)

(* Reading around the bytes written, and reading them.                     *)
LEMMA WrittenType ==
  ASSUME NEW a \in Ints, NEW c \in Ints, NEW p \in Nat, p + Len(c) <= Len(a)
  PROVE  /\ Written(a, p, c) \in Ints
         /\ Len(Written(a, p, c)) = Len(a)
<1> DEFINE w == Written(a, p, c)
<1>1. \A i \in 1..Len(a) : w[i] \in Int
  BY DEF Written, Ints
<1>2. w \in [1..Len(a) -> Int]
  BY <1>1 DEF Written
<1>3. Len(a) \in Nat
  BY DEF Ints
<1> QED
  BY <1>2, <1>3, SMTT(60) DEF Ints

LEMMA WrittenAside ==
  ASSUME NEW a \in Ints, NEW c \in Ints, NEW p \in Nat, p + Len(c) <= Len(a),
         NEW f \in Nat, NEW n \in Nat, f + n <= Len(a),
         f + n <= p \/ p + Len(c) <= f
  PROVE  Bytes(Written(a, p, c), f, n) = Bytes(a, f, n)
<1> DEFINE w == Written(a, p, c)
<1>0. w \in Ints /\ Len(w) = Len(a) /\ Len(a) \in Nat /\ Len(c) \in Nat
  BY WrittenType DEF Ints
<1>1. \A i \in (f + 1)..(f + n) : w[i] = a[i]
  BY <1>0 DEF Written
<1> HIDE DEF w
<1>2. \A i \in 1..n : SubSeq(w, f + 1, f + n)[i] = SubSeq(a, f + 1, f + n)[i]
  BY <1>0, <1>1, SMTT(60) DEF Ints
<1>3. SubSeq(w, f + 1, f + n) \in Ints /\ SubSeq(a, f + 1, f + n) \in Ints
  BY <1>0, SMTT(60) DEF Ints
<1>4. Len(SubSeq(w, f + 1, f + n)) = n /\ Len(SubSeq(a, f + 1, f + n)) = n
  BY <1>0 DEF Ints
<1> QED
  BY <1>2, <1>3, <1>4, SeqEqual DEF Bytes, Ints, w

LEMMA WrittenThere ==
  ASSUME NEW a \in Ints, NEW c \in Ints, NEW p \in Nat, p + Len(c) <= Len(a)
  PROVE  Bytes(Written(a, p, c), p, Len(c)) = c
<1> DEFINE w == Written(a, p, c)
<1>0. w \in Ints /\ Len(w) = Len(a) /\ Len(a) \in Nat /\ Len(c) \in Nat
  BY WrittenType DEF Ints
<1>1. \A i \in 1..Len(c) : w[p + i] = c[i]
  BY <1>0 DEF Written
<1> HIDE DEF w
<1>2. ASSUME NEW i \in 1..Len(c) PROVE SubSeq(w, p + 1, p + Len(c))[i] = c[i]
  <2>1. SubSeq(w, p + 1, p + Len(c))[i] = w[p + i]
    BY <1>0, SMTT(60) DEF Ints
  <2> QED
    BY <1>1, <2>1
<1>3. SubSeq(w, p + 1, p + Len(c)) \in Ints
  BY <1>0 DEF Ints
<1>4. Len(SubSeq(w, p + 1, p + Len(c))) = Len(c)
  BY <1>0 DEF Ints
<1> QED
  BY <1>2, <1>3, <1>4, SeqEqual DEF Bytes, Ints, w

(* Writing bytes p+1 to p+Len(c) of array k leaves the others as they are. *)
LEMMA WriteKeeps ==
  ASSUME NEW m \in Seq(Ints), NEW k \in 1..Len(m), NEW p \in Nat, NEW c \in Ints,
         p + Len(c) <= Len(m[k])
  PROVE  LET m2 == [m EXCEPT ![k] = Written(@, p, c)]
         IN  /\ m2 \in Seq(Ints) /\ Len(m2) = Len(m)
             /\ \A j \in 1..Len(m) : Len(m2[j]) = Len(m[j])
             /\ Bytes(m2[k], p, Len(c)) = c
             /\ \A b \in 1..Len(m), f \in Nat, n \in Nat :
                   /\ f + n <= Len(m[b])
                   /\ b # k \/ f + n <= p \/ p + Len(c) <= f
                   => Bytes(m2[b], f, n) = Bytes(m[b], f, n)
<1> DEFINE m2 == [m EXCEPT ![k] = Written(@, p, c)]
<1>1. m[k] \in Ints /\ Len(m) \in Nat
  OBVIOUS
<1>2. Written(m[k], p, c) \in Ints /\ Len(Written(m[k], p, c)) = Len(m[k])
  BY <1>1, WrittenType
<1>3. m2 \in Seq(Ints) /\ Len(m2) = Len(m)
  BY <1>2
<1>4. m2[k] = Written(m[k], p, c) /\ \A j \in 1..Len(m) : j # k => m2[j] = m[j]
  BY <1>1
<1> HIDE DEF m2
<1>5. \A j \in 1..Len(m) : Len(m2[j]) = Len(m[j])
  BY <1>2, <1>4
<1>6. Bytes(m2[k], p, Len(c)) = c
  BY <1>1, <1>4, WrittenThere
<1>7. ASSUME NEW b \in 1..Len(m), NEW f \in Nat, NEW n \in Nat,
             f + n <= Len(m[b]), b # k \/ f + n <= p \/ p + Len(c) <= f
      PROVE  Bytes(m2[b], f, n) = Bytes(m[b], f, n)
  <2>1. CASE b # k
    BY <1>4, <2>1
  <2>2. CASE b = k
    <3>1. f + n <= Len(m[k]) /\ (f + n <= p \/ p + Len(c) <= f)
      BY <1>7, <2>2
    <3>2. Bytes(Written(m[k], p, c), f, n) = Bytes(m[k], f, n)
      BY ONLY <1>1, <3>1, WrittenAside, p + Len(c) <= Len(m[k]),
              p \in Nat, c \in Ints, f \in Nat, n \in Nat
    <3> QED
      BY <1>4, <2>2, <3>2
  <2> QED
    BY <2>1, <2>2
<1> QED
  BY <1>3, <1>5, <1>6, <1>7 DEF m2

-----------------------------------------------------------------------------
(* The inductive invariant: a slice lies in its array, and a string handed *)
(* out shares no byte with the two slices that are written into.           *)

SliceType == [array : Nat, from : Nat, len : Nat, to : Nat]

Lies(m, s) ==
    /\ s \in SliceType
    /\ s.array <= Len(m)
    /\ s.from + s.len <= s.to
    /\ s.array = 0 => s.to = 0
    /\ s.array > 0 => s.to <= Len(m[s.array])

ReadIn(m, s) == IF s.array = 0 THEN <<>> ELSE Bytes(m[s.array], s.from, s.len)

(* The bytes of s, up to its length, are not in the capacity of w. *)
Apart(s, w) ==
    \/ s.array = 0 \/ s.array # w.array
    \/ s.from + s.len <= w.from \/ w.to <= s.from

(* Nor is any of the capacity of s. *)
AllApart(s, w) ==
    s.array = 0 \/ s.array # w.array \/ s.to <= w.from \/ w.to <= s.from

Safe(h) ==
    /\ Lies(mem, h.at)
    /\ Apart(h.at, free) /\ Apart(h.at, buf)
    /\ ReadIn(mem, h.at) = h.said

BuffersInv ==
    /\ mem \in Seq(Ints)
    /\ Lies(mem, free) /\ Lies(mem, buf)
    /\ AllApart(free, buf)
    /\ \A h \in handed : Safe(h)

LEMMA WriteKeepsSlice ==
  ASSUME NEW m \in Seq(Ints), NEW k \in 1..Len(m), NEW p \in Nat, NEW c \in Ints,
         p + Len(c) <= Len(m[k]), NEW s, Lies(m, s)
  PROVE  LET m2 == [m EXCEPT ![k] = Written(@, p, c)]
         IN  /\ Lies(m2, s)
             /\ s.array # k \/ s.from + s.len <= p \/ p + Len(c) <= s.from
                => ReadIn(m2, s) = ReadIn(m, s)
<1> DEFINE m2 == [m EXCEPT ![k] = Written(@, p, c)]
           b == s.array
           f == s.from
           n == s.len
           t == s.to
<1>1. /\ b \in Nat /\ f \in Nat /\ n \in Nat /\ t \in Nat /\ b <= Len(m) /\ f + n <= t
      /\ b > 0 => t <= Len(m[b])
  BY DEF Lies, SliceType
<1>2. Len(m2) = Len(m) /\ \A j \in 1..Len(m) : Len(m2[j]) = Len(m[j])
  BY WriteKeeps
<1>2a. \A b1 \in 1..Len(m), f1 \in Nat, n1 \in Nat :
            /\ f1 + n1 <= Len(m[b1])
            /\ b1 # k \/ f1 + n1 <= p \/ p + Len(c) <= f1
            => Bytes(m2[b1], f1, n1) = Bytes(m[b1], f1, n1)
  BY WriteKeeps
<1> HIDE DEF m2
<1>3. Lies(m2, s)
  BY <1>1, <1>2 DEF Lies
<1>4. ASSUME b # k \/ f + n <= p \/ p + Len(c) <= f
      PROVE  ReadIn(m2, s) = ReadIn(m, s)
  <2>1. CASE b = 0
    BY <2>1 DEF ReadIn
  <2>2. CASE b # 0
    <3> HIDE DEF b, f, n, t
    <3>1. b \in 1..Len(m) /\ Len(m[b]) \in Nat
      BY <1>1, <2>2 DEF Ints
    <3>2. f + n <= Len(m[b])
      BY <1>1, <3>1
    <3>3. Bytes(m2[b], f, n) = Bytes(m[b], f, n)
      BY <1>1, <1>2a, <1>4, <3>1, <3>2
    <3> QED
      BY <2>2, <3>3 DEF ReadIn, b, f, n
  <2> QED
    BY <2>1, <2>2
<1> QED
  BY <1>3, <1>4 DEF m2

LEMMA AppendKeepsSlice ==
  ASSUME NEW m \in Seq(Ints), NEW a \in Ints, NEW s, Lies(m, s)
  PROVE  /\ Lies(Append(m, a), s)
         /\ ReadIn(Append(m, a), s) = ReadIn(m, s)
<1> DEFINE m2 == Append(m, a)
<1>1. /\ m2 \in Seq(Ints) /\ Len(m2) = Len(m) + 1 /\ Len(m) \in Nat
      /\ \A j \in 1..Len(m) : m2[j] = m[j]
  OBVIOUS
<1> HIDE DEF m2
<1>2. s.array \in Nat /\ s.array <= Len(m)
  BY DEF Lies, SliceType
<1>3. Lies(m2, s)
  BY <1>1, <1>2 DEF Lies
<1>4. ReadIn(m2, s) = ReadIn(m, s)
  BY <1>1, <1>2 DEF ReadIn
<1> QED
  BY <1>3, <1>4 DEF m2

-----------------------------------------------------------------------------
(* One lemma for each operation. *)

LEMMA NilLies ==
  ASSUME NEW m \in Seq(Ints)
  PROVE  Lies(m, NilSlice) /\ NilSlice.array = 0
BY DEF Lies, NilSlice, SliceType

LEMMA BuffersInitInv ==
  ASSUME NEW n \in Nat, BuffersInit(n)
  PROVE  BuffersInv
<1>1. Zeros(n) \in Ints /\ Len(Zeros(n)) = n
  BY DEF Zeros, Ints
<1>2. mem \in Seq(Ints) /\ Len(mem) = 1 /\ mem[1] = Zeros(n)
  BY <1>1 DEF BuffersInit
<1>3. Lies(mem, free)
  BY <1>1, <1>2 DEF BuffersInit, Lies, SliceType
<1>4. Lies(mem, buf) /\ buf.array = 0
  BY <1>2, NilLies DEF BuffersInit
<1>5. AllApart(free, buf)
  BY <1>3, <1>4 DEF AllApart, BuffersInit
<1> QED
  BY <1>2, <1>3, <1>4, <1>5 DEF BuffersInv, BuffersInit

LEMMA TakeBufferInv ==
  ASSUME BuffersInv, TakeBuffer
  PROVE  BuffersInv'
<1>1. /\ mem' = mem /\ handed' = handed
      /\ buf' = [free EXCEPT !.len = 0] /\ free' = NilSlice
  BY DEF TakeBuffer
<1>2. mem \in Seq(Ints) /\ Lies(mem, free) /\ \A h \in handed : Safe(h)
  BY DEF BuffersInv
<1>3. /\ buf'.array = free.array /\ buf'.from = free.from /\ buf'.to = free.to /\ buf'.len = 0
      /\ buf' \in SliceType
  BY <1>1, <1>2 DEF Lies, SliceType
<1>4. Lies(mem', buf')
  BY <1>1, <1>2, <1>3 DEF Lies, SliceType
<1>5. Lies(mem', free') /\ free'.array = 0
  BY <1>1, <1>2, NilLies
<1>6. ASSUME NEW h \in handed' PROVE Safe(h)'
  <2>1. Safe(h) /\ h.at.array \in Nat
    BY <1>1, <1>2, <1>6 DEF Safe, Lies, SliceType
  <2>2. Apart(h.at, buf')
    BY <1>3, <2>1 DEF Safe, Apart
  <2>3. Apart(h.at, free')
    BY <1>5, <2>1 DEF Apart
  <2> QED
    BY <1>1, <2>1, <2>2, <2>3 DEF Safe
<1>7. AllApart(free', buf')
  BY <1>5 DEF AllApart
<1> QED
  BY <1>1, <1>2, <1>4, <1>5, <1>6, <1>7 DEF BuffersInv

LEMMA DropBufferInv ==
  ASSUME BuffersInv, DropBuffer
  PROVE  BuffersInv'
<1>1. mem' = mem /\ handed' = handed /\ buf' = NilSlice /\ free' = free
  BY DEF DropBuffer
<1>2. mem \in Seq(Ints) /\ Lies(mem, free) /\ \A h \in handed : Safe(h)
  BY DEF BuffersInv
<1>3. Lies(mem', buf') /\ buf'.array = 0
  BY <1>1, <1>2, NilLies
<1>4. ASSUME NEW h \in handed' PROVE Safe(h)'
  <2>1. Safe(h)
    BY <1>1, <1>2, <1>4
  <2>2. Apart(h.at, buf')
    BY <1>3 DEF Apart
  <2> QED
    BY <1>1, <2>1, <2>2 DEF Safe
<1>5. AllApart(free', buf')
  BY <1>3 DEF AllApart
<1> QED
  BY <1>1, <1>2, <1>3, <1>4, <1>5 DEF BuffersInv

LEMMA FinishStringInv ==
  ASSUME BuffersInv, FinishString
  PROVE  BuffersInv'
<1>1. /\ mem' = mem /\ buf' = NilSlice
      /\ free' = IF buf.len < Room(buf)
                 THEN After(buf, buf.len, 0)
                 ELSE free
      /\ handed' = handed \cup {[at |-> buf, said |-> Read(buf)]}
  BY DEF FinishString, Returned
<1>2. /\ mem \in Seq(Ints) /\ Lies(mem, free) /\ Lies(mem, buf) /\ AllApart(free, buf)
      /\ \A h \in handed : Safe(h)
  BY DEF BuffersInv
<1>3. Lies(mem', buf') /\ buf'.array = 0
  BY <1>1, <1>2, NilLies
<1>4. /\ Lies(mem, free')
      /\ \A s : Lies(mem, s) /\ Apart(s, free) /\ Apart(s, buf) => Apart(s, free')
      /\ Apart(buf, free')
  <2>1. CASE buf.len < Room(buf)
    <3>1. /\ free'.array = buf.array /\ free'.from = buf.from + buf.len /\ free'.to = buf.to
          /\ free'.len = 0
          /\ free' \in SliceType
      BY <1>1, <1>2, <2>1 DEF After, Lies, SliceType
    <3>2. buf \in SliceType /\ buf.from \in Nat /\ buf.len \in Nat /\ buf.to \in Nat
      BY <1>2 DEF Lies, SliceType
    <3>3. Lies(mem, free')
      BY <1>2, <2>1, <3>1, <3>2 DEF Lies, Room
    <3>4. Apart(buf, free')
      BY <3>1, <3>2 DEF Apart
    <3>5. ASSUME NEW s, Lies(mem, s), Apart(s, buf) PROVE Apart(s, free')
      <4>1. s.from \in Nat /\ s.len \in Nat
        BY <3>5 DEF Lies, SliceType
      <4> QED
        BY <3>1, <3>2, <3>5, <4>1 DEF Apart
    <3> QED
      BY <3>3, <3>4, <3>5
  <2>2. CASE ~(buf.len < Room(buf))
    <3>1. free' = free
      BY <1>1, <2>2
    <3>2. /\ buf.from \in Nat /\ buf.len \in Nat /\ buf.to \in Nat /\ buf.from + buf.len <= buf.to
          /\ free.from \in Nat /\ free.to \in Nat
      BY <1>2 DEF Lies, SliceType
    <3>3. Apart(buf, free)
      BY <1>2, <3>2 DEF Apart, AllApart
    <3> QED
      BY <1>2, <3>1, <3>3
  <2> QED
    BY <2>1, <2>2
<1>5. ASSUME NEW h \in handed' PROVE Safe(h)'
  <2>1. /\ Lies(mem, h.at) /\ Apart(h.at, free') /\ ReadIn(mem, h.at) = h.said
    <3>1. CASE h \in handed
      BY <1>2, <1>4, <3>1 DEF Safe
    <3>2. CASE h \notin handed
      <4>1. h.at = buf /\ h.said = Read(buf)
        BY <1>1, <1>5, <3>2
      <4> QED
        BY <1>2, <1>4, <4>1 DEF Read, ReadIn
    <3> QED
      BY <3>1, <3>2
  <2>2. Apart(h.at, buf')
    BY <1>3 DEF Apart
  <2> QED
    BY <1>1, <2>1, <2>2 DEF Safe
<1>6. AllApart(free', buf')
  BY <1>3 DEF AllApart
<1> QED
  BY <1>1, <1>2, <1>3, <1>4, <1>5, <1>6 DEF BuffersInv

LEMMA AppendBytesInv ==
  ASSUME BuffersInv, NEW c \in Ints, AppendBytes(c)
  PROVE  BuffersInv'
<1>1. /\ mem \in Seq(Ints) /\ Lies(mem, free) /\ Lies(mem, buf) /\ AllApart(free, buf)
      /\ \A h \in handed : Safe(h)
  BY DEF BuffersInv
<1>2. /\ buf \in SliceType
      /\ buf.array \in Nat /\ buf.from \in Nat /\ buf.len \in Nat /\ buf.to \in Nat
      /\ Len(c) \in Nat /\ Len(mem) \in Nat
  BY <1>1 DEF Lies, SliceType, Ints
<1>3. CASE buf.from + buf.len + Len(c) <= buf.to
  <2>1. /\ mem' = IF buf.array = 0 THEN mem
                  ELSE [mem EXCEPT ![buf.array] = Written(@, buf.from + buf.len, c)]
        /\ buf' = [buf EXCEPT !.len = @ + Len(c)]
        /\ free' = free /\ handed' = handed
    BY <1>3 DEF AppendBytes
  <2>2. /\ buf' \in SliceType /\ buf'.array = buf.array /\ buf'.from = buf.from
        /\ buf'.to = buf.to /\ buf'.len = buf.len + Len(c)
    BY <1>2, <2>1 DEF SliceType
  <2>3. /\ mem' \in Seq(Ints)
        /\ \A s : Lies(mem, s) => Lies(mem', s)
        /\ \A s : Lies(mem, s) /\ Apart(s, buf) => ReadIn(mem', s) = ReadIn(mem, s)
        /\ Len(mem') = Len(mem)
        /\ buf.array > 0 => Len(mem'[buf.array]) = Len(mem[buf.array])
    <3>1. CASE buf.array = 0
      BY <1>1, <2>1, <3>1
    <3>2. CASE buf.array # 0
      <4> DEFINE k == buf.array
                 p == buf.from + buf.len
      <4>1. k \in 1..Len(mem) /\ p \in Nat /\ p + Len(c) <= Len(mem[k])
        <5>1. k \in 1..Len(mem) /\ buf.to <= Len(mem[k])
          BY <1>1, <1>2, <3>2 DEF Lies
        <5>2. Len(mem[k]) \in Nat
          BY <1>1, <5>1 DEF Ints
        <5> QED
          BY <1>2, <1>3, <5>1, <5>2, SMTT(60)
      <4>2. mem' = [mem EXCEPT ![k] = Written(@, p, c)]
        BY <2>1, <3>2
      <4>3. p >= buf.from /\ p + Len(c) <= buf.to
        BY <1>2, <1>3
      <4> HIDE DEF p
      <4>4. /\ mem' \in Seq(Ints) /\ Len(mem') = Len(mem)
            /\ \A j \in 1..Len(mem) : Len(mem'[j]) = Len(mem[j])
        BY <1>1, <4>1, <4>2, WriteKeeps
      <4>5. ASSUME NEW s, Lies(mem, s)
            PROVE  Lies(mem', s) /\ (Apart(s, buf) => ReadIn(mem', s) = ReadIn(mem, s))
        <5>1. /\ Lies(mem', s)
              /\ s.array # k \/ s.from + s.len <= p \/ p + Len(c) <= s.from
                 => ReadIn(mem', s) = ReadIn(mem, s)
          <6> DEFINE m2 == [mem EXCEPT ![k] = Written(@, p, c)]
          <6> HIDE DEF k
          <6>1. Lies(m2, s)
            BY <1>1, <4>1, <4>5, WriteKeepsSlice
          <6>2. s.array # k \/ s.from + s.len <= p \/ p + Len(c) <= s.from
                => ReadIn(m2, s) = ReadIn(mem, s)
            BY <1>1, <4>1, <4>5, WriteKeepsSlice
          <6>3. mem' = m2
            BY <4>2
          <6> HIDE DEF m2
          <6> QED
            BY <6>1, <6>2, <6>3
        <5>2. s.from \in Nat /\ s.len \in Nat
          BY <4>5 DEF Lies, SliceType
        <5>3. Apart(s, buf) =>
                s.array = 0 \/ s.array # k \/ s.from + s.len <= p \/ p + Len(c) <= s.from
          BY <1>2, <4>1, <4>3, <5>2 DEF Apart
        <5>4. s.array = 0 => s.array # k
          BY <3>2
        <5> QED
          BY <5>1, <5>3, <5>4
      <4> QED
        BY <4>1, <4>4, <4>5
    <3> QED
      BY <3>1, <3>2
  <2>4. Lies(mem', free') /\ Lies(mem', buf')
    <3>1. Lies(mem', buf)
      BY <1>1, <2>3
    <3>2. Lies(mem', buf')
      BY <1>2, <1>3, <2>2, <3>1 DEF Lies
    <3> QED
      BY <1>1, <2>1, <2>3, <3>2
  <2>5. AllApart(free', buf')
    BY <1>1, <2>1, <2>2 DEF AllApart
  <2>6. ASSUME NEW h \in handed' PROVE Safe(h)'
    <3>1. Safe(h)
      BY <1>1, <2>1, <2>6
    <3>2. Lies(mem', h.at) /\ ReadIn(mem', h.at) = h.said
      BY <2>3, <3>1 DEF Safe
    <3>3. Apart(h.at, free') /\ Apart(h.at, buf')
      BY <2>1, <2>2, <3>1 DEF Safe, Apart
    <3> QED
      BY <3>2, <3>3 DEF Safe
  <2> QED
    BY <2>3, <2>4, <2>5, <2>6 DEF BuffersInv
<1>4. CASE ~(buf.from + buf.len + Len(c) <= buf.to)
  <2> DEFINE n == buf.len + Len(c)
             k == Len(mem) + 1
  <2>1. PICK spare \in 0..Spare :
            /\ mem' = Append(mem, Read(buf) \o c \o Zeros(spare))
            /\ buf' = [array |-> k, from |-> 0, len |-> n, to |-> n + spare]
            /\ free' = free /\ handed' = handed
    BY <1>4 DEF AppendBytes
  <2>2. Read(buf) \in Ints /\ Len(Read(buf)) = buf.len
    <3>1. CASE buf.array = 0
      <4>1. buf.len = 0 /\ Read(buf) = <<>>
        BY <1>1, <1>2, <3>1 DEF Read, Lies
      <4> QED
        BY <4>1 DEF Ints
    <3>2. CASE buf.array # 0
      <4> DEFINE a == mem[buf.array]
                 f == buf.from
                 l == buf.len
      <4>1. a \in Ints /\ f \in Nat /\ l \in Nat /\ f + l <= Len(a)
        <5>1. buf.array \in 1..Len(mem) /\ buf.to <= Len(a) /\ buf.from + buf.len <= buf.to
          BY <1>1, <1>2, <3>2 DEF Lies
        <5>2. a \in Ints /\ Len(a) \in Nat
          BY <1>1, <5>1 DEF Ints
        <5> QED
          BY <1>2, <5>1, <5>2
      <4>2. Read(buf) = Bytes(a, f, l)
        BY <3>2 DEF Read
      <4> HIDE DEF a, f, l
      <4>3. SubSeq(a, f + 1, f + l) \in Ints /\ Len(SubSeq(a, f + 1, f + l)) = l
        BY <4>1 DEF Ints
      <4> QED
        BY <4>2, <4>3 DEF Bytes, l
    <3> QED
      BY <3>1, <3>2
  <2>3. Zeros(spare) \in Ints /\ Len(Zeros(spare)) = spare /\ spare \in Nat
    BY SpareAssumption DEF Zeros, Ints
  <2> DEFINE a == Read(buf) \o c \o Zeros(spare)
  <2>4. a \in Ints /\ Len(a) = n + spare /\ n \in Nat
    <3> DEFINE r == Read(buf)
               z == Zeros(spare)
    <3>1. r \in Seq(Int) /\ c \in Seq(Int) /\ z \in Seq(Int)
      BY <2>2, <2>3 DEF Ints
    <3> HIDE DEF r, z
    <3>2. r \o c \o z \in Seq(Int) /\ Len(r \o c \o z) = Len(r) + Len(c) + Len(z)
      BY <3>1
    <3> QED
      BY <1>2, <2>2, <2>3, <3>2 DEF r, z, Ints
  <2> HIDE DEF a, n
  <2>5. mem' = Append(mem, a) /\ mem' \in Seq(Ints) /\ Len(mem') = k /\ mem'[k] = a
    BY <1>1, <2>1, <2>4 DEF a
  <2>6. Lies(mem', buf') /\ buf'.array = k
    BY <1>2, <2>1, <2>3, <2>4, <2>5 DEF Lies, SliceType
  <2>7. Lies(mem', free')
    BY <1>1, <2>1, <2>4, <2>5, AppendKeepsSlice
  <2>8. free'.array # buf'.array
    BY <1>1, <1>2, <2>1, <2>6 DEF Lies, SliceType
  <2>9. ASSUME NEW h \in handed' PROVE Safe(h)'
    <3>1. Safe(h)
      BY <1>1, <2>1, <2>9
    <3>2. Lies(mem', h.at) /\ ReadIn(mem', h.at) = h.said
      BY <1>1, <2>4, <2>5, <3>1, AppendKeepsSlice DEF Safe
    <3>3. h.at.array # buf'.array
      BY <1>2, <2>6, <3>1, SMTT(60) DEF Safe, Lies, SliceType
    <3> QED
      BY <2>1, <3>1, <3>2, <3>3 DEF Safe, Apart
  <2> QED
    BY <2>5, <2>6, <2>7, <2>8, <2>9 DEF BuffersInv, AllApart
<1> QED
  BY <1>3, <1>4

LEMMA AllocBytesInv ==
  ASSUME BuffersInv, NEW c \in Ints, AllocBytes(c)
  PROVE  BuffersInv'
<1>1. /\ mem \in Seq(Ints) /\ Lies(mem, free) /\ Lies(mem, buf) /\ AllApart(free, buf)
      /\ \A h \in handed : Safe(h)
  BY DEF BuffersInv
<1>2. /\ free \in SliceType
      /\ free.array \in Nat /\ free.from \in Nat /\ free.len \in Nat /\ free.to \in Nat
      /\ free.from + free.len <= free.to
      /\ buf.array \in Nat /\ buf.from \in Nat /\ buf.len \in Nat /\ buf.to \in Nat
      /\ buf.from + buf.len <= buf.to
      /\ Len(c) \in Nat /\ Len(mem) \in Nat
  BY <1>1 DEF Lies, SliceType, Ints
<1> DEFINE n == Len(c)
           k == free.array
           p == free.from
<1>3. CASE free.len >= n
  <2> DEFINE res == [array |-> k, from |-> p, len |-> n, to |-> p + n]
  <2>1. /\ mem' = IF k = 0 THEN mem ELSE [mem EXCEPT ![k] = Written(@, p, c)]
        /\ free' = After(free, n, free.len - n)
        /\ handed' = handed \cup {[at |-> res, said |-> c]}
        /\ buf' = buf
    BY <1>3 DEF AllocBytes
  <2>2. p + n <= free.to
    BY <1>2, <1>3
  <2>3. /\ free' \in SliceType /\ free'.array = k /\ free'.from = p + n
        /\ free'.to = free.to /\ free'.len = free.len - n
    <3>1. p + n \in Nat /\ free.len - n \in Nat
      BY <1>2, <1>3, SMTT(60)
    <3> QED
      BY <1>2, <2>1, <3>1 DEF After, SliceType
  <2>4. /\ mem' \in Seq(Ints) /\ Len(mem') = Len(mem)
        /\ k > 0 => Len(mem'[k]) = Len(mem[k]) /\ Bytes(mem'[k], p, n) = c
        /\ \A s : Lies(mem, s) => Lies(mem', s)
        /\ \A s : Lies(mem, s) /\ Apart(s, free) => ReadIn(mem', s) = ReadIn(mem, s)
    <3>1. CASE k = 0
      BY <1>1, <2>1, <3>1
    <3>2. CASE k # 0
      <4>1. k \in 1..Len(mem) /\ p + n <= Len(mem[k])
        <5>1. k \in 1..Len(mem) /\ free.to <= Len(mem[k])
          BY <1>1, <1>2, <3>2 DEF Lies
        <5>2. Len(mem[k]) \in Nat
          BY <1>1, <5>1 DEF Ints
        <5> QED
          BY <1>2, <2>2, <5>1, <5>2, SMTT(60)
      <4> DEFINE m2 == [mem EXCEPT ![k] = Written(@, p, c)]
      <4>2. mem' = m2
        BY <2>1, <3>2
      <4>3. p \in Nat
        BY <1>2
      <4> HIDE DEF k, p
      <4>4. /\ m2 \in Seq(Ints) /\ Len(m2) = Len(mem)
            /\ \A j \in 1..Len(mem) : Len(m2[j]) = Len(mem[j])
            /\ Bytes(m2[k], p, n) = c
        BY <1>1, <4>1, <4>3, WriteKeeps
      <4>5. ASSUME NEW s, Lies(mem, s)
            PROVE  Lies(m2, s) /\ (Apart(s, free) => ReadIn(m2, s) = ReadIn(mem, s))
        <5>1. Lies(m2, s)
          BY <1>1, <4>1, <4>3, <4>5, WriteKeepsSlice
        <5>2. s.array # k \/ s.from + s.len <= p \/ p + n <= s.from
              => ReadIn(m2, s) = ReadIn(mem, s)
          BY <1>1, <4>1, <4>3, <4>5, WriteKeepsSlice
        <5>3. s.from \in Nat /\ s.len \in Nat
          BY <4>5 DEF Lies, SliceType
        <5>4. Apart(s, free) =>
                s.array = 0 \/ s.array # k \/ s.from + s.len <= p \/ p + n <= s.from
          BY <1>2, <2>2, <4>3, <5>3, SMTT(60) DEF Apart, k, p
        <5>5. s.array = 0 => s.array # k
          BY <3>2
        <5> HIDE DEF m2
        <5> QED
          BY <5>1, <5>2, <5>4, <5>5
      <4> HIDE DEF m2
      <4> QED
        BY <4>1, <4>2, <4>4, <4>5
    <3> QED
      BY <3>1, <3>2
  <2>5. Lies(mem', free') /\ Lies(mem', buf')
    <3>1. Lies(mem', free) /\ Lies(mem', buf)
      BY <1>1, <2>4
    <3>2. Lies(mem', free')
      BY <1>2, <1>3, <2>3, <3>1 DEF Lies
    <3> QED
      BY <2>1, <3>1, <3>2
  <2>6. Lies(mem', res) /\ ReadIn(mem', res) = c
    <3>1. CASE k = 0
      <4>1. n = 0
        BY <1>1, <1>2, <2>2, <3>1 DEF Lies
      <4>2. c = <<>>
        BY <4>1 DEF Ints
      <4>3. p = 0
        BY <1>1, <1>2, <3>1 DEF Lies
      <4> QED
        BY <2>4, <3>1, <4>1, <4>2, <4>3, <1>2 DEF Lies, ReadIn, SliceType
    <3>2. CASE k # 0
      <4>1. k \in 1..Len(mem) /\ free.to <= Len(mem[k]) /\ Len(mem[k]) \in Nat
        BY <1>1, <1>2, <3>2, SMTT(60) DEF Lies, Ints
      <4>2. p + n <= Len(mem'[k])
        BY <1>2, <2>2, <2>4, <4>1, SMTT(60)
      <4>3. res \in SliceType
        BY <1>2 DEF SliceType
      <4>4. Lies(mem', res)
        BY <1>2, <2>4, <3>2, <4>1, <4>2, <4>3 DEF Lies
      <4> QED
        BY <1>2, <2>4, <3>2, <4>4 DEF ReadIn
    <3> QED
      BY <3>1, <3>2
  <2>7. Apart(res, free') /\ Apart(res, buf')
    BY <1>1, <1>2, <2>1, <2>2, <2>3, SMTT(60) DEF Apart, AllApart
  <2>8. AllApart(free', buf')
    BY <1>1, <1>2, <2>1, <2>2, <2>3 DEF AllApart
  <2>9. ASSUME NEW h \in handed' PROVE Safe(h)'
    <3> HIDE DEF res
    <3>1. CASE h \in handed
      <4>1. Safe(h) /\ h.at.from \in Nat /\ h.at.len \in Nat
        BY <1>1, <3>1 DEF Safe, Lies, SliceType
      <4>2. Lies(mem', h.at) /\ ReadIn(mem', h.at) = h.said
        BY <2>4, <4>1 DEF Safe
      <4>3. Apart(h.at, free')
        <5> DEFINE b == h.at.array
                   f == h.at.from
                   l == h.at.len
        <5>1. b = 0 \/ b # k \/ f + l <= p \/ free.to <= f
          BY <4>1 DEF Safe, Apart
        <5>2. f \in Nat /\ l \in Nat /\ p \in Nat /\ n \in Nat
          BY <1>2, <4>1
        <5> HIDE DEF b, f, l, k, p, n
        <5>3. b = 0 \/ b # k \/ f + l <= p + n \/ free.to <= f
          BY <5>1, <5>2
        <5> QED
          BY <2>3, <5>3 DEF Apart, b, f, l
      <4> QED
        BY <2>1, <4>1, <4>2, <4>3 DEF Safe
    <3>2. CASE h \notin handed
      <4>1. h.at = res /\ h.said = c
        BY <2>1, <2>9, <3>2
      <4> QED
        BY <2>6, <2>7, <4>1 DEF Safe
    <3> QED
      BY <3>1, <3>2
  <2> QED
    BY <2>4, <2>5, <2>8, <2>9 DEF BuffersInv
<1>4. CASE ~(free.len >= n)
  <2> DEFINE l == Len(mem) + 1
             res == [array |-> l, from |-> 0, len |-> n, to |-> n]
  <2>1. /\ mem' = Append(mem, c) /\ free' = free /\ buf' = buf
        /\ handed' = handed \cup {[at |-> res, said |-> c]}
    BY <1>4 DEF AllocBytes
  <2>2. /\ mem' \in Seq(Ints) /\ Len(mem') = l /\ mem'[l] = c
        /\ Lies(mem', free') /\ Lies(mem', buf')
    BY <1>1, <2>1, AppendKeepsSlice
  <2>3. Lies(mem', res) /\ ReadIn(mem', res) = c
    <3>1. Lies(mem', res)
      <4>1. res \in SliceType /\ l > 0 /\ Len(mem'[l]) = n
        BY <1>2, <2>2 DEF SliceType
      <4> QED
        BY <1>2, <2>2, <4>1 DEF Lies
    <3>2. Bytes(c, 0, n) = c
      BY DEF Bytes, Ints
    <3> QED
      BY <1>2, <2>2, <3>1, <3>2 DEF ReadIn, Lies
  <2>4. Apart(res, free') /\ Apart(res, buf')
    <3>1. free.array <= Len(mem) /\ buf.array <= Len(mem)
      BY <1>1 DEF Lies
    <3> QED
      BY <1>2, <2>1, <3>1 DEF Apart
  <2>5. ASSUME NEW h \in handed' PROVE Safe(h)'
    <3> HIDE DEF res
    <3>1. CASE h \in handed
      <4>1. Safe(h)
        BY <1>1, <3>1
      <4>2. Lies(mem', h.at) /\ ReadIn(mem', h.at) = h.said
        BY <1>1, <2>1, <4>1, AppendKeepsSlice DEF Safe
      <4> QED
        BY <2>1, <4>1, <4>2 DEF Safe
    <3>2. CASE h \notin handed
      <4>1. h.at = res /\ h.said = c
        BY <2>1, <2>5, <3>2
      <4> QED
        BY <2>3, <2>4, <4>1 DEF Safe
    <3> QED
      BY <3>1, <3>2
  <2> QED
    BY <1>1, <2>1, <2>2, <2>5 DEF BuffersInv
<1> QED
  BY <1>3, <1>4

-----------------------------------------------------------------------------
LEMMA TextIsInts == Text \subseteq Ints
<1>1. SUFFICES ASSUME NEW c \in Text PROVE c \in Ints
  OBVIOUS
<1>2. Len(c) \in Nat /\ c \in [1..Len(c) -> Byte]
  BY DEF Text
<1>3. \A i \in 1..Len(c) : c[i] \in Int
  <2>1. ASSUME NEW i \in 1..Len(c) PROVE c[i] \in Byte
    BY <1>2
  <2>2. Byte \subseteq Int
    BY DEF Byte
  <2> QED
    BY ONLY <2>1, <2>2
<1>4. c \in [1..Len(c) -> Int]
  BY <1>2, <1>3
<1> QED
  BY <1>2, <1>4 DEF Ints

LEMMA BuffersStep ==
  ASSUME BuffersInv, [BuffersNext]_bufferVars
  PROVE  BuffersInv'
<1>1. ASSUME NEW c \in Text, AllocBytes(c) PROVE BuffersInv'
  BY <1>1, TextIsInts, AllocBytesInv
<1>2. ASSUME NEW c \in Text, AppendBytes(c) PROVE BuffersInv'
  BY <1>2, TextIsInts, AppendBytesInv
<1>3. CASE TakeBuffer
  BY <1>3, TakeBufferInv
<1>4. CASE FinishString
  BY <1>4, FinishStringInv
<1>5. CASE DropBuffer
  BY <1>5, DropBufferInv
<1>6. CASE UNCHANGED bufferVars
  BY <1>6 DEF bufferVars, BuffersInv, Safe, Lies, Apart, AllApart, ReadIn
<1> QED
  BY <1>1, <1>2, <1>3, <1>4, <1>5, <1>6 DEF BuffersNext

LEMMA InvKeepsStrings == BuffersInv => StringsKept
BY DEF BuffersInv, StringsKept, Safe, Read, ReadIn

(* For every sequence of calls of the buffer operations, every text length  *)
(* and every growth of append: a string that was handed out still says     *)
(* what it said (scan.go:70-104).                                          *)
THEOREM BuffersKeepStrings ==
  ASSUME NEW n \in Nat
  PROVE  BuffersSpec(n) => []StringsKept
<1>1. BuffersInit(n) => BuffersInv
  BY BuffersInitInv
<1>2. BuffersInv /\ [BuffersNext]_bufferVars => BuffersInv'
  BY BuffersStep
<1> QED
  BY <1>1, <1>2, InvKeepsStrings, PTL DEF BuffersSpec

-----------------------------------------------------------------------------
(* A set of naturals has a least element.                                  *)
LEMMA LeastNatural ==
  ASSUME NEW T, T \subseteq Nat, T # {}
  PROVE  \E x \in T : \A y \in T : x <= y
<1> DEFINE R == OpToRel(<, Nat)
<1>1. IsWellFoundedOn(R, Nat)
  BY NatLessThanWellFounded
<1>2. PICK x \in T : \A y \in T : ~ (<<y, x>> \in R)
  BY <1>1, WFMin
<1>3. \A y \in T : <<y, x>> \in R <=> y < x
  BY DEF OpToRel
<1> HIDE DEF R
<1>4. \A y \in T : ~(y < x)
  BY ONLY <1>2, <1>3, Zenon
<1> QED
  BY ONLY <1>4, x \in T, T \subseteq Nat, SMT

(* The induction of the naturals, on a set and its elements. *)
LEMMA Induction ==
  ASSUME NEW S, 0 \in S, \A n \in Nat : n \in S => n + 1 \in S
  PROVE  \A n \in Nat : n \in S
<1> DEFINE T == Nat \ S
<1>1. SUFFICES ASSUME T # {} PROVE FALSE
  OBVIOUS
<1>2. PICK x \in T : \A y \in T : x <= y
  BY <1>1, LeastNatural, T \subseteq Nat
<1>3. x # 0 /\ x - 1 \in Nat
  BY <1>2
<1>4. x - 1 \in S
  BY <1>2, <1>3
<1> QED
  BY <1>2, <1>3, <1>4

-----------------------------------------------------------------------------
(* Bytes and parts of a text.                                              *)

(* Intervals, by their bounds. *)
Between(b, low, high) == b \in Int /\ low <= b /\ b <= high

LEMMA IntervalIs == \A x, y \in Int : \A b : b \in x..y <=> Between(b, x, y)
BY SMT DEF Between

LEMMA ByteIs == \A b : b \in Byte <=> Between(b, 0, 255)
BY SMT DEF Byte, Between

LEMMA ContinuationIs == \A b : b \in Continuation <=> Between(b, 128, 191)
BY SMT DEF Continuation, Between

ByteOf(t, p)  == IF p < Len(t) THEN t[p + 1] ELSE Eof
Part(t, p, q) == SubSeq(t, p + 1, q)

(* Peek and Slice are bytes and parts of the text that is scanned. *)
LEMMA PeekIs ==
  /\ \A p : PeekAt(p) = ByteOf(in, p)
  /\ Peek = ByteOf(in, pos)
  /\ \A p, q : Slice(p, q) = Part(in, p, q)
BY DEF PeekAt, Peek, Slice, ByteOf, Part

LEMMA ByteFacts ==
  ASSUME NEW t \in Text, NEW p \in Nat
  PROVE  /\ Len(t) \in Nat
         /\ ByteOf(t, p) \in Byte \cup {Eof} /\ ByteOf(t, p) \in Int
         /\ p < Len(t) => ByteOf(t, p) \in Byte /\ ByteOf(t, p) = t[p + 1]
         /\ ByteOf(t, p) # Eof <=> p < Len(t)
         /\ \A C \in SUBSET Byte : ByteOf(t, p) \in C => p < Len(t)
<1>1. Len(t) \in Nat /\ \A i \in 1..Len(t) : t[i] \in Byte
  BY DEF Text
<1>2. Byte \subseteq Int /\ Eof \notin Byte /\ Eof \in Int
  BY DEF Byte, Eof
<1>3. ByteOf(t, p) = IF p < Len(t) THEN t[p + 1] ELSE Eof
  BY DEF ByteOf
<1>4. p < Len(t) => p + 1 \in 1..Len(t)
  BY <1>1
<1> DEFINE b == ByteOf(t, p)
<1>5. /\ p < Len(t) => b = t[p + 1] /\ b \in Byte
      /\ ~(p < Len(t)) => b = Eof
  BY <1>1, <1>3, <1>4
<1> HIDE DEF b
<1>6. /\ b \in Byte \cup {Eof} /\ b \in Int
      /\ b # Eof <=> p < Len(t)
      /\ \A C \in SUBSET Byte : b \in C => p < Len(t)
  BY <1>2, <1>5, Zenon
<1> QED
  BY <1>1, <1>5, <1>6 DEF b

LEMMA PartFacts ==
  ASSUME NEW t \in Text, NEW p \in Nat, NEW q \in 0..Len(t)
  PROVE  /\ Part(t, p, q) \in Text
         /\ p <= q => Len(Part(t, p, q)) = q - p
         /\ q <= p => Part(t, p, q) = <<>>
         /\ \A i \in 1..Len(Part(t, p, q)) : Part(t, p, q)[i] = ByteOf(t, p + i - 1)
<1> DEFINE s == Part(t, p, q)
<1>1. /\ p + 1 \in 1..(p + 1) /\ q \in Nat /\ Len(t) \in Nat
      /\ \A i \in (p + 1)..q : t[i] \in Byte
  BY DEF Text
<1>2. /\ s \in Seq(Byte) /\ Len(s) = IF p + 1 <= q THEN q - p ELSE 0
      /\ \A i \in 1..Len(s) : s[i] = t[p + i]
  <2>1. s \in Seq(Byte) /\ Len(s) = IF p + 1 <= q THEN q - p ELSE 0
    BY <1>1, SMTT(20) DEF Part, Text
  <2>2. \A i \in 1..Len(s) : s[i] = t[p + i]
    BY <1>1, <2>1, SMTT(20) DEF Part, Text
  <2> QED
    BY <2>1, <2>2
<1> HIDE DEF s
<1>3. \A i \in 1..Len(s) : s[i] = ByteOf(t, p + i - 1)
  BY <1>1, <1>2 DEF ByteOf
<1>4. q <= p => s = <<>>
  BY <1>1, <1>2, EmptySeq
<1> QED
  BY <1>1, <1>2, <1>3, <1>4 DEF s, Text

LEMMA TextEqual ==
  ASSUME NEW s \in Text, NEW t \in Text, Len(s) = Len(t), \A i \in 1..Len(s) : s[i] = t[i]
  PROVE  s = t
BY SeqEqual DEF Text

(* What Has says, byte by byte. *)
LEMMA HasIs ==
  ASSUME in \in Text, NEW s \in Text, NEW p \in Nat
  PROVE  Has(p, s) <=> /\ p + Len(s) <= Len(in)
                       /\ \A i \in 1..Len(s) : ByteOf(in, p + i - 1) = s[i]
<1>1. Len(s) \in Nat /\ Len(in) \in Nat
  BY DEF Text
<1> DEFINE u == Part(in, p, p + Len(s))
<1>2. ASSUME p + Len(s) <= Len(in)
      PROVE  u \in Text /\ Len(u) = Len(s) /\ \A i \in 1..Len(u) : u[i] = ByteOf(in, p + i - 1)
  BY <1>1, <1>2, PartFacts
<1>3. Has(p, s) <=> p + Len(s) <= Len(in) /\ u = s
  BY PeekIs DEF Has
<1> HIDE DEF u
<1> QED
  BY <1>1, <1>2, <1>3, TextEqual

(* Where a span of bytes of a class ends. *)
LEMMA SpanSpec ==
  ASSUME in \in Text, NEW p \in 0..Len(in), NEW C
  PROVE  /\ SpanEnd(p, C) \in p..Len(in)
         /\ \A r \in p..(SpanEnd(p, C) - 1) : ByteOf(in, r) \in C
         /\ SpanEnd(p, C) < Len(in) => ByteOf(in, SpanEnd(p, C)) \notin C
<1> DEFINE Ends(q) == /\ \A r \in p..(q - 1) : in[r + 1] \in C
                      /\ q < Len(in) => in[q + 1] \notin C
           T == {q \in p..Len(in) : q < Len(in) => in[q + 1] \notin C}
<1>1. Len(in) \in Nat /\ p \in Nat
  BY DEF Text
<1>2. T # {} /\ T \subseteq Nat
  BY <1>1
<1>3. PICK q \in T : \A r \in T : q <= r
  BY <1>2, LeastNatural
<1>4. ASSUME NEW r \in p..(q - 1) PROVE in[r + 1] \in C
  <2> SUFFICES ASSUME in[r + 1] \notin C PROVE FALSE
    OBVIOUS
  <2>1. r \in p..Len(in) /\ r < q
    BY <1>1, <1>3, <1>4
  <2>2. r \in T
    BY <2>1
  <2> QED
    BY <1>1, <1>3, <2>1, <2>2
<1>5. \E e \in p..Len(in) : Ends(e)
  BY <1>3, <1>4
<1>6. SpanEnd(p, C) \in p..Len(in) /\ Ends(SpanEnd(p, C))
  BY <1>5 DEF SpanEnd
<1> QED
  BY <1>1, <1>6 DEF ByteOf

-----------------------------------------------------------------------------
(* Runes and names are bytes.                                              *)

LEMMA ByteSeqs ==
  /\ <<>> \in Text
  /\ \A b \in Byte : <<b>> \in Text /\ Len(<<b>>) = 1 /\ <<b>>[1] = b
  /\ \A s, t \in Text : s \o t \in Text /\ Len(s \o t) = Len(s) + Len(t)
  /\ \A a, b \in Byte : <<a, b>> \in Text
  /\ \A a, b, c \in Byte : <<a, b, c>> \in Text
  /\ \A a, b, c, d \in Byte : <<a, b, c, d>> \in Text
BY DEF Text

LEMMA EncodeRuneText ==
  ASSUME NEW v \in Nat, v <= 1114111
  PROVE  EncodeRune(v) \in Text
<1>1. CASE v < 128
  <2>1. v \in Byte
    BY <1>1, ByteIs, SMT DEF Between
  <2>2. EncodeRune(v) = <<v>>
    BY <1>1, SMT DEF EncodeRune
  <2> QED
    BY <2>1, <2>2, ByteSeqs
<1>2. CASE v >= 128 /\ v < 2048
  <2>1. 192 + (v \div 64) \in Byte /\ 128 + (v % 64) \in Byte
    BY <1>2, ByteIs, SMT DEF Between
  <2>2. EncodeRune(v) = <<192 + (v \div 64), 128 + (v % 64)>>
    BY <1>2, SMT DEF EncodeRune
  <2> QED
    BY <2>1, <2>2, ByteSeqs
<1>3. CASE v >= 2048 /\ v < 65536
  <2>1. /\ 224 + (v \div 4096) \in Byte /\ 128 + ((v \div 64) % 64) \in Byte
        /\ 128 + (v % 64) \in Byte
    BY <1>3, ByteIs, SMT DEF Between
  <2>2. EncodeRune(v) = <<224 + (v \div 4096), 128 + ((v \div 64) % 64), 128 + (v % 64)>>
    BY <1>3, SMT DEF EncodeRune
  <2> QED
    BY <2>1, <2>2, ByteSeqs, SMT
<1>4. CASE v >= 65536
  <2>1. /\ 240 + (v \div 262144) \in Byte /\ 128 + ((v \div 4096) % 64) \in Byte
        /\ 128 + ((v \div 64) % 64) \in Byte /\ 128 + (v % 64) \in Byte
    BY <1>4, ByteIs, SMT DEF Between
  <2>2. EncodeRune(v) = <<240 + (v \div 262144), 128 + ((v \div 4096) % 64),
                          128 + ((v \div 64) % 64), 128 + (v % 64)>>
    BY <1>4, SMT DEF EncodeRune
  <2> QED
    BY <2>1, <2>2, ByteSeqs, SMT
<1> QED
  BY <1>1, <1>2, <1>3, <1>4, SMT

LEMMA LeadBytes ==
  /\ \A b : b \in 194..223 <=> Between(b, 194, 223)
  /\ \A b : b \in 225..239 <=> Between(b, 225, 239)
  /\ \A b : b \in 241..243 <=> Between(b, 241, 243)
<1>1. \A b : b \in 194..223 <=> Between(b, 194, 223)
  BY SMT DEF Between
<1>2. \A b : b \in 225..239 <=> Between(b, 225, 239)
  BY SMT DEF Between
<1>3. \A b : b \in 241..243 <=> Between(b, 241, 243)
  BY SMT DEF Between
<1> QED
  BY <1>1, <1>2, <1>3, Zenon

LEMMA SecondBytes ==
  /\ 160..191 \subseteq Continuation /\ 128..159 \subseteq Continuation
  /\ 144..191 \subseteq Continuation /\ 128..143 \subseteq Continuation
  /\ \A b \in 128..143 : b <= 143
<1>1. 160..191 \subseteq Continuation
  BY SMT DEF Continuation
<1>2. 128..159 \subseteq Continuation
  BY SMT DEF Continuation
<1>3. 144..191 \subseteq Continuation
  BY SMT DEF Continuation
<1>4. 128..143 \subseteq Continuation
  BY SMT DEF Continuation
<1>5. \A b \in 128..143 : b <= 143
  BY SMT
<1> QED
  BY <1>1, <1>2, <1>3, <1>4, <1>5, Zenon

(* The lengths of the runes that a byte may start. *)
LEMMA RuneLengthSpec ==
  ASSUME NEW s \in Text, NEW i \in 1..Len(s)
  PROVE  LET n == RuneLength(s, i)
         IN  /\ n \in 0..4
             /\ n > 0 => i + n <= Len(s) + 1
             /\ n = 1 => s[i] < 128
             /\ n = 2 => Between(s[i], 194, 223) /\ s[i + 1] \in Continuation
             /\ n = 3 => Between(s[i], 224, 239) /\ s[i + 1] \in Continuation
                         /\ s[i + 2] \in Continuation
             /\ n = 4 => Between(s[i], 240, 244) /\ s[i + 1] \in Continuation
                         /\ (s[i] = 244 => s[i + 1] <= 143)
                         /\ s[i + 2] \in Continuation /\ s[i + 3] \in Continuation
<1> DEFINE n == RuneLength(s, i)
           Follow(k, second) ==
               IF /\ i + k - 1 <= Len(s)
                  /\ s[i+1] \in second
                  /\ \A r \in (i + 2)..(i + k - 1) : s[r] \in Continuation
               THEN k ELSE 0
<1>1. Len(s) \in Nat /\ Between(s[i], 0, 255) /\ s[i] \in Nat
  <2>1. Len(s) \in Nat /\ s[i] \in Byte
    BY DEF Text
  <2> QED
    BY <2>1, ByteIs DEF Between
<1>2. ASSUME NEW k \in 2..4, NEW second
      PROVE  /\ Follow(k, second) \in {0, k}
             /\ Follow(k, second) = k => /\ i + k <= Len(s) + 1
                                         /\ s[i + 1] \in second
                                         /\ k > 2 => s[i + 2] \in Continuation
                                         /\ k > 3 => s[i + 3] \in Continuation
  BY <1>1, <1>2
<1> DEFINE C3 == 160..191
           D3 == 128..159
           C4 == 144..191
           D4 == 128..143
<1>3. n = IF s[i] < 128 THEN 1
          ELSE IF Between(s[i], 194, 223) THEN Follow(2, Continuation)
          ELSE IF s[i] = 224 THEN Follow(3, C3)
          ELSE IF s[i] = 237 THEN Follow(3, D3)
          ELSE IF Between(s[i], 225, 239) THEN Follow(3, Continuation)
          ELSE IF s[i] = 240 THEN Follow(4, C4)
          ELSE IF Between(s[i], 241, 243) THEN Follow(4, Continuation)
          ELSE IF s[i] = 244 THEN Follow(4, D4) ELSE 0
  <2> DEFINE B2 == 194..223
             B3 == 225..239
             B4 == 241..243
  <2>1. /\ \A b : b \in B2 <=> Between(b, 194, 223)
        /\ \A b : b \in B3 <=> Between(b, 225, 239)
        /\ \A b : b \in B4 <=> Between(b, 241, 243)
    BY LeadBytes, Zenon
  <2> HIDE DEF Follow
  <2>2. n = IF s[i] < 128 THEN 1
          ELSE IF s[i] \in B2 THEN Follow(2, Continuation)
          ELSE IF s[i] = 224 THEN Follow(3, C3)
          ELSE IF s[i] = 237 THEN Follow(3, D3)
          ELSE IF s[i] \in B3 THEN Follow(3, Continuation)
          ELSE IF s[i] = 240 THEN Follow(4, C4)
          ELSE IF s[i] \in B4 THEN Follow(4, Continuation)
          ELSE IF s[i] = 244 THEN Follow(4, D4) ELSE 0
    BY DEF RuneLength, Follow
  <2> HIDE DEF B2, B3, B4, C3, D3, C4, D4, n
  <2> QED
    BY <2>1, <2>2, SMT
<1>4. /\ C3 \subseteq Continuation /\ D3 \subseteq Continuation
      /\ C4 \subseteq Continuation /\ D4 \subseteq Continuation
      /\ \A b \in D4 : b <= 143
  BY SecondBytes, Zenon
<1> HIDE DEF n, Follow, C3, D3, C4, D4
<1>5. \/ n = 0
      \/ n = 1 /\ s[i] < 128
      \/ n = 2 /\ Between(s[i], 194, 223) /\ n = Follow(2, Continuation)
      \/ n = 3 /\ Between(s[i], 224, 239) /\ \E C \in SUBSET Continuation : n = Follow(3, C)
      \/ n = 4 /\ Between(s[i], 240, 243) /\ \E C \in SUBSET Continuation : n = Follow(4, C)
      \/ n = 4 /\ s[i] = 244 /\ n = Follow(4, D4)
  <2>1. /\ Follow(2, Continuation) \in {0, 2}
        /\ \A C : Follow(3, C) \in {0, 3} /\ Follow(4, C) \in {0, 4}
    BY <1>2
  <2> QED
    BY <1>1, <1>3, <1>4, <2>1, SMTT(30) DEF Between
<1>6. CASE n = 0
  BY <1>6 DEF n
<1>7. CASE n = 1
  BY <1>1, <1>5, <1>7 DEF n
<1>8. CASE n = 2
  BY <1>1, <1>2, <1>5, <1>8 DEF n
<1>9. CASE n = 3
  <2>1. PICK C \in SUBSET Continuation : n = Follow(3, C)
    BY <1>5, <1>9
  <2>2. s[i + 1] \in Continuation /\ s[i + 2] \in Continuation /\ i + 3 <= Len(s) + 1
    BY <1>2, <1>9, <2>1
  <2> QED
    BY <1>1, <1>5, <1>9, <2>2 DEF n
<1>10. CASE n = 4
  <2>1. PICK C \in SUBSET Continuation : n = Follow(4, C) /\ (s[i] = 244 => C = D4)
    BY <1>4, <1>5, <1>10 DEF Between
  <2>2. /\ s[i + 1] \in Continuation /\ s[i + 2] \in Continuation
        /\ s[i + 3] \in Continuation /\ i + 4 <= Len(s) + 1
        /\ s[i + 1] \in C
    BY <1>2, <1>10, <2>1
  <2>3. s[i] = 244 => s[i + 1] <= 143
    BY <1>4, <2>1, <2>2
  <2>4. Between(s[i], 240, 244)
    BY <1>1, <1>5, <1>10 DEF Between
  <2> QED
    BY <1>10, <2>2, <2>3, <2>4 DEF n
<1> QED
  BY <1>5, <1>6, <1>7, <1>8, <1>9, <1>10

LEMMA RuneAtRange ==
  ASSUME NEW s \in Text, NEW i \in 1..Len(s), RuneLength(s, i) > 0
  PROVE  /\ RuneAt(s, i, RuneLength(s, i)) \in Nat
         /\ RuneAt(s, i, RuneLength(s, i)) <= 1114111
<1> DEFINE n == RuneLength(s, i)
           a == s[i]
           b == s[i + 1]
           c == s[i + 2]
           d == s[i + 3]
<1>1. /\ n \in 1..4 /\ a \in Byte
      /\ n = 1 => a < 128
      /\ n = 2 => Between(a, 194, 223) /\ b \in Continuation
      /\ n = 3 => Between(a, 224, 239) /\ b \in Continuation /\ c \in Continuation
      /\ n = 4 => Between(a, 240, 244) /\ b \in Continuation /\ (a = 244 => b <= 143)
                  /\ c \in Continuation /\ d \in Continuation
  BY RuneLengthSpec DEF Text
<1> DEFINE v == RuneAt(s, i, n)
<1>2. /\ n = 1 => v = a
      /\ n = 2 => v = (a - 192) * 64 + b - 128
      /\ n = 3 => v = (a - 224) * 4096 + (b - 128) * 64 + c - 128
      /\ n = 4 => v = (a - 240) * 262144 + (b - 128) * 4096
                                    + (c - 128) * 64 + d - 128
  BY SMT DEF RuneAt
<1> HIDE DEF n, a, b, c, d, v
<1>3. CASE n = 1
  BY <1>1, <1>2, <1>3, ByteIs, SMT DEF Between, v, n
<1>4. CASE n = 2
  BY <1>1, <1>2, <1>4, ContinuationIs, SMT DEF Between, v, n
<1>5. CASE n = 3
  BY <1>1, <1>2, <1>5, ContinuationIs, SMTT(20) DEF Between, v, n
<1>6. CASE n = 4
  <2>1. /\ a \in Int /\ 240 <= a /\ a <= 244 /\ b \in Int /\ 128 <= b /\ b <= 191
        /\ c \in Int /\ 128 <= c /\ c <= 191 /\ d \in Int /\ 128 <= d /\ d <= 191
        /\ a = 244 => b <= 143
    BY <1>1, <1>6, ContinuationIs DEF Between
  <2>2. v = (a - 240) * 262144 + (b - 128) * 4096 + (c - 128) * 64 + d - 128
    BY <1>2, <1>6, SMT
  <2>3. v \in Nat /\ v <= 1114111
    BY <2>1, <2>2, SMTT(30)
  <2> QED
    BY <2>3, SMT DEF v, n
<1> QED
  BY <1>1, <1>3, <1>4, <1>5, <1>6, SMT

(* What is taken from each rune of a text, in order: the recursion of      *)
(* LowerName.                                                              *)
Folded(s, i) == IF RuneLength(s, i) = 0 THEN EncodeRune(RuneError)
                ELSE EncodeRune(LowerRune(RuneAt(s, i, RuneLength(s, i))))
Width(s, i)  == IF RuneLength(s, i) = 0 THEN 1 ELSE RuneLength(s, i)

LEMMA UpToBound == \A m \in Nat : \A c \in 0..m : c \in Nat /\ c <= m
BY SMT

(* A number that EncodeRune takes. *)
IsCode(v) == v \in Nat /\ v <= 1114111

LEMMA LowerRuneCode ==
  ASSUME NEW v, IsCode(v)
  PROVE  IsCode(LowerRune(v))
<1> DEFINE U == Upper \cup ((192..222) \ {215})
<1>1. v \in U => v <= 222
  <2>1. v \in 192..222 => v <= 222
    BY SMT
  <2>2. v \in Upper => v <= 90
    BY SMT DEF Upper
  <2>3. v \in U => v \in 192..222 \/ v \in Upper
    BY Zenon
  <2> QED
    BY <2>1, <2>2, <2>3, SMT DEF IsCode
<1> HIDE DEF U
<1>2. LowerRune(v) = IF v \in U THEN v + 32 ELSE IF v \in {304, 305} THEN 105
                     ELSE IF v \in DOMAIN LowerCase THEN LowerCase[v] ELSE v
  BY Zenon DEF LowerRune, U
<1>3. IsCode(105) /\ (v \in U => IsCode(v + 32))
  BY <1>1, SMT DEF IsCode
<1>4. ASSUME v \in DOMAIN LowerCase
      PROVE  IsCode(LowerCase[v])
  <2> DEFINE c == LowerCase[v]
  <2>1. c \in 0..MaxRune
    BY <1>4, UnicodeAssumption, Zenon
  <2> HIDE DEF c
  <2>2. MaxRune \in Nat
    BY SMT DEF MaxRune
  <2>3. c \in Nat /\ c <= MaxRune
    BY <2>1, <2>2, UpToBound, Zenon
  <2>4. IsCode(c)
    BY <2>3, SMT DEF MaxRune, IsCode
  <2> QED
    BY <2>4 DEF c
<1>5. CASE v \in U
  BY <1>2, <1>3, <1>5, SMT
<1>6. CASE v \notin U /\ v \in {304, 305}
  BY <1>2, <1>3, <1>6, SMT
<1>7. CASE v \notin U /\ v \notin {304, 305}
  BY <1>2, <1>4, <1>7, SMT
<1> QED
  BY <1>5, <1>6, <1>7, SMT

LEMMA FoldedText ==
  ASSUME NEW s \in Text, NEW i \in 1..Len(s)
  PROVE  Folded(s, i) \in Text /\ Width(s, i) \in Nat /\ i + Width(s, i) \in (i + 1)..(Len(s) + 1)
<1>1. Len(s) \in Nat /\ i + RuneLength(s, i) <= Len(s) + 1 /\ RuneLength(s, i) \in 0..4
  BY RuneLengthSpec, SMT DEF Text
<1>2. CASE RuneLength(s, i) = 0
  <2>1. EncodeRune(RuneError) \in Text
    BY EncodeRuneText, SMT DEF RuneError
  <2> QED
    BY <1>1, <1>2, <2>1, SMT DEF Folded, Width
<1>3. CASE RuneLength(s, i) # 0
  <2> DEFINE v == RuneAt(s, i, RuneLength(s, i))
  <2>1. v \in Nat /\ v <= 1114111
    BY <1>1, <1>3, RuneAtRange, SMT
  <2> HIDE DEF v
  <2>2. LowerRune(v) \in Nat /\ LowerRune(v) <= 1114111
    BY <2>1, LowerRuneCode, SMT DEF IsCode
  <2>3. EncodeRune(LowerRune(v)) \in Text
    BY <2>2, EncodeRuneText, SMT
  <2> QED
    BY <1>1, <1>3, <2>3, SMT DEF Folded, Width, v
<1> QED
  BY <1>2, <1>3, SMT

Folding(s, f) ==
    f = [i \in 1..(Len(s) + 1) |->
            IF i = Len(s) + 1 THEN <<>> ELSE Folded(s, i) \o f[i + Width(s, i)]]

LEMMA FoldingExists ==
  ASSUME NEW s \in Text
  PROVE  \E f : Folding(s, f)
<1> DEFINE l == Len(s) + 1
           Body(f, i) == IF i = l THEN <<>> ELSE Folded(s, i) \o f[i + Width(s, i)]
           From(k, f) == f \in [(l - k)..l -> Text] /\ \A i \in (l - k)..l : f[i] = Body(f, i)
           S == {k \in Nat : k < l => \E f : From(k, f)}
<1>1. l \in Nat /\ l >= 1 /\ Len(s) = l - 1
  BY DEF Text
<1>2. \A i \in 1..(l - 1) : /\ Folded(s, i) \in Text
                            /\ i + Width(s, i) \in (i + 1)..l
  BY <1>1, FoldedText
<1> HIDE DEF l
<1>3. 0 \in S
  <2> DEFINE f == [i \in (l - 0)..l |-> <<>>]
  <2>1. From(0, f)
    BY <1>1, ByteSeqs
  <2> QED
    BY <2>1
<1>4. ASSUME NEW k \in Nat, k \in S PROVE k + 1 \in S
  <2> SUFFICES ASSUME k + 1 < l PROVE \E g : From(k + 1, g)
    OBVIOUS
  <2>1. PICK f : From(k, f)
    BY <1>1, <1>4
  <2> DEFINE m == l - (k + 1)
             g == [i \in m..l |-> IF i = m THEN Folded(s, i) \o f[i + Width(s, i)] ELSE f[i]]
  <2>2. /\ m \in 1..(l - 1) /\ l - k = m + 1
        /\ \A i \in m..l : i = m \/ i \in (l - k)..l
    BY <1>1
  <2>3. m + Width(s, m) \in (l - k)..l /\ Folded(s, m) \in Text
    BY <1>1, <1>2, <2>2
  <2>4. f[m + Width(s, m)] \in Text
    BY <2>1, <2>3
  <2>5. Folded(s, m) \o f[m + Width(s, m)] \in Text
    BY <2>3, <2>4, ByteSeqs
  <2> HIDE DEF m
  <2>6. g \in [m..l -> Text]
    BY <2>1, <2>2, <2>5
  <2>7. /\ g[m] = Folded(s, m) \o f[m + Width(s, m)]
        /\ \A i \in (l - k)..l : g[i] = f[i]
    BY <1>1, <2>2
  <2> HIDE DEF g
  <2>8. ASSUME NEW i \in m..l PROVE g[i] = Body(g, i)
    <3>1. CASE i = m
      <4>1. m # l
        BY <1>1, <2>2
      <4>2. g[m + Width(s, m)] = f[m + Width(s, m)]
        BY <2>3, <2>7, Zenon
      <4> QED
        BY <2>7, <3>1, <4>1, <4>2, Zenon
    <3>2. CASE i = l
      BY <1>1, <2>1, <2>2, <2>7, <3>2
    <3>3. CASE i # m /\ i # l
      <4>1. i \in (l - k)..l /\ i \in 1..(l - 1) /\ i + Width(s, i) \in (l - k)..l
        BY <1>1, <1>2, <2>2, <3>3
      <4>2. f[i] = Folded(s, i) \o f[i + Width(s, i)]
        BY <2>1, <3>3, <4>1
      <4> QED
        BY <2>7, <3>3, <4>1, <4>2
    <3> QED
      BY <3>1, <3>2, <3>3
  <2> QED
    BY <2>6, <2>8 DEF m
<1> HIDE DEF S
<1>5. \A k \in Nat : k \in S
  BY <1>3, <1>4, Induction
<1>6. PICK f : From(l - 1, f)
  BY <1>1, <1>5 DEF S
<1>7. l - (l - 1) = 1
  BY <1>1
<1>8. f = [i \in 1..l |-> Body(f, i)]
  BY <1>6, <1>7
<1> QED
  BY <1>8 DEF Folding, l

LEMMA FoldingText ==
  ASSUME NEW s \in Text, NEW f, Folding(s, f)
  PROVE  f[1] \in Text
<1> DEFINE l == Len(s) + 1
           T == {k \in 0..(l - 1) : f[l - k] \notin Text}
<1>1. l \in Nat /\ l >= 1 /\ Len(s) = l - 1
  BY DEF Text
<1>2. \A i \in 1..(l - 1) : /\ Folded(s, i) \in Text
                            /\ i + Width(s, i) \in (i + 1)..l
  BY <1>1, FoldedText
<1>3. \A i \in 1..l : f[i] = IF i = l THEN <<>> ELSE Folded(s, i) \o f[i + Width(s, i)]
  BY DEF Folding
<1> HIDE DEF l
<1>4. ASSUME NEW k \in T, \A j \in T : k <= j PROVE FALSE
  <2>1. k \in 0..(l - 1) /\ f[l - k] \notin Text
    OBVIOUS
  <2>2. k # 0
    BY <1>1, <1>3, <2>1, ByteSeqs
  <2> DEFINE i == l - k
             w == i + Width(s, i)
  <2>3. i \in 1..(l - 1) /\ i \in 1..l /\ i # l
    BY <1>1, <2>1, <2>2
  <2> HIDE DEF i
  <2>4. w \in (i + 1)..l /\ Folded(s, i) \in Text
    BY <1>2, <2>3, Zenon
  <2>5. f[i] = Folded(s, i) \o f[w]
    BY <1>3, <2>3, Zenon
  <2> HIDE DEF w
  <2>6. l - w \in 0..(l - 1) /\ ~(k <= l - w) /\ l - (l - w) = w
    BY <1>1, <2>1, <2>3, <2>4 DEF i
  <2>7. f[w] \in Text
    <3>1. l - w \notin T
      BY <1>4, <2>6, Zenon
    <3> QED
      BY <2>6, <3>1, Zenon
  <2>8. f[i] \in Text
    <3>1. Folded(s, i) \o f[w] \in Text
      BY <2>4, <2>7, ByteSeqs
    <3> QED
      BY <2>5, <3>1, Zenon
  <2> QED
    BY <2>1, <2>8, Zenon DEF i
<1>5. T = {}
  <2>1. T \subseteq Nat
    BY <1>1
  <2> HIDE DEF T
  <2> QED
    BY <1>4, <2>1, LeastNatural
<1>6. l - 1 \in 0..(l - 1) /\ l - (l - 1) = 1
  BY <1>1
<1> QED
  BY <1>5, <1>6

(* A name in lower case, composed or not, is a text. *)
LEMMA LowerNameText ==
  ASSUME NEW s \in Text
  PROVE  LowerName(s) \in Text
<1> DEFINE Left(f, i) ==
               IF i = Len(s) + 1 THEN <<>>
               ELSE IF RuneLength(s, i) = 0 THEN EncodeRune(RuneError) \o f[i + 1]
               ELSE EncodeRune(LowerRune(RuneAt(s, i, RuneLength(s, i))))
                    \o f[i + RuneLength(s, i)]
           Right(f, i) == IF i = Len(s) + 1 THEN <<>> ELSE Folded(s, i) \o f[i + Width(s, i)]
           Body(f) == f = [i \in 1..(Len(s) + 1) |-> Left(f, i)]
           from == CHOOSE f : Body(f)
<1>1. LowerName(s) = from[1]
  BY Zenon DEF LowerName
<1>2. ASSUME NEW f, NEW i
      PROVE  Left(f, i) = Right(f, i)
  BY Zenon DEF Folded, Width
<1>3. \A f : Folding(s, f) <=> f = [i \in 1..(Len(s) + 1) |-> Right(f, i)]
  BY Zenon DEF Folding
<1> HIDE DEF Left, Right
<1>4. ASSUME NEW f
      PROVE  [i \in 1..(Len(s) + 1) |-> Left(f, i)] = [i \in 1..(Len(s) + 1) |-> Right(f, i)]
  BY <1>2, Zenon
<1>5. ASSUME NEW f
      PROVE  Folding(s, f) <=> Body(f)
  <2>1. Folding(s, f) <=> f = [i \in 1..(Len(s) + 1) |-> Right(f, i)]
    BY <1>3, Zenon
  <2>2. [i \in 1..(Len(s) + 1) |-> Left(f, i)] = [i \in 1..(Len(s) + 1) |-> Right(f, i)]
    BY <1>4, Zenon
  <2> QED
    BY ONLY <2>1, <2>2, SMT
<1> HIDE DEF Body
<1>6. Folding(s, from)
  <2>1. \E f : Body(f)
    BY <1>5, FoldingExists, Zenon
  <2> QED
    BY <1>5, <2>1, Zenon
<1> HIDE DEF from
<1> QED
  BY <1>1, <1>6, FoldingText, Zenon

LEMMA NormalizeStringText ==
  ASSUME NEW s \in Text
  PROVE  NormalizeString(s) \in Text
BY UnicodeAssumption, Zenon DEF NormalizeString

LEMMA NormalizeText ==
  ASSUME NEW s \in Text
  PROVE  NormalizeName(s) \in Text
BY LowerNameText, NormalizeStringText, Zenon DEF NormalizeName

-----------------------------------------------------------------------------
(* The invariant of the scanner: its types, and where a token that is being *)
(* made may lie.                                                           *)

Opened == {"number", "dollar", "body", "hex", "bits", "string", "finish"}

TokenType == [id : Ids, pos : 0..Len(in), str : Text, end : 0..Len(in)]

(* No token so far ends after q. *)
EndBy(q) == \A i \in 1..Len(tokens) : tokens[i].end <= q

(* What Scan's functions keep of their own. *)
Locals ==
    /\ start \in 0..Len(in)
    /\ lit \in [quote : {Quote, DoubleQuote}, escapes : BOOLEAN]
    /\ half \in {Eof} \cup 0..15
    /\ depth \in 0..Len(in)
    /\ number \in [hex : BOOLEAN, decimal : BOOLEAN, exponent : BOOLEAN]
    /\ tag \in [text : Text \cup {NoTag}, matched : Int]
    /\ tag.matched \in {Eof} \cup 0..Len(tag.text)

(* What is read of a string in dollars: the tag, and how much of it again. *)
TagFits ==
    /\ start = lval.pos + 1 /\ start <= pos
    /\ tag.text # NoTag => start + Len(tag.text) + 1 <= pos
    /\ tag.matched # Eof =>
          tag.text # NoTag /\ start + Len(tag.text) + tag.matched + 2 <= pos

Placed ==
    /\ at \in {"out", "blanks", "token"} => EndBy(pos)
    /\ at = "comment" => EndBy(start) /\ start + 2 <= pos /\ 1 <= depth /\ depth <= pos
    /\ at \in Opened => EndBy(lval.pos) /\ lval.pos < pos
    /\ at = "number" => start = lval.pos
    /\ at = "dollar" => TagFits

Buffers == BuffersInv /\ mem \in Seq(Text)

ScanInv == TypeOK /\ Locals /\ Buffers /\ TokensAdvance /\ Placed

-----------------------------------------------------------------------------
(* Buffers that hold bytes.                                                *)

LEMMA WrittenText ==
  ASSUME NEW a \in Text, NEW c \in Text, NEW p \in Nat, p + Len(c) <= Len(a)
  PROVE  Written(a, p, c) \in Text
<1> DEFINE w == Written(a, p, c)
<1>1. /\ Len(a) \in Nat /\ Len(c) \in Nat
      /\ \A i \in 1..Len(a) : a[i] \in Byte
      /\ \A i \in 1..Len(c) : c[i] \in Byte
  BY DEF Text
<1>2. ASSUME NEW i \in 1..Len(a) PROVE w[i] \in Byte
  <2>1. w[i] = IF i \in (p + 1)..(p + Len(c)) THEN c[i - p] ELSE a[i]
    BY DEF Written
  <2>2. i \in (p + 1)..(p + Len(c)) => i - p \in 1..Len(c)
    BY <1>1
  <2> QED
    BY <1>1, <2>1, <2>2, Zenon
<1>3. w \in [1..Len(a) -> Byte]
  <2>1. w = [i \in 1..Len(a) |-> w[i]]
    BY DEF Written
  <2> QED
    BY <1>2, <2>1
<1> HIDE DEF w
<1>4. w \in Seq(Byte)
  BY <1>1, <1>3
<1> QED
  BY <1>4 DEF w, Text

LEMMA ReadText ==
  ASSUME Buffers
  PROVE  Read(buf) \in Text
<1>1. Lies(mem, buf) /\ mem \in Seq(Text)
  BY DEF Buffers, BuffersInv
<1>2. CASE buf.array = 0
  BY <1>2, ByteSeqs DEF Read
<1>3. CASE buf.array # 0
  <2>1. /\ buf.array \in 1..Len(mem) /\ buf.from \in Nat /\ buf.len \in Nat /\ buf.to \in Nat
        /\ buf.from + buf.len <= Len(mem[buf.array])
    BY <1>1, <1>3 DEF Lies, SliceType
  <2>2. mem[buf.array] \in Text
    BY <1>1, <2>1
  <2>3. Read(buf) = Part(mem[buf.array], buf.from, buf.from + buf.len)
    BY <1>3 DEF Read, Bytes, Part
  <2>4. buf.from + buf.len \in 0..Len(mem[buf.array])
    BY <2>1, <2>2 DEF Text
  <2> QED
    BY <2>1, <2>2, <2>3, <2>4, PartFacts
<1> QED
  BY <1>2, <1>3

LEMMA BuffersRest ==
  ASSUME Buffers, UNCHANGED bufferVars
  PROVE  Buffers'
<1>1. BuffersInv'
  BY BuffersStep DEF Buffers
<1> QED
  BY <1>1 DEF Buffers, bufferVars

LEMMA BuffersTake ==
  ASSUME Buffers, TakeBuffer
  PROVE  Buffers'
<1>1. BuffersInv'
  BY TakeBufferInv DEF Buffers
<1> QED
  BY <1>1 DEF Buffers, TakeBuffer

LEMMA BuffersDrop ==
  ASSUME Buffers, DropBuffer
  PROVE  Buffers'
<1>1. BuffersInv'
  BY DropBufferInv DEF Buffers
<1> QED
  BY <1>1 DEF Buffers, DropBuffer

LEMMA BuffersFinish ==
  ASSUME Buffers, FinishString
  PROVE  Buffers'
<1>1. BuffersInv'
  BY FinishStringInv DEF Buffers
<1> QED
  BY <1>1 DEF Buffers, FinishString

(* A write into one array of bytes leaves arrays of bytes. *)
LEMMA WriteTexts ==
  ASSUME NEW m \in Seq(Text), NEW k \in 1..Len(m), NEW p \in Nat, NEW c \in Text,
         p + Len(c) <= Len(m[k])
  PROVE  [m EXCEPT ![k] = Written(@, p, c)] \in Seq(Text)
<1>1. Written(m[k], p, c) \in Text
  BY WrittenText
<1> QED
  BY <1>1

LEMMA BuffersAppend ==
  ASSUME Buffers, NEW c \in Text, AppendBytes(c)
  PROVE  Buffers'
<1>1. BuffersInv'
  BY TextIsInts, AppendBytesInv DEF Buffers
<1>2. /\ Lies(mem, buf) /\ mem \in Seq(Text) /\ Len(mem) \in Nat /\ Len(c) \in Nat
      /\ Read(buf) \in Text
  BY ReadText DEF Buffers, BuffersInv, Text
<1>3. mem' \in Seq(Text)
  <2>1. CASE buf.from + buf.len + Len(c) <= buf.to
    <3>1. mem' = IF buf.array = 0 THEN mem
                 ELSE [mem EXCEPT ![buf.array] = Written(@, buf.from + buf.len, c)]
      BY <2>1 DEF AppendBytes
    <3>2. CASE buf.array # 0
      <4>1. /\ buf.array \in 1..Len(mem) /\ buf.from + buf.len \in Nat
            /\ buf.from + buf.len + Len(c) <= Len(mem[buf.array])
        <5>1. /\ buf.array \in Nat /\ buf.from \in Nat /\ buf.len \in Nat /\ buf.to \in Nat
              /\ buf.array <= Len(mem) /\ buf.to <= Len(mem[buf.array])
          BY <1>2, <3>2 DEF Lies, SliceType
        <5>2. buf.array \in 1..Len(mem)
          BY <1>2, <3>2, <5>1
        <5>3. Len(mem[buf.array]) \in Nat
          BY <1>2, <5>2 DEF Text
        <5> QED
          BY <1>2, <2>1, <5>1, <5>2, <5>3
      <4> QED
        BY <1>2, <3>1, <3>2, <4>1, WriteTexts
    <3> QED
      BY <1>2, <3>1, <3>2
  <2>2. CASE ~(buf.from + buf.len + Len(c) <= buf.to)
    <3>1. PICK spare \in 0..Spare : mem' = Append(mem, Read(buf) \o c \o Zeros(spare))
      BY <2>2 DEF AppendBytes
    <3>2. Zeros(spare) \in Text
      <4>1. spare \in Nat /\ 0 \in Byte
        BY <3>1, SpareAssumption, ByteIs DEF Between
      <4> QED
        BY <4>1 DEF Zeros, Text
    <3>3. Read(buf) \o c \o Zeros(spare) \in Text
      BY <1>2, <3>2, ByteSeqs
    <3> QED
      BY <1>2, <3>1, <3>3
  <2> QED
    BY <2>1, <2>2
<1> QED
  BY <1>1, <1>3 DEF Buffers

LEMMA BuffersAlloc ==
  ASSUME Buffers, NEW c \in Text, AllocBytes(c)
  PROVE  Buffers'
<1>1. BuffersInv'
  BY TextIsInts, AllocBytesInv DEF Buffers
<1>2. /\ Lies(mem, free) /\ mem \in Seq(Text) /\ Len(mem) \in Nat /\ Len(c) \in Nat
  BY DEF Buffers, BuffersInv, Text
<1>3. mem' = IF free.len >= Len(c)
             THEN IF free.array = 0 THEN mem
                  ELSE [mem EXCEPT ![free.array] = Written(@, free.from, c)]
             ELSE Append(mem, c)
  BY DEF AllocBytes
<1>4. CASE free.len >= Len(c) /\ free.array # 0
  <2>1. /\ free.array \in Nat /\ free.from \in Nat /\ free.len \in Nat /\ free.to \in Nat
        /\ free.array <= Len(mem) /\ free.to <= Len(mem[free.array])
        /\ free.from + free.len <= free.to
    BY <1>2, <1>4 DEF Lies, SliceType
  <2>2. free.array \in 1..Len(mem)
    BY <1>2, <1>4, <2>1
  <2>3. Len(mem[free.array]) \in Nat
    BY <1>2, <2>2 DEF Text
  <2>4. free.from + Len(c) <= Len(mem[free.array])
    BY <1>2, <1>4, <2>1, <2>3
  <2>5. mem' = [mem EXCEPT ![free.array] = Written(@, free.from, c)]
    BY <1>3, <1>4, Zenon
  <2>6. [mem EXCEPT ![free.array] = Written(@, free.from, c)] \in Seq(Text)
    BY <1>2, <2>1, <2>2, <2>4, WriteTexts, Zenon
  <2> QED
    BY <1>1, <2>5, <2>6 DEF Buffers
<1>5. CASE ~(free.len >= Len(c)) \/ free.array = 0
  <2>1. mem' = mem \/ mem' = Append(mem, c)
    BY <1>3, <1>5, Zenon
  <2> QED
    BY <1>1, <1>2, <2>1 DEF Buffers
<1> QED
  BY <1>4, <1>5

-----------------------------------------------------------------------------
(* Classes of bytes.                                                       *)

LEMMA Classes ==
  /\ Blank \subseteq Byte /\ Digit \subseteq Byte /\ Octal \subseteq Byte
  /\ HexDigit \subseteq Byte /\ IdentStart \subseteq Byte /\ IdentMiddle \subseteq Byte
  /\ IdentStart \subseteq IdentMiddle /\ Octal \subseteq Digit /\ Digit \subseteq HexDigit
<1>1. \A b : b \in High <=> Between(b, 128, 255)
  BY SMT DEF High, Between
<1>2. /\ \A b \in Digit : Between(b, 48, 57)
      /\ \A b \in Octal : Between(b, 48, 55)
      /\ \A b \in Lower : Between(b, 97, 122)
      /\ \A b \in Upper : Between(b, 65, 90)
  BY SMT DEF Digit, Octal, Lower, Upper, Between
<1>3. \A b \in HexDigit : Between(b, 48, 57) \/ Between(b, 97, 102) \/ Between(b, 65, 70)
  BY SMT DEF HexDigit, Digit, Between
<1>4. \A b \in Blank : Between(b, 9, 32)
  BY SMT DEF Blank, Between
<1>5. \A b \in IdentStart : b \in High \/ b \in Lower \/ b \in Upper \/ b = 95
  BY Zenon DEF IdentStart, Underscore
<1>6. \A b \in IdentMiddle : b \in IdentStart \/ b \in Digit \/ b = 36
  BY Zenon DEF IdentMiddle, Dollar
<1>7. /\ IdentStart \subseteq IdentMiddle /\ Digit \subseteq HexDigit
  BY Zenon DEF IdentMiddle, HexDigit
<1>8. Octal \subseteq Digit
  BY SMT DEF Octal, Digit
<1>9. \A b, low, high : Between(b, low, high) /\ 0 <= low /\ high <= 255
                        /\ low \in Int /\ high \in Int => b \in Byte
  BY ByteIs DEF Between
<1>10. Blank \subseteq Byte /\ Digit \subseteq Byte /\ Octal \subseteq Byte /\ HexDigit \subseteq Byte
  BY <1>2, <1>3, <1>4, <1>9
<1>11. IdentStart \subseteq Byte
  <2>1. \A b \in IdentStart : Between(b, 128, 255) \/ Between(b, 97, 122)
                              \/ Between(b, 65, 90) \/ Between(b, 95, 95)
    BY <1>1, <1>2, <1>5 DEF Between
  <2> QED
    BY <1>9, <2>1
<1>12. IdentMiddle \subseteq Byte
  <2>1. \A b \in IdentMiddle : b \in IdentStart \/ b \in Digit \/ Between(b, 36, 36)
    BY <1>6 DEF Between
  <2> QED
    BY <1>9, <1>10, <1>11, <2>1
<1> QED
  BY <1>7, <1>8, <1>10, <1>11, <1>12, Zenon

LEMMA NotEof ==
  /\ Eof \notin Byte
  /\ \A C \in SUBSET Byte : Eof \notin C
  /\ Eof \notin {Slash, Star, Minus, Dollar, Quote, DoubleQuote, Nul, Dot, Plus, Backslash, Newline}
BY ByteIs, SMT DEF Between, Eof, Slash, Star, Minus, Dollar, Quote, DoubleQuote, Nul, Dot, Plus,
                   Backslash, Newline

(* A byte that is not the end of the text lies in it. *)
LEMMA PeekIn ==
  ASSUME in \in Text
  PROVE  /\ \A p \in Nat : PeekAt(p) # Eof => p < Len(in) /\ p + 1 \in 0..Len(in)
         /\ \A p \in Nat : PeekAt(p) # Eof => PeekAt(p) \in Byte
         /\ \A p \in Nat : PeekAt(p) = Eof => p >= Len(in)
         /\ \A p \in Nat, C \in SUBSET Byte : PeekAt(p) \in C => p < Len(in) /\ p + 1 \in 0..Len(in)
<1>1. Len(in) \in Nat
  BY DEF Text
<1>2. \A p \in Nat : /\ PeekAt(p) # Eof <=> p < Len(in)
                     /\ PeekAt(p) # Eof => PeekAt(p) \in Byte
  BY ByteFacts, PeekIs, Zenon
<1>3. \A p \in Nat, C \in SUBSET Byte : PeekAt(p) \in C => PeekAt(p) # Eof
  BY NotEof, Zenon
<1>4. \A p \in Nat : p < Len(in) => p + 1 \in 0..Len(in)
  BY <1>1
<1>5. \A p \in Nat : ~(p < Len(in)) => p >= Len(in)
  BY <1>1
<1> QED
  BY <1>2, <1>3, <1>4, <1>5, Zenon

-----------------------------------------------------------------------------
(* Steps that return a token, and steps that do not.                       *)

LEMMA EmitInv ==
  ASSUME ScanInv, in' = in, NEW id \in Ids, NEW p \in 0..Len(in), NEW q \in p..Len(in),
         NEW str \in Text, EndBy(p), id # "END" => p < q, Emit(id, p, str, q),
         Locals', Buffers'
  PROVE  ScanInv'
<1> DEFINE t == [id |-> id, pos |-> p, str |-> str, end |-> q]
           n == Len(tokens)
<1>1. /\ in \in Text /\ Len(in) \in Nat /\ tokens \in Seq(TokenType) /\ TokensAdvance
  BY DEF ScanInv, TypeOK, TokenType, Text
<1>2. /\ lval' = [id |-> id, pos |-> p, str |-> str] /\ pos' = q /\ at' = "out"
      /\ tokens' = Append(tokens, t)
  BY DEF Emit
<1>3. /\ p \in Nat /\ q \in Nat /\ p <= q /\ q <= Len(in) /\ q \in 0..Len(in)
  BY <1>1
<1>4. t \in TokenType /\ lval' \in [id : Ids, pos : 0..Len(in), str : Text]
  BY <1>2, <1>3 DEF TokenType
<1>5. /\ tokens' \in Seq(TokenType) /\ n \in Nat /\ Len(tokens') = n + 1
      /\ tokens'[n + 1] = t /\ \A i \in 1..n : tokens'[i] = tokens[i]
  <2> HIDE DEF t
  <2> QED
    BY <1>1, <1>2, <1>4
<1>6. TokensAdvance'
  <2>1. ASSUME NEW i \in 1..(n + 1)
        PROVE  /\ tokens'[i].pos <= tokens'[i].end /\ tokens'[i].end <= q
               /\ tokens'[i].id # "END" => tokens'[i].pos < tokens'[i].end
               /\ i > 1 => tokens'[i - 1].end <= tokens'[i].pos
    <3>1. CASE i = n + 1
      <4>1. tokens'[i].pos = p /\ tokens'[i].end = q /\ tokens'[i].id = id
        BY <1>5, <3>1
      <4>2. ASSUME i > 1 PROVE tokens'[i - 1] = tokens[n] /\ n \in 1..n
        BY <1>5, <3>1, <4>2
      <4>3. i > 1 => tokens'[i - 1].end <= p
        BY <4>2, EndBy(p) DEF EndBy
      <4> QED
        BY <1>3, <4>1, <4>3
    <3>2. CASE i # n + 1
      <4>1. i \in 1..n /\ tokens'[i] = tokens[i] /\ (i > 1 => tokens'[i - 1] = tokens[i - 1])
        BY <1>5, <3>2
      <4>2. tokens[i].end <= p /\ tokens[i] \in TokenType
        BY <1>1, <4>1, EndBy(p) DEF EndBy
      <4>3. tokens[i].end <= q
        BY <1>3, <4>2 DEF TokenType
      <4>4. /\ tokens[i].pos <= tokens[i].end
            /\ tokens[i].id # "END" => tokens[i].pos < tokens[i].end
            /\ i > 1 => tokens[i - 1].end <= tokens[i].pos
        BY <1>1, <4>1 DEF TokensAdvance
      <4> QED
        BY <4>1, <4>3, <4>4
    <3> QED
      BY <3>1, <3>2
  <2> QED
    BY <1>2, <1>5, <2>1 DEF TokensAdvance
<1>7. EndBy(pos)'
  BY <1>6 DEF EndBy, TokensAdvance
<1>8. TypeOK'
  <2>1. at' \in Places
    BY <1>2 DEF Places
  <2> QED
    BY <1>1, <1>2, <1>3, <1>4, <1>5, <2>1 DEF TypeOK, Locals, Buffers, TokenType
<1>9. Placed'
  BY <1>2, <1>7 DEF Placed, Opened
<1> QED
  BY <1>6, <1>8, <1>9 DEF ScanInv

LEMMA MoveInv ==
  ASSUME ScanInv, in' = in, tokens' = tokens, pos' \in 0..Len(in), at' \in Places,
         lval' \in [id : Ids, pos : 0..Len(in), str : Text],
         EndBy(pos)', Placed', Locals', Buffers'
  PROVE  ScanInv'
<1>1. in \in Text /\ tokens \in Seq(TokenType)
  BY DEF ScanInv, TypeOK, TokenType
<1>2. TypeOK'
  BY <1>1 DEF TypeOK, Locals, Buffers, TokenType
<1>3. TokensAdvance'
  BY DEF ScanInv, TokensAdvance, EndBy
<1> QED
  BY <1>2, <1>3 DEF ScanInv

LEMMA LocalsRest ==
  ASSUME Locals, UNCHANGED <<in, localVars>>
  PROVE  Locals'
BY DEF Locals, localVars

(* A position no smaller is as good a bound. *)
LEMMA EndByMore ==
  ASSUME tokens \in Seq(TokenType), in \in Text, NEW p \in Nat, NEW q \in Nat, p <= q, EndBy(p)
  PROVE  EndBy(q)
<1> SUFFICES ASSUME NEW i \in 1..Len(tokens) PROVE tokens[i].end <= q
  BY DEF EndBy
<1>1. tokens[i].end <= p /\ tokens[i] \in TokenType
  BY DEF EndBy
<1>2. tokens[i].end \in Int
  BY <1>1 DEF TokenType, Text
<1> QED
  BY <1>1, <1>2

LEMMA Facts ==
  ASSUME ScanInv
  PROVE  /\ in \in Text /\ Len(in) \in Nat
         /\ pos \in 0..Len(in) /\ pos \in Nat /\ start \in 0..Len(in) /\ start \in Nat
         /\ lval \in [id : Ids, pos : 0..Len(in), str : Text]
         /\ lval.pos \in 0..Len(in) /\ lval.pos \in Nat
         /\ tokens \in Seq(TokenType)
         /\ Locals /\ Buffers /\ Placed
BY DEF ScanInv, TypeOK, TokenType, Text

(* The next byte is in the text, with the position after it. *)
LEMMA PeekStep ==
  ASSUME ScanInv
  PROVE  /\ Peek = PeekAt(pos)
         /\ Peek # Eof => Peek \in Byte /\ pos + 1 \in 0..Len(in)
         /\ PeekAt(pos + 1) # Eof => pos + 2 \in 0..Len(in)
<1>1. /\ in \in Text /\ Len(in) \in Nat /\ pos \in Nat /\ pos + 1 \in Nat
  BY Facts
<1>2. /\ PeekAt(pos) # Eof => PeekAt(pos) \in Byte /\ pos + 1 \in 0..Len(in)
      /\ PeekAt(pos + 1) # Eof => (pos + 1) + 1 \in 0..Len(in)
  BY <1>1, PeekIn, Zenon
<1>3. (pos + 1) + 1 = pos + 2
  BY <1>1
<1> QED
  BY <1>2, <1>3 DEF Peek

-----------------------------------------------------------------------------
(* One step after the other: blanks and comments.                          *)

LEMMA ScanKeeps ==
  ASSUME ScanInv, Scan
  PROVE  ScanInv'
<1>1. /\ in' = in /\ tokens' = tokens /\ pos' = pos /\ at' = "blanks" /\ at = "out"
      /\ lval' = [id |-> "END", pos |-> pos, str |-> <<>>]
      /\ UNCHANGED localVars /\ UNCHANGED bufferVars
  BY DEF Scan, localVars, bufferVars
<1>2. /\ pos \in 0..Len(in) /\ Locals /\ Buffers /\ EndBy(pos)
  BY Facts, <1>1 DEF Placed
<1>3. Locals' /\ Buffers'
  BY <1>1, <1>2, LocalsRest, BuffersRest
<1>4. EndBy(pos)'
  BY <1>1, <1>2 DEF EndBy
<1>5. Placed'
  BY <1>1, <1>4 DEF Placed, Opened
<1>6. lval' \in [id : Ids, pos : 0..Len(in), str : Text] /\ at' \in Places
  BY <1>1, <1>2, ByteSeqs DEF Ids, Places
<1> QED
  BY <1>1, <1>2, <1>3, <1>4, <1>5, <1>6, MoveInv

LEMMA LineEndIn ==
  ASSUME in \in Text, NEW p \in 0..Len(in)
  PROVE  LineEnd(p) \in p..Len(in)
<1> DEFINE q == SpanEnd(p, Byte \ {Newline})
<1>1. q \in p..Len(in) /\ Len(in) \in Nat
  BY SpanSpec DEF Text
<1> HIDE DEF q
<1>2. LineEnd(p) = IF q < Len(in) THEN q + 1 ELSE q
  BY DEF LineEnd, q
<1> QED
  BY <1>1, <1>2

LEMMA SkipWhitespaceKeeps ==
  ASSUME ScanInv, SkipWhitespace
  PROVE  ScanInv'
<1> DEFINE p == SpanEnd(pos, Blank)
<1>1. /\ in \in Text /\ Len(in) \in Nat /\ pos \in 0..Len(in) /\ tokens \in Seq(TokenType)
      /\ Locals /\ Buffers /\ EndBy(pos)
  BY Facts DEF SkipWhitespace, Placed
<1>2. /\ in' = in /\ tokens' = tokens /\ lval' = lval
      /\ UNCHANGED <<lit, half, number, tag>> /\ UNCHANGED bufferVars
  BY DEF SkipWhitespace, bufferVars
<1>3. p \in pos..Len(in)
  BY <1>1, SpanSpec
<1>4. /\ p \in Nat /\ p + 1 \in Nat /\ p \in 0..Len(in)
      /\ \A q \in p..Len(in) : EndBy(q)
  BY <1>1, <1>3, EndByMore
<1>5. PeekAt(p + 1) # Eof => p + 2 \in 0..Len(in)
  <2>1. PeekAt(p + 1) # Eof => (p + 1) + 1 \in 0..Len(in)
    BY <1>1, <1>4, PeekIn, Zenon
  <2> QED
    BY <1>4, <2>1
<1>6. \/ /\ PeekAt(p) = Slash /\ PeekAt(p + 1) = Star
         /\ start' = p /\ pos' = p + 2 /\ depth' = 1 /\ at' = "comment"
      \/ /\ PeekAt(p) = Minus /\ PeekAt(p + 1) = Minus
         /\ pos' = LineEnd(p + 2) /\ UNCHANGED <<start, depth, at>>
      \/ pos' = p /\ at' = "token" /\ UNCHANGED <<start, depth>>
  BY DEF SkipWhitespace
<1> HIDE DEF p
<1>7. Buffers'
  BY <1>1, <1>2, BuffersRest
<1>8. lval' \in [id : Ids, pos : 0..Len(in), str : Text]
  BY <1>2, Facts
<1>9. CASE /\ PeekAt(p) = Slash /\ PeekAt(p + 1) = Star
           /\ start' = p /\ pos' = p + 2 /\ depth' = 1 /\ at' = "comment"
  <2>1. p + 2 \in 0..Len(in)
    BY <1>5, <1>9, NotEof
  <2>2. EndBy(p) /\ EndBy(p + 2)
    BY <1>1, <1>4, <2>1
  <2>3. EndBy(pos)' /\ EndBy(start)'
    BY <1>2, <1>9, <2>2 DEF EndBy
  <2>4. Locals'
    BY <1>1, <1>2, <1>4, <1>9, <2>1 DEF Locals
  <2>5. Placed'
    BY <1>4, <1>9, <2>3 DEF Placed, Opened
  <2>6. at' \in Places
    BY <1>9 DEF Places
  <2> QED
    BY <1>2, <1>7, <1>8, <1>9, <2>1, <2>3, <2>4, <2>5, <2>6, MoveInv
<1>10. CASE /\ PeekAt(p) = Minus /\ PeekAt(p + 1) = Minus
            /\ pos' = LineEnd(p + 2) /\ UNCHANGED <<start, depth, at>>
  <2>1. p + 2 \in 0..Len(in)
    BY <1>5, <1>10, NotEof
  <2>2. pos' \in p..Len(in) /\ pos' \in 0..Len(in)
    <3>1. pos' \in (p + 2)..Len(in)
      BY <1>1, <1>10, <2>1, LineEndIn, Zenon
    <3> QED
      BY <1>1, <1>4, <3>1
  <2>3. EndBy(pos)'
    BY <1>2, <1>4, <2>2 DEF EndBy
  <2>4. Locals'
    BY <1>1, <1>2, <1>10 DEF Locals
  <2>5. at' = "blanks"
    BY <1>10 DEF SkipWhitespace
  <2>6. Placed' /\ at' \in Places
    BY <2>3, <2>5 DEF Placed, Opened, Places
  <2> QED
    BY <1>2, <1>7, <1>8, <2>2, <2>3, <2>4, <2>6, MoveInv
<1>11. CASE pos' = p /\ at' = "token" /\ UNCHANGED <<start, depth>>
  <2>1. EndBy(pos)'
    BY <1>1, <1>2, <1>3, <1>4, <1>11 DEF EndBy
  <2>2. Locals'
    BY <1>1, <1>2, <1>11 DEF Locals
  <2>3. Placed' /\ at' \in Places
    BY <1>11, <2>1 DEF Placed, Opened, Places
  <2> QED
    BY <1>2, <1>4, <1>7, <1>8, <1>11, <2>1, <2>2, <2>3, MoveInv
<1> QED
  BY <1>6, <1>9, <1>10, <1>11

LEMMA CommentKeeps ==
  ASSUME ScanInv, Comment
  PROVE  ScanInv'
<1>1. /\ in \in Text /\ Len(in) \in Nat /\ pos \in 0..Len(in) /\ tokens \in Seq(TokenType)
      /\ start \in 0..Len(in) /\ Locals /\ Buffers
      /\ EndBy(start) /\ start + 2 <= pos /\ 1 <= depth /\ depth <= pos /\ depth \in Nat
  BY Facts DEF Comment, Placed, Locals
<1>2. /\ in' = in /\ start' = start
      /\ UNCHANGED <<lit, half, number, tag>> /\ UNCHANGED bufferVars
  BY DEF Comment, bufferVars
<1>3. Buffers'
  BY <1>1, <1>2, BuffersRest
<1>4. CASE Peek = Eof /\ Emit("ERROR", start, <<>>, pos) /\ UNCHANGED depth
  <2>1. Locals'
    BY <1>1, <1>2, <1>4 DEF Locals
  <2>2. pos \in start..Len(in) /\ start < pos /\ "ERROR" \in Ids
    BY <1>1 DEF Ids
  <2> QED
    BY <1>1, <1>2, <1>3, <1>4, <2>1, <2>2, ByteSeqs, EmitInv
<1>5. CASE /\ tokens' = tokens /\ lval' = lval
           /\ \/ PeekAt(pos + 1) # Eof /\ pos' = pos + 2 /\ depth' = depth - 1
                 /\ at' = IF depth = 1 THEN "blanks" ELSE "comment"
              \/ PeekAt(pos + 1) # Eof /\ pos' = pos + 2 /\ depth' = depth + 1 /\ at' = at
              \/ Peek # Eof /\ pos' = pos + 1 /\ depth' = depth /\ at' = at
  <2>1. pos' \in 0..Len(in) /\ pos' \in Nat /\ start <= pos' /\ start + 2 <= pos'
    <3>1. pos' \in 0..Len(in) /\ pos' \in {pos + 1, pos + 2}
      BY <1>5, PeekStep
    <3> QED
      BY <1>1, <3>1
  <2>2. depth' \in 0..Len(in) /\ depth' <= pos' /\ (at' = "blanks" \/ (at' = "comment" /\ 1 <= depth'))
    <3>1. at = "comment"
      BY DEF Comment
    <3>2. depth' <= pos' /\ depth' \in Nat
      BY <1>1, <1>5
    <3>3. at' = "blanks" \/ (at' = "comment" /\ 1 <= depth')
      BY <1>1, <1>5, <3>1
    <3> QED
      BY <1>1, <2>1, <3>2, <3>3
  <2>3. EndBy(pos')
    BY <1>1, <2>1, EndByMore
  <2>4. EndBy(pos)' /\ EndBy(start)'
    BY <1>1, <1>2, <1>5, <2>3 DEF EndBy
  <2>5. Locals'
    BY <1>1, <1>2, <2>2 DEF Locals
  <2>6. Placed' /\ at' \in Places
    BY <1>2, <2>1, <2>2, <2>4 DEF Placed, Opened, Places
  <2>7. lval' \in [id : Ids, pos : 0..Len(in), str : Text]
    BY <1>5, Facts
  <2> QED
    BY <1>2, <1>3, <1>5, <2>1, <2>4, <2>5, <2>6, <2>7, MoveInv
<1> QED
  BY <1>4, <1>5, NotEof DEF Comment

-----------------------------------------------------------------------------
(* Tokens that one step makes.                                             *)

(* What holds of a step from "token" that returns a token and builds no    *)
(* string.                                                                 *)
LEMMA TokenStep ==
  ASSUME ScanInv, at = "token"
  PROVE  /\ EndBy(pos) /\ pos \in 0..Len(in)
         /\ UNCHANGED <<in, start, lit, half, depth, number, tag, mem, free, buf, handed>>
            => Locals' /\ Buffers'
         /\ UNCHANGED <<in, start, lit, half, depth, number, tag>> => Locals'
<1>1. EndBy(pos) /\ pos \in 0..Len(in) /\ Locals /\ Buffers
  BY Facts DEF Placed
<1>2. UNCHANGED <<in, start, lit, half, depth, number, tag>> => Locals'
  BY <1>1, LocalsRest DEF localVars
<1>3. UNCHANGED <<mem, free, buf, handed>> => Buffers'
  BY <1>1, BuffersRest DEF bufferVars
<1> QED
  BY <1>1, <1>2, <1>3

LEMMA EndKeeps ==
  ASSUME ScanInv, End
  PROVE  ScanInv'
<1>1. at = "token" /\ UNCHANGED <<in, start, lit, half, depth, number, tag, mem, free, buf, handed>>
  BY DEF End
<1>2. EndBy(pos) /\ pos \in 0..Len(in) /\ Locals' /\ Buffers' /\ in' = in
  BY <1>1, TokenStep
<1>3. "END" \in Ids /\ Len(in) \in Nat
  BY Facts DEF Ids
<1>4. CASE Emit("END", pos, <<>>, pos)
  <2>1. pos \in pos..Len(in)
    BY <1>2, <1>3
  <2> QED
    BY <1>2, <1>3, <1>4, <2>1, ByteSeqs, EmitInv
<1>5. CASE Peek = Nul /\ Emit("END", pos, <<Nul>>, pos + 1)
  <2>1. pos + 1 \in 0..Len(in)
    BY <1>5, NotEof, PeekStep
  <2>2. pos + 1 \in pos..Len(in)
    BY <1>2, <2>1
  <2>3. <<Nul>> \in Text
    BY ByteSeqs, ByteIs DEF Between, Nul
  <2> QED
    BY <1>2, <1>3, <1>5, <2>2, <2>3, EmitInv
<1> QED
  BY <1>4, <1>5 DEF End

LEMMA OperatorLengths == \A op \in Operators : op \in Text /\ Len(op) \in {2, 3}
<1>1. \A b \in {33, 35, 38, 42, 45, 46, 47, 58, 60, 61, 62, 63, 64, 124, 126} : b \in Byte
  BY ByteIs, SMT DEF Between
<1>2. \A a, b, c \in Byte : /\ <<a, b>> \in Text /\ Len(<<a, b>>) = 2
                            /\ <<a, b, c>> \in Text /\ Len(<<a, b, c>>) = 3
  BY ByteSeqs
<1>3. \A op \in Operators : \/ \E a, b \in Byte : op = <<a, b>>
                            \/ \E a, b, c \in Byte : op = <<a, b, c>>
  BY <1>1, SMTT(30) DEF Operators
<1> SUFFICES ASSUME NEW op \in Operators PROVE op \in Text /\ Len(op) \in {2, 3}
  OBVIOUS
<1>4. CASE \E a, b \in Byte : op = <<a, b>>
  BY <1>2, <1>4
<1>5. CASE \E a, b, c \in Byte : op = <<a, b, c>>
  BY <1>2, <1>5
<1> QED
  BY <1>3, <1>4, <1>5, Zenon

LEMMA OperatorIn ==
  ASSUME in \in Text, NEW p \in 0..Len(in)
  PROVE  /\ OperatorLength(p) \in Nat /\ p + OperatorLength(p) \in p..Len(in)
<1> DEFINE fits == {op \in Operators : Has(p, op)}
           lengths == {Len(op) : op \in fits}
           n == CHOOSE n \in lengths : \A op \in fits : Len(op) <= n
<1>1. Len(in) \in Nat /\ p \in Nat
  BY DEF Text
<1>2. \A op \in fits : Len(op) \in {2, 3} /\ p + Len(op) <= Len(in)
  BY OperatorLengths DEF Has
<1>3. OperatorLength(p) = IF fits = {} THEN 0 ELSE n
  BY DEF OperatorLength
<1> HIDE DEF fits
<1>4. ASSUME fits # {} PROVE n \in lengths
  <2>1. PICK op \in fits : TRUE
    BY <1>4
  <2>2. \E m \in lengths : \A o \in fits : Len(o) <= m
    <3>1. CASE \E o \in fits : Len(o) = 3
      <4>1. PICK long \in fits : Len(long) = 3
        BY <3>1
      <4>2. 3 \in lengths
        BY <4>1, Zenon
      <4>3. \A o \in fits : Len(o) <= 3
        <5>1. \A k \in {2, 3} : k <= 3
          OBVIOUS
        <5> QED
          BY <1>2, <5>1, Zenon
      <4> QED
        BY <4>2, <4>3, Zenon
    <3>2. CASE \A o \in fits : Len(o) # 3
      <4>1. \A o \in fits : Len(o) = 2
        BY <1>2, <3>2
      <4> QED
        BY <2>1, <4>1
    <3> QED
      BY <3>1, <3>2
  <2> QED
    BY <2>2, Zenon
<1>5. ASSUME fits # {} PROVE n \in Nat /\ p + n <= Len(in)
  <2>1. PICK op \in fits : n = Len(op)
    BY <1>4, <1>5
  <2> QED
    BY <1>2, <2>1, SMTT(20)
<1> HIDE DEF n
<1> QED
  BY <1>1, <1>3, <1>5

(* A part of the text is one. *)
LEMMA SliceText ==
  ASSUME in \in Text, NEW p \in Nat, NEW q \in 0..Len(in)
  PROVE  Slice(p, q) \in Text /\ (p <= q => Len(Slice(p, q)) = q - p)
BY PartFacts, PeekIs

LEMMA SymbolKeeps ==
  ASSUME ScanInv, Symbol
  PROVE  ScanInv'
<1> DEFINE n == OperatorLength(pos)
           q == IF n = 0 THEN pos + 1 ELSE pos + n
           id == IF n = 0 THEN "CHAR" ELSE "OP"
<1>1. at = "token" /\ UNCHANGED <<in, start, lit, half, depth, number, tag, mem, free, buf, handed>>
  BY DEF Symbol
<1>2. /\ EndBy(pos) /\ pos \in 0..Len(in) /\ pos \in Nat /\ Locals' /\ Buffers' /\ in' = in
      /\ in \in Text /\ Len(in) \in Nat
  BY <1>1, TokenStep, Facts
<1>3. Peek # Eof /\ Emit(id, pos, Slice(pos, q), q)
  BY DEF Symbol
<1>4. pos + 1 \in 0..Len(in) /\ n \in Nat /\ pos + n \in pos..Len(in)
  BY <1>2, <1>3, PeekStep, OperatorIn
<1>5. id \in Ids /\ id # "END"
  BY DEF Ids
<1> HIDE DEF n, id
<1>6. q \in pos..Len(in) /\ q \in 0..Len(in) /\ pos < q
  BY <1>2, <1>4
<1> HIDE DEF q
<1>7. Slice(pos, q) \in Text
  BY <1>2, <1>6, SliceText
<1> QED
  BY <1>2, <1>3, <1>5, <1>6, <1>7, EmitInv

LEMMA LoweredText ==
  ASSUME NEW s \in Text
  PROVE  [i \in 1..Len(s) |-> ToLower(s[i])] \in Text
<1>1. Len(s) \in Nat /\ \A i \in 1..Len(s) : s[i] \in Byte
  BY DEF Text
<1>2. ASSUME NEW b \in Byte PROVE ToLower(b) \in Byte
  <2>1. b \in Upper => Between(b, 65, 90)
    BY SMT DEF Upper, Between
  <2>2. ToLower(b) = b \/ (ToLower(b) = b + 32 /\ Between(b, 65, 90))
    BY <2>1, Zenon DEF ToLower
  <2> QED
    BY <2>2, ByteIs DEF Between
<1>3. [i \in 1..Len(s) |-> ToLower(s[i])] \in [1..Len(s) -> Byte]
  BY <1>1, <1>2
<1> QED
  BY <1>1, <1>3 DEF Text

LEMMA IdentKeeps ==
  ASSUME ScanInv, Ident
  PROVE  ScanInv'
<1> DEFINE q == SpanEnd(pos, IdentMiddle)
           s == Slice(pos, q)
           lowered == [i \in 1..Len(s) |-> ToLower(s[i])]
           str == IF IsASCII(s) THEN lowered ELSE NormalizeName(s)
<1>1. /\ at = "token" /\ UNCHANGED <<in, start, lit, half, depth, number, tag>>
      /\ Peek \in IdentStart
      /\ IF Shortened(str) # {}
         THEN Emit("KEYWORD", pos, CHOOSE kw \in Shortened(str) : TRUE, q)
         ELSE Emit(IF IsKeyword(str) THEN "KEYWORD" ELSE "IDENT", pos, str, q)
      /\ IF IsASCII(s) /\ lowered # s THEN AllocBytes(lowered)
         ELSE UNCHANGED <<mem, free, buf, handed>>
  BY DEF Ident
<1>2. /\ EndBy(pos) /\ pos \in 0..Len(in) /\ pos \in Nat /\ Locals' /\ in' = in
      /\ in \in Text /\ Len(in) \in Nat /\ Buffers
  BY <1>1, TokenStep, Facts
<1>3. q \in pos..Len(in) /\ pos < q /\ q \in 0..Len(in)
  <2>1. /\ q \in pos..Len(in)
        /\ q < Len(in) => ByteOf(in, q) \notin IdentMiddle
    BY <1>2, SpanSpec
  <2>2. pos + 1 \in 0..Len(in)
    BY <1>1, Classes, NotEof, PeekStep
  <2>3. Peek \in IdentMiddle /\ Peek = ByteOf(in, pos)
    BY <1>1, Classes, PeekIs, Zenon
  <2>4. q # pos
    BY <1>2, <2>1, <2>2, <2>3
  <2> QED
    BY <1>2, <2>1, <2>4
<1> HIDE DEF q
<1>4. s \in Text
  BY <1>2, <1>3, SliceText
<1> HIDE DEF s
<1>5. lowered \in Text /\ NormalizeName(s) \in Text
  BY <1>4, LoweredText, NormalizeText
<1> HIDE DEF lowered
<1>6. str \in Text
  BY <1>5
<1> HIDE DEF str
<1>7. Buffers'
  BY <1>1, <1>2, <1>5, BuffersAlloc, BuffersRest DEF bufferVars
<1>8. \E id \in Ids, t \in Text : id # "END" /\ Emit(id, pos, t, q)
  <2>1. CASE Shortened(str) # {}
    <3>1. (CHOOSE kw \in Shortened(str) : TRUE) \in Shortened(str)
      BY <2>1
    <3>2. (CHOOSE kw \in Shortened(str) : TRUE) \in Text
      BY <3>1, ScannerAssumption, KeywordsAssumption DEF Shortened
    <3>3. "KEYWORD" \in Ids /\ "KEYWORD" # "END"
      BY DEF Ids
    <3> QED
      BY <1>1, <2>1, <3>2, <3>3, Zenon
  <2>2. CASE ~(Shortened(str) # {})
    <3> DEFINE id == IF IsKeyword(str) THEN "KEYWORD" ELSE "IDENT"
    <3>1. id \in Ids /\ id # "END"
      BY DEF Ids
    <3>2. Emit(id, pos, str, q)
      BY <1>1, <2>2, Zenon
    <3> QED
      BY <1>6, <3>1, <3>2, Zenon
  <2> QED
    BY <2>1, <2>2, Zenon
<1> QED
  BY <1>2, <1>3, <1>7, <1>8, EmitInv

LEMMA PlaceholderKeeps ==
  ASSUME ScanInv, Placeholder
  PROVE  ScanInv'
<1> DEFINE q == SpanEnd(pos + 1, Digit)
           s == Slice(pos + 1, q)
<1>1. /\ at = "token" /\ Peek = Dollar
      /\ UNCHANGED <<in, start, lit, half, depth, number, tag, mem, free, buf, handed>>
      /\ Emit("PLACEHOLDER", pos, s, q) \/ Emit("ERROR", pos, <<>>, q)
  BY DEF Placeholder
<1>2. /\ EndBy(pos) /\ pos \in 0..Len(in) /\ pos \in Nat /\ Locals' /\ Buffers' /\ in' = in
      /\ in \in Text /\ Len(in) \in Nat
  BY <1>1, TokenStep, Facts
<1>3. pos + 1 \in 0..Len(in)
  BY <1>1, NotEof, PeekStep
<1>4. q \in (pos + 1)..Len(in)
  BY <1>2, <1>3, SpanSpec
<1> HIDE DEF q
<1>5. q \in pos..Len(in) /\ q \in 0..Len(in) /\ pos < q
  BY <1>2, <1>4
<1>6. s \in Text
  BY <1>2, <1>5, SliceText
<1> HIDE DEF s
<1>7. {"PLACEHOLDER", "ERROR"} \subseteq Ids \ {"END"}
  BY DEF Ids
<1> QED
  BY <1>1, <1>2, <1>5, <1>6, <1>7, ByteSeqs, EmitInv

-----------------------------------------------------------------------------
(* A loop is entered.                                                      *)

LEMMA EnterInv ==
  ASSUME ScanInv, at = "token", NEW loop \in Opened, NEW n \in {1, 2}, Enter(loop, n),
         Peek # Eof, pos + n \in 0..Len(in), in' = in, tokens' = tokens, Locals', Buffers',
         loop = "number" => start' = pos, loop = "dollar" => TagFits'
  PROVE  ScanInv'
<1>1. /\ in \in Text /\ Len(in) \in Nat /\ pos \in 0..Len(in) /\ tokens \in Seq(TokenType)
      /\ EndBy(pos) /\ pos \in Nat
  BY Facts DEF Placed
<1>2. lval' = [id |-> "CHAR", pos |-> pos, str |-> <<Peek>>] /\ pos' = pos + n /\ at' = loop
  BY DEF Enter
<1>3. lval' \in [id : Ids, pos : 0..Len(in), str : Text] /\ lval'.pos = pos
  <2>1. Peek \in Byte
    BY PeekStep
  <2>2. <<Peek>> \in Text /\ "CHAR" \in Ids
    BY <2>1, ByteSeqs DEF Ids
  <2> QED
    BY <1>1, <1>2, <2>2
<1>4. EndBy(pos + n) /\ pos < pos + n
  BY <1>1, EndByMore
<1>5. EndBy(pos)' /\ EndBy(lval.pos)' /\ lval'.pos < pos'
  BY <1>1, <1>2, <1>3, <1>4 DEF EndBy
<1>6. at' \in Places
  BY <1>2 DEF Opened, Places
<1>7. at' \notin {"out", "blanks", "token", "comment"}
  BY <1>2 DEF Opened
<1>8. Placed'
  BY <1>2, <1>3, <1>5, <1>7 DEF Placed
<1> QED
  BY <1>2, <1>3, <1>5, <1>6, <1>8, MoveInv

LEMMA OpenNumberKeeps ==
  ASSUME ScanInv, OpenNumber
  PROVE  ScanInv'
<1>1. /\ at = "token" /\ NumberStarts /\ Enter("number", 1) /\ start' = pos
      /\ number' = [hex |-> FALSE, decimal |-> Peek = Dot, exponent |-> FALSE]
      /\ UNCHANGED <<in, lit, half, depth, tag, tokens>> /\ UNCHANGED bufferVars
  BY DEF OpenNumber, bufferVars
<1>2. Peek # Eof
  BY <1>1, Classes, NotEof DEF NumberStarts
<1>3. pos + 1 \in 0..Len(in)
  BY <1>2, PeekStep
<1>4. Locals'
  BY <1>1, Facts DEF Locals
<1>5. Buffers'
  BY <1>1, Facts, BuffersRest
<1>6. "number" \in Opened /\ "number" # "dollar" /\ 1 \in {1, 2}
  BY DEF Opened
<1> QED
  BY <1>1, <1>2, <1>3, <1>4, <1>5, <1>6, EnterInv

LEMMA OpenDollarKeeps ==
  ASSUME ScanInv, OpenDollar
  PROVE  ScanInv'
<1>1. /\ at = "token" /\ Peek = Dollar /\ Enter("dollar", 1) /\ start' = pos + 1
      /\ tag' = [text |-> NoTag, matched |-> Eof]
      /\ UNCHANGED <<in, lit, half, depth, number, tokens>> /\ TakeBuffer
  BY DEF OpenDollar
<1>2. Peek # Eof
  BY <1>1, NotEof
<1>3. pos + 1 \in 0..Len(in)
  BY <1>2, PeekStep
<1>4. Locals'
  <2>1. Eof \in Int
    BY DEF Eof
  <2> QED
    BY <1>1, <1>3, <2>1, Facts DEF Locals
<1>5. Buffers'
  BY <1>1, Facts, BuffersTake
<1>6. "dollar" \in Opened /\ "dollar" # "number" /\ 1 \in {1, 2}
  BY DEF Opened
<1>7. TagFits'
  BY <1>1, <1>3 DEF TagFits, Enter
<1> QED
  BY <1>1, <1>2, <1>3, <1>4, <1>5, <1>6, <1>7, EnterInv

LEMMA OpenLiteralKeeps ==
  ASSUME ScanInv, OpenLiteral
  PROVE  ScanInv'
<1> DEFINE loop == IF Peek = 66 THEN "bits" ELSE IF Peek \in {120, 88} THEN "hex" ELSE "string"
<1>1. PICK n \in 1..2 : Opens(n) /\ Enter(loop, n) /\ start' = pos + n
  BY DEF OpenLiteral
<1>2. /\ at = "token" /\ half' = Eof
      /\ lit' = [quote   |-> IF Peek = DoubleQuote THEN DoubleQuote ELSE Quote,
                 escapes |-> Peek \in {98, 101, 69}]
      /\ UNCHANGED <<in, depth, number, tag, tokens>> /\ TakeBuffer
  BY DEF OpenLiteral
<1>3. Peek # Eof /\ (n = 2 => PeekAt(pos + 1) # Eof)
  BY <1>1 DEF Opens, Eof, Quote, DoubleQuote
<1>4. pos + n \in 0..Len(in)
  BY <1>1, <1>3, PeekStep
<1>5. Locals'
  BY <1>1, <1>2, <1>4, Facts DEF Locals
<1>6. Buffers'
  BY <1>2, Facts, BuffersTake
<1>7. loop \in Opened /\ loop # "number" /\ loop # "dollar" /\ n \in {1, 2}
  BY DEF Opened
<1> HIDE DEF loop
<1> QED
  BY <1>1, <1>2, <1>3, <1>4, <1>5, <1>6, <1>7, EnterInv

-----------------------------------------------------------------------------
(* The loop of a number.                                                   *)

(* A step that stays in its loop, or goes to another one, further on.      *)
LEMMA TurnInv ==
  ASSUME ScanInv, at \in Opened, at' \in Opened, in' = in, tokens' = tokens, lval' = lval,
         pos' \in 0..Len(in), lval.pos < pos', Locals', Buffers',
         at' = "number" => start' = lval.pos, at' = "dollar" => TagFits'
  PROVE  ScanInv'
<1>1. /\ in \in Text /\ Len(in) \in Nat /\ tokens \in Seq(TokenType) /\ EndBy(lval.pos)
      /\ lval.pos \in Nat /\ lval \in [id : Ids, pos : 0..Len(in), str : Text]
  BY Facts DEF Placed
<1>2. EndBy(pos')
  BY <1>1, EndByMore
<1>3. EndBy(pos)' /\ EndBy(lval.pos)'
  BY <1>1, <1>2 DEF EndBy
<1>4. at' \in Places
  BY DEF Opened, Places
<1>5. at' \notin {"out", "blanks", "token", "comment"}
  BY DEF Opened
<1>6. Placed'
  BY <1>3, <1>5 DEF Placed
<1> QED
  BY <1>1, <1>3, <1>4, <1>6, MoveInv

(* A token that ends at q.                                                 *)
LEMMA ReturnInv ==
  ASSUME ScanInv, at \in Opened, in' = in, NEW id \in Ids, NEW str \in Text,
         NEW q \in 0..Len(in), lval.pos < q, Emit(id, lval.pos, str, q), Locals', Buffers'
  PROVE  ScanInv'
<1>1. lval.pos \in 0..Len(in) /\ EndBy(lval.pos) /\ Len(in) \in Nat
  BY Facts DEF Placed
<1>2. q \in lval.pos..Len(in)
  BY <1>1
<1> QED
  BY <1>1, <1>2, EmitInv

LEMMA FailInv ==
  ASSUME ScanInv, at \in Opened, in' = in, NEW q \in 0..Len(in), lval.pos < q, Fail(q),
         Locals', Buffers'
  PROVE  ScanInv'
BY ReturnInv, ByteSeqs DEF Fail, Ids

(* What a step of a number leaves alone. *)
LEMMA NumberRest ==
  ASSUME ScanInv, at = "number", UNCHANGED numberRest,
         number' \in [hex : BOOLEAN, decimal : BOOLEAN, exponent : BOOLEAN]
  PROVE  /\ Locals' /\ Buffers' /\ in' = in /\ start' = start /\ start = lval.pos
         /\ at \in Opened /\ lval.pos < pos
<1>1. UNCHANGED <<in, start, lit, half, depth, tag>> /\ UNCHANGED bufferVars
  BY DEF numberRest, bufferVars
<1>2. Locals /\ Buffers /\ start = lval.pos /\ at \in Opened /\ lval.pos < pos
  BY Facts DEF Placed, Opened
<1>3. Buffers'
  BY <1>1, <1>2, BuffersRest
<1>4. Locals'
  BY <1>1, <1>2 DEF Locals
<1> QED
  BY <1>1, <1>2, <1>3, <1>4

LEMMA ConsumeInv ==
  ASSUME ScanInv, at = "number", UNCHANGED numberRest, NEW n \in {1, 2}, Consume(n),
         pos + n \in 0..Len(in),
         number' \in [hex : BOOLEAN, decimal : BOOLEAN, exponent : BOOLEAN]
  PROVE  ScanInv'
<1>1. /\ Locals' /\ Buffers' /\ in' = in /\ start' = start /\ start = lval.pos
      /\ at \in Opened /\ lval.pos < pos
  BY NumberRest
<1>2. pos' = pos + n /\ UNCHANGED <<lval, at, tokens>>
  BY DEF Consume
<1>3. lval.pos < pos'
  BY <1>1, <1>2, Facts
<1>4. at' # "dollar" /\ at' \in Opened
  BY <1>1, <1>2
<1> QED
  BY <1>1, <1>2, <1>3, <1>4, TurnInv

LEMMA NumberType ==
  ScanInv => number \in [hex : BOOLEAN, decimal : BOOLEAN, exponent : BOOLEAN]
BY Facts DEF Locals

LEMMA AnotherDigitKeeps ==
  ASSUME ScanInv, AnotherDigit
  PROVE  ScanInv'
<1>1. at = "number" /\ Consume(1) /\ UNCHANGED <<number, numberRest>>
  BY DEF AnotherDigit
<1>2. Peek # Eof
  BY Classes, NotEof DEF AnotherDigit
<1>3. pos + 1 \in 0..Len(in)
  BY <1>2, PeekStep
<1> QED
  BY <1>1, <1>3, NumberType, ConsumeInv

LEMMA HexMarkKeeps ==
  ASSUME ScanInv, HexMark
  PROVE  ScanInv'
<1>1. at = "number" /\ IsX /\ UNCHANGED numberRest
  BY DEF HexMark
<1>2. pos + 1 \in 0..Len(in) /\ pos \in 0..Len(in)
  BY <1>1, PeekStep, Facts DEF IsX, Eof
<1>3. CASE Fail(pos) /\ UNCHANGED number
  BY <1>1, <1>2, <1>3, NumberType, NumberRest, FailInv
<1>4. CASE Consume(1) /\ number' = [number EXCEPT !.hex = TRUE]
  <2>1. number' \in [hex : BOOLEAN, decimal : BOOLEAN, exponent : BOOLEAN]
    BY <1>4, NumberType
  <2> QED
    BY <1>1, <1>2, <1>4, <2>1, ConsumeInv
<1> QED
  BY <1>3, <1>4 DEF HexMark

LEMMA DecimalPointKeeps ==
  ASSUME ScanInv, DecimalPoint
  PROVE  ScanInv'
<1>1. /\ at = "number" /\ PointFollows /\ UNCHANGED numberRest /\ Consume(1)
      /\ number' = [number EXCEPT !.decimal = TRUE]
  BY DEF DecimalPoint
<1>2. pos + 1 \in 0..Len(in)
  BY <1>1, PeekStep, NotEof DEF PointFollows
<1>3. number' \in [hex : BOOLEAN, decimal : BOOLEAN, exponent : BOOLEAN]
  BY <1>1, NumberType
<1> QED
  BY <1>1, <1>2, <1>3, ConsumeInv

LEMMA ExponentKeeps ==
  ASSUME ScanInv, Exponent
  PROVE  ScanInv'
<1> DEFINE n == IF PeekAt(pos + 1) \in {Minus, Plus} THEN 2 ELSE 1
<1>1. /\ at = "number" /\ IsE /\ UNCHANGED numberRest
      /\ number' = [number EXCEPT !.exponent = TRUE]
      /\ Consume(n) \/ Fail(pos + n)
  BY DEF Exponent
<1>2. n \in {1, 2} /\ pos + n \in 0..Len(in)
  <2>1. Peek # Eof
    BY <1>1 DEF IsE, Eof
  <2>2. PeekAt(pos + 1) \in {Minus, Plus} => PeekAt(pos + 1) # Eof
    BY DEF Minus, Plus, Eof
  <2> QED
    BY <2>1, <2>2, PeekStep
<1>3. number' \in [hex : BOOLEAN, decimal : BOOLEAN, exponent : BOOLEAN]
  BY <1>1, NumberType
<1> HIDE DEF n
<1>4. CASE Consume(n)
  BY <1>1, <1>2, <1>3, <1>4, ConsumeInv
<1>5. CASE Fail(pos + n)
  <2>1. lval.pos < pos + n
    BY <1>1, <1>2, <1>3, NumberRest, Facts
  <2> QED
    BY <1>1, <1>2, <1>3, <1>5, <2>1, NumberRest, FailInv
<1> QED
  BY <1>1, <1>4, <1>5

(* Zeros are stripped from the front, and not all of them. *)
LEMMA StripZerosIs ==
  ASSUME NEW s \in Text, s # <<>>
  PROVE  \E first \in 1..Len(s) :
            /\ StripZeros(s) = SubSeq(s, first, Len(s))
            /\ \A j \in 1..(first - 1) : s[j] = 48
            /\ first < Len(s) => s[first] # 48
<1> DEFINE l == Len(s)
           T == {i \in 1..l : i < l => s[i] # 48}
           Goes(i) == /\ \A j \in 1..(i - 1) : s[j] = 48
                      /\ i < l => s[i] # 48
           first == CHOOSE i \in 1..l : Goes(i)
<1>1. l \in Nat /\ l \in 1..l
  BY EmptySeq DEF Text
<1>2. StripZeros(s) = SubSeq(s, first, l)
  BY DEF StripZeros
<1> HIDE DEF l
<1>3. T \subseteq Nat /\ T # {}
  <2>1. ~(l < l)
    BY <1>1
  <2>2. l \in T
    BY <1>1, <2>1, Zenon
  <2>3. 1..l \subseteq Nat
    BY <1>1
  <2> QED
    BY <2>2, <2>3, Zenon
<1>4. PICK i \in T : \A j \in T : i <= j
  BY <1>3, LeastNatural
<1>5. ASSUME NEW j \in 1..(i - 1) PROVE s[j] = 48
  <2>1. j \in 1..l /\ j < i
    BY <1>1, <1>4
  <2>2. j \notin T
    BY <1>1, <1>4, <2>1
  <2> QED
    BY <2>1, <2>2
<1>6. Goes(i) /\ i \in 1..l
  BY <1>4, <1>5
<1> HIDE DEF Goes
<1>7. first \in 1..l /\ Goes(first)
  BY <1>6, Zenon
<1> HIDE DEF first
<1> QED
  BY <1>2, <1>7 DEF l, Goes

LEMMA StripZerosText ==
  ASSUME NEW s \in Text, s # <<>>
  PROVE  StripZeros(s) \in Text
<1>1. PICK first \in 1..Len(s) : StripZeros(s) = SubSeq(s, first, Len(s))
  BY StripZerosIs
<1>2. Len(s) \in Nat /\ first - 1 \in Nat /\ Len(s) \in 0..Len(s) /\ (first - 1) + 1 = first
  BY <1>1 DEF Text
<1>3. Part(s, first - 1, Len(s)) \in Text
  BY <1>2, PartFacts
<1> QED
  BY <1>1, <1>2, <1>3 DEF Part

LEMMA NumberEndKeeps ==
  ASSUME ScanInv, NumberEnd
  PROVE  ScanInv'
<1> DEFINE s == Slice(start, pos)
           str == IF number.hex THEN s ELSE StripZeros(s)
<1>1. /\ at = "number" /\ UNCHANGED numberRest /\ UNCHANGED number
      /\ \/ Emit("FCONST", lval.pos, s, pos)
         \/ Fail(pos)
         \/ Emit("ICONST", lval.pos, str, pos)
  BY DEF NumberEnd
<1>2. /\ Locals' /\ Buffers' /\ in' = in /\ start = lval.pos /\ at \in Opened /\ lval.pos < pos
      /\ pos \in 0..Len(in) /\ in \in Text /\ start \in Nat /\ pos \in Nat
  BY <1>1, NumberType, NumberRest, Facts
<1>3. s \in Text /\ s # <<>>
  <2>1. s \in Text /\ Len(s) = pos - start
    <3>1. start <= pos
      BY <1>2
    <3> QED
      BY <1>2, <3>1, SliceText, Zenon
  <2> HIDE DEF s
  <2> QED
    BY <1>2, <2>1
<1>4. str \in Text
  BY <1>3, StripZerosText
<1>5. {"FCONST", "ICONST"} \subseteq Ids
  BY DEF Ids
<1> HIDE DEF s, str
<1> QED
  BY <1>1, <1>2, <1>3, <1>4, <1>5, ReturnInv, FailInv

-----------------------------------------------------------------------------
(* The loops of the literals.                                              *)

InLiteral == {"hex", "bits", "string"}

LEMMA LiteralFacts ==
  ASSUME ScanInv, at \in InLiteral \cup {"finish"}
  PROVE  /\ at \in Opened /\ at \notin {"number", "dollar"} /\ lval.pos < pos
         /\ in \in Text /\ Len(in) \in Nat /\ pos \in 0..Len(in) /\ pos \in Nat
         /\ lval.pos \in Nat /\ start \in 0..Len(in) /\ start \in Nat /\ Locals /\ Buffers
BY Facts DEF InLiteral, Opened, Placed

LEMMA RefuseInv ==
  ASSUME ScanInv, at \in InLiteral \cup {"finish"}, NEW q \in 0..Len(in), pos <= q, Refuse(q)
  PROVE  ScanInv'
<1>1. /\ at \in Opened /\ lval.pos < pos /\ pos \in Nat /\ lval.pos \in Nat /\ Len(in) \in Nat
      /\ Locals /\ Buffers
  BY LiteralFacts
<1>2. Fail(q) /\ DropBuffer /\ UNCHANGED <<in, localVars>>
  BY DEF Refuse, literalRest, localVars
<1>3. Locals' /\ Buffers' /\ lval.pos < q
  BY <1>1, <1>2, LocalsRest, BuffersDrop
<1> QED
  BY <1>1, <1>2, <1>3, FailInv

(* A turn of a loop of a literal that stays in it, or leaves it for its end. *)
LEMMA LiteralTurn ==
  ASSUME ScanInv, at \in InLiteral, at' = at \/ at' = "finish",
         UNCHANGED <<lval, tokens>>, UNCHANGED literalRest,
         pos' \in 0..Len(in), pos <= pos', start' \in 0..Len(in),
         half' \in {Eof} \cup 0..15, Buffers'
  PROVE  ScanInv'
<1>1. /\ at \in Opened /\ at \notin {"number", "dollar"} /\ lval.pos < pos
      /\ pos \in Nat /\ lval.pos \in Nat /\ Len(in) \in Nat /\ Locals
  BY LiteralFacts
<1>2. UNCHANGED <<in, lit, depth, number, tag>>
  BY DEF literalRest
<1>3. Locals'
  BY <1>1, <1>2 DEF Locals
<1>4. lval.pos < pos' /\ at' \in Opened /\ at' # "number" /\ at' # "dollar"
  BY <1>1 DEF Opened
<1> QED
  BY <1>1, <1>2, <1>3, <1>4, TurnInv

LEMMA ContinueInv ==
  ASSUME ScanInv, at \in InLiteral, NEW q \in 0..Len(in), pos <= q, NEW first \in 0..Len(in),
         Continue(q, first), Buffers'
  PROVE  ScanInv'
<1>1. /\ pos' = q /\ start' = first /\ at' = at /\ half' = half
      /\ UNCHANGED <<lval, tokens>> /\ UNCHANGED literalRest
  BY DEF Continue
<1>2. half' \in {Eof} \cup 0..15
  BY <1>1, Facts DEF Locals
<1> QED
  BY <1>1, <1>2, LiteralTurn

LEMMA CloseQuoteInv ==
  ASSUME ScanInv, at \in InLiteral, Peek # Eof, NEW c \in Text, CloseQuote(c)
  PROVE  ScanInv'
<1> DEFINE p == SpanEnd(pos + 1, Blank)
<1>1. /\ AppendBytes(c) /\ half' = half /\ UNCHANGED <<lval, tokens>> /\ UNCHANGED literalRest
      /\ \/ PeekAt(p) = lit.quote /\ pos' = p + 1 /\ start' = p + 1 /\ at' = at
         \/ pos' = p /\ at' = "finish" /\ start' = start
  BY DEF CloseQuote, Joins
<1>2. /\ in \in Text /\ Len(in) \in Nat /\ pos \in Nat /\ pos + 1 \in 0..Len(in)
      /\ start \in 0..Len(in) /\ Buffers /\ Locals
  BY LiteralFacts, PeekStep
<1>3. p \in (pos + 1)..Len(in)
  BY <1>2, SpanSpec
<1> HIDE DEF p
<1>4. p \in Nat /\ p \in 0..Len(in) /\ pos <= p
  BY <1>2, <1>3
<1>5. PeekAt(p) = lit.quote => p + 1 \in 0..Len(in)
  <2>1. lit.quote # Eof
    BY <1>2 DEF Locals, Quote, DoubleQuote, Eof
  <2> QED
    BY <1>2, <1>4, <2>1, PeekIn
<1>6. Buffers' /\ half' \in {Eof} \cup 0..15
  BY <1>1, <1>2, BuffersAppend DEF Locals
<1>7. pos' \in 0..Len(in) /\ pos <= pos' /\ start' \in 0..Len(in)
  BY <1>1, <1>2, <1>4, <1>5
<1> QED
  BY <1>1, <1>6, <1>7, LiteralTurn

LEMMA HexValueIs ==
  \A ch \in HexDigit : HexValue(ch) \in Nat /\ HexValue(ch) <= 15
<1> SUFFICES ASSUME NEW ch \in HexDigit PROVE HexValue(ch) \in Nat /\ HexValue(ch) <= 15
  OBVIOUS
<1>1. Between(ch, 48, 57) \/ Between(ch, 97, 102) \/ Between(ch, 65, 70)
  BY SMT DEF HexDigit, Digit, Between
<1>2. ch \in Digit <=> Between(ch, 48, 57)
  BY SMT DEF Digit, Between
<1>3. ch \in Lower <=> Between(ch, 97, 122)
  BY SMT DEF Lower, Between
<1>4. HexValue(ch) = IF ch \in Digit THEN ch - 48
                     ELSE IF ch \in Lower THEN ch - 87 ELSE ch - 55
  BY Zenon DEF HexValue
<1> QED
  BY <1>1, <1>2, <1>3, <1>4 DEF Between

LEMMA HexPairKeeps ==
  ASSUME ScanInv, HexPair
  PROVE  ScanInv'
<1>1. at = "hex" /\ at \in InLiteral
  BY DEF HexPair, InLiteral
<1>2. /\ pos \in Nat /\ pos \in 0..Len(in) /\ Len(in) \in Nat /\ Buffers /\ Locals
      /\ start \in 0..Len(in)
  BY <1>1, LiteralFacts
<1>3. CASE Peek = Quote /\ CloseQuote(<<>>)
  BY <1>1, <1>3, NotEof, ByteSeqs, CloseQuoteInv
<1>4. CASE /\ Peek \in HexDigit
           /\ pos' = pos + 1
           /\ IF half = Eof
              THEN /\ half' = HexValue(Peek)
                   /\ UNCHANGED <<mem, free, buf, handed>>
              ELSE half' = Eof /\ AppendBytes(<<16 * half + HexValue(Peek)>>)
           /\ UNCHANGED <<lval, at, start, tokens, literalRest>>
  <2>1. pos + 1 \in 0..Len(in) /\ HexValue(Peek) \in 0..15
    BY <1>4, Classes, NotEof, PeekStep, HexValueIs, SMTT(20)
  <2>2. CASE half = Eof
    <3>1. Buffers' /\ half' \in {Eof} \cup 0..15
      BY <1>2, <1>4, <2>1, <2>2, BuffersRest DEF bufferVars
    <3> QED
      BY <1>1, <1>2, <1>4, <2>1, <3>1, LiteralTurn
  <2>3. CASE half # Eof
    <3>1. half \in 0..15
      BY <1>2, <2>3 DEF Locals
    <3>2. 16 * half + HexValue(Peek) \in Byte
      BY <2>1, <3>1, ByteIs, SMTT(20) DEF Between
    <3>3. Buffers' /\ half' \in {Eof} \cup 0..15
      BY <1>2, <1>4, <2>3, <3>2, ByteSeqs, BuffersAppend
    <3> QED
      BY <1>1, <1>2, <1>4, <2>1, <3>3, LiteralTurn
  <2> QED
    BY <2>2, <2>3
<1>5. CASE Refuse(IF Peek = Eof THEN pos ELSE pos + 1)
  <2> DEFINE q == IF Peek = Eof THEN pos ELSE pos + 1
  <2>1. q \in 0..Len(in) /\ pos <= q
    BY <1>2, PeekStep
  <2>2. Refuse(q)
    BY <1>5
  <2> HIDE DEF q
  <2> QED
    BY <1>1, <2>1, <2>2, RefuseInv
<1> QED
  BY <1>3, <1>4, <1>5 DEF HexPair

LEMMA BitKeeps ==
  ASSUME ScanInv, Bit
  PROVE  ScanInv'
<1>1. at = "bits" /\ at \in InLiteral
  BY DEF Bit, InLiteral
<1>2. /\ pos \in Nat /\ pos \in 0..Len(in) /\ Len(in) \in Nat /\ Buffers /\ Locals
      /\ start \in 0..Len(in)
  BY <1>1, LiteralFacts
<1>3. CASE Peek = Quote /\ CloseQuote(<<>>)
  BY <1>1, <1>3, NotEof, ByteSeqs, CloseQuoteInv
<1>4. CASE Peek \in {48, 49} /\ AppendBytes(<<Peek>>) /\ Continue(pos + 1, start)
  <2>1. Peek # Eof
    BY <1>4 DEF Eof
  <2>2. pos + 1 \in 0..Len(in) /\ Peek \in Byte /\ pos <= pos + 1
    BY <1>2, <2>1, PeekStep
  <2>3. Buffers'
    BY <1>2, <1>4, <2>2, ByteSeqs, BuffersAppend
  <2> QED
    BY <1>1, <1>2, <1>4, <2>2, <2>3, ContinueInv
<1>5. CASE Refuse(IF Peek = Eof THEN pos ELSE pos + 1)
  <2> DEFINE q == IF Peek = Eof THEN pos ELSE pos + 1
  <2>1. q \in 0..Len(in) /\ pos <= q
    BY <1>2, PeekStep
  <2>2. Refuse(q)
    BY <1>5
  <2> HIDE DEF q
  <2> QED
    BY <1>1, <2>1, <2>2, RefuseInv
<1> QED
  BY <1>3, <1>4, <1>5 DEF Bit

(* What UnquoteChar makes of an escape is bytes, and the escape is in the  *)
(* text.                                                                   *)
LEMMA UnescapeIn ==
  ASSUME in \in Text, NEW p \in 0..Len(in)
  PROVE  /\ Unescape(p).bytes \in Text
         /\ Unescape(p).len \in Nat /\ p + Unescape(p).len \in 0..Len(in)
<1> DEFINE t == PeekAt(p)
           Letter(ch) == CASE ch = 97  -> 7  [] ch = 98  -> 8  [] ch = 102 -> 12 [] ch = 110 -> 10
                           [] ch = 114 -> 13 [] ch = 116 -> 9  [] ch = 118 -> 11 [] ch = 92  -> 92
           letters == {97, 98, 102, 110, 114, 116, 118, 92}
           Refused == [bytes |-> <<>>, len |-> 0]
           Digits(n, C) == \A k \in 1..n : PeekAt(p + k) \in C
           Hex(k) == 16 * HexValue(PeekAt(p + k)) + HexValue(PeekAt(p + k + 1))
           octal == 64 * (t - 48) + 8 * (PeekAt(p + 1) - 48) + PeekAt(p + 2) - 48
           Rune(v, n) == IF v <= MaxRune
                         THEN [bytes |-> EncodeRune(IF v \in Surrogates THEN RuneError ELSE v),
                               len |-> n]
                         ELSE Refused
           u == Unescape(p)
           Good(v) == v.bytes \in Text /\ v.len \in Nat /\ p + v.len \in 0..Len(in)
<1>1. u = IF t \in letters THEN [bytes |-> <<Letter(t)>>, len |-> 1]
          ELSE IF t \in {120, 88} /\ Digits(2, HexDigit) THEN [bytes |-> <<Hex(1)>>, len |-> 3]
          ELSE IF t = 117 /\ Digits(4, HexDigit) THEN Rune(256 * Hex(1) + Hex(3), 5)
          ELSE IF t = 85 /\ Digits(8, HexDigit) /\ Hex(1) = 0
               THEN Rune(65536 * Hex(3) + 256 * Hex(5) + Hex(7), 9)
          ELSE IF t = 85 /\ Digits(8, HexDigit) /\ Hex(1) >= 128
               THEN [bytes |-> <<Hex(7)>>, len |-> 9]
          ELSE IF t \in Octal /\ Digits(2, Octal) /\ octal < 256
               THEN [bytes |-> <<octal>>, len |-> 3]
          ELSE Refused
  BY SMT DEF Unescape
<1>2. \A ch \in letters : ch \in Byte /\ Letter(ch) \in Byte
  <2>1. \A b \in {7, 8, 9, 10, 11, 12, 13, 92, 97, 98, 102, 110, 114, 116, 118} : b \in Byte
    BY ByteIs, SMT DEF Between
  <2> QED
    BY <2>1, SMT
<1>3. Len(in) \in Nat /\ p \in Nat
  BY DEF Text
<1>4. ASSUME NEW C \in SUBSET Byte, NEW n \in 1..8, Digits(n, C)
      PROVE  /\ \A k \in 1..n : PeekAt(p + k) \in C /\ p + k < Len(in)
             /\ p + (n + 1) \in 0..Len(in)
  <2>1. \A k \in 1..n : PeekAt(p + k) \in C /\ p + k < Len(in)
    <3>1. \A k \in 1..n : p + k \in Nat
      BY <1>3
    <3> QED
      BY <1>4, <3>1, PeekIn, Zenon
  <2>2. p + n < Len(in) /\ n \in Nat
    BY <2>1
  <2> QED
    BY <1>3, <2>1, <2>2
<1>5. /\ \A n \in 1..8 : Digits(n, HexDigit) =>
                            /\ \A k \in 1..n : PeekAt(p + k) \in HexDigit
                            /\ p + (n + 1) \in 0..Len(in)
      /\ Digits(2, Octal) => /\ PeekAt(p + 1) \in Octal /\ PeekAt(p + 2) \in Octal
                             /\ p + 3 \in 0..Len(in)
  <2>1. \A n \in 1..8 : Digits(n, HexDigit) =>
                            /\ \A k \in 1..n : PeekAt(p + k) \in HexDigit
                            /\ p + (n + 1) \in 0..Len(in)
    BY <1>4, Classes, Zenon
  <2>2. Digits(2, Octal) => PeekAt(p + 1) \in Octal /\ PeekAt(p + 2) \in Octal
    OBVIOUS
  <2>3. Digits(2, Octal) => p + (2 + 1) \in 0..Len(in)
    <3>1. 2 \in 1..8
      OBVIOUS
    <3> QED
      BY <1>4, <3>1, Classes, Zenon
  <2> QED
    BY <2>1, <2>2, <2>3, SMT
<1>6. ASSUME NEW k \in Nat, PeekAt(p + k) \in HexDigit, PeekAt(p + k + 1) \in HexDigit
      PROVE  Hex(k) \in Nat /\ Hex(k) <= 255
  <2>1. /\ HexValue(PeekAt(p + k)) \in Nat /\ HexValue(PeekAt(p + k)) <= 15
        /\ HexValue(PeekAt(p + k + 1)) \in Nat /\ HexValue(PeekAt(p + k + 1)) <= 15
    BY <1>6, HexValueIs, Zenon
  <2> QED
    BY <2>1, SMT
<1>7. ASSUME NEW n \in 1..8, Digits(n, HexDigit), NEW k \in 1..(n - 1)
      PROVE  Hex(k) \in Nat /\ Hex(k) <= 255
  <2>1. k \in 1..n /\ k + 1 \in 1..n /\ k \in Nat /\ p + (k + 1) = p + k + 1
    BY <1>3, <1>7
  <2>2. PeekAt(p + k) \in HexDigit /\ PeekAt(p + (k + 1)) \in HexDigit
    BY <1>7, <2>1, Zenon
  <2>3. PeekAt(p + k + 1) \in HexDigit
    BY <2>1, <2>2, Zenon
  <2> QED
    BY <1>6, <2>1, <2>2, <2>3, Zenon
<1>8. \A b \in Byte, n \in Nat : p + n \in 0..Len(in) => Good([bytes |-> <<b>>, len |-> n])
  BY ByteSeqs
<1>9. ASSUME NEW v \in Nat, NEW n \in Nat, p + n \in 0..Len(in)
      PROVE  Good(Rune(v, n))
  <2>1. EncodeRune(RuneError) \in Text
    BY EncodeRuneText, SMT DEF RuneError
  <2>2. v <= MaxRune => EncodeRune(v) \in Text
    BY EncodeRuneText, SMT DEF MaxRune
  <2>3. Good(Refused)
    BY ByteSeqs
  <2> HIDE DEF Refused
  <2>4. CASE v <= MaxRune
    <3> DEFINE c == EncodeRune(IF v \in Surrogates THEN RuneError ELSE v)
    <3>1. c \in Text
      BY <2>1, <2>2, <2>4, Zenon
    <3>2. Rune(v, n) = [bytes |-> c, len |-> n]
      BY <2>4, Zenon
    <3> HIDE DEF c, Rune
    <3> QED
      BY <1>9, <3>1, <3>2
  <2> QED
    BY <2>3, <2>4
<1> HIDE DEF Digits, Hex, Rune, Good, u, octal, letters, Letter
<1>10. CASE t \in letters
  <2>1. t \in Byte /\ Letter(t) \in Byte
    BY <1>2, <1>10, Zenon
  <2>2. p + 1 \in 0..Len(in)
    BY <1>3, <2>1, PeekIn, NotEof
  <2>3. u = [bytes |-> <<Letter(t)>>, len |-> 1]
    BY <1>1, <1>10, SMT
  <2>4. 1 \in Nat
    OBVIOUS
  <2> QED
    BY <1>8, <2>1, <2>2, <2>3, <2>4 DEF Good, u
<1>11. CASE u = [bytes |-> <<Hex(1)>>, len |-> 3] /\ Digits(2, HexDigit)
  <2>1. Hex(1) \in Byte
    <3>1. Hex(1) \in Nat /\ Hex(1) <= 255
      BY <1>7, <1>11, SMT
    <3> QED
      BY <3>1, ByteIs DEF Between
  <2>2. p + 3 \in 0..Len(in) /\ 3 \in Nat
    <3>1. p + (2 + 1) \in 0..Len(in)
      BY <1>5, <1>11, SMT
    <3> QED
      BY <3>1
  <2> QED
    BY <1>8, <1>11, <2>1, <2>2 DEF Good, u
<1>12. CASE u = Rune(256 * Hex(1) + Hex(3), 5) /\ Digits(4, HexDigit)
  <2>1. 256 * Hex(1) + Hex(3) \in Nat
    <3>1. Hex(1) \in Nat /\ Hex(3) \in Nat
      BY <1>7, <1>12, SMT
    <3> QED
      BY <3>1, SMT
  <2>2. p + 5 \in 0..Len(in) /\ 5 \in Nat
    <3>1. p + (4 + 1) \in 0..Len(in)
      BY <1>5, <1>12, SMT
    <3> QED
      BY <3>1, SMT
  <2> QED
    BY <1>9, <1>12, <2>1, <2>2, SMT DEF Good, u
<1>13. CASE u = Rune(65536 * Hex(3) + 256 * Hex(5) + Hex(7), 9) /\ Digits(8, HexDigit)
  <2>1. 65536 * Hex(3) + 256 * Hex(5) + Hex(7) \in Nat
    <3>1. Hex(3) \in Nat /\ Hex(5) \in Nat /\ Hex(7) \in Nat
      BY <1>7, <1>13, SMT
    <3> QED
      BY <3>1, SMT
  <2>2. p + 9 \in 0..Len(in) /\ 9 \in Nat
    <3>1. p + (8 + 1) \in 0..Len(in)
      BY <1>5, <1>13, SMT
    <3> QED
      BY <3>1, SMT
  <2> QED
    BY <1>9, <1>13, <2>1, <2>2, SMT DEF Good, u
<1>14. CASE u = [bytes |-> <<octal>>, len |-> 3] /\ t \in Octal /\ Digits(2, Octal) /\ octal < 256
  <2>1. p + 3 \in 0..Len(in) /\ PeekAt(p + 1) \in Octal /\ PeekAt(p + 2) \in Octal
    BY <1>5, <1>14, Zenon
  <2>2. \A b \in Octal : b \in Int /\ 48 <= b /\ b <= 55
    BY SMT DEF Octal
  <2>3. octal \in Byte
    <3>1. /\ t \in Int /\ 48 <= t /\ PeekAt(p + 1) \in Int /\ 48 <= PeekAt(p + 1)
          /\ PeekAt(p + 2) \in Int /\ 48 <= PeekAt(p + 2)
      BY <1>14, <2>1, <2>2, Zenon
    <3>2. \A x, y, z \in Int :
             48 <= x /\ 48 <= y /\ 48 <= z =>
                 /\ 64 * (x - 48) + 8 * (y - 48) + z - 48 \in Int
                 /\ 0 <= 64 * (x - 48) + 8 * (y - 48) + z - 48
      BY SMT
    <3>3. octal \in Int /\ 0 <= octal
      BY <3>1, <3>2, Zenon DEF octal
    <3> QED
      BY <1>14, <3>3, ByteIs DEF Between
  <2>4. 3 \in Nat
    OBVIOUS
  <2> QED
    BY <1>8, <1>14, <2>1, <2>3, <2>4, Zenon DEF Good, u
<1>15. CASE u = Refused
  BY <1>3, <1>15, ByteSeqs DEF Good, u
<1>16. CASE u = [bytes |-> <<Hex(7)>>, len |-> 9] /\ Digits(8, HexDigit)
  <2>1. Hex(7) \in Byte
    <3>1. Hex(7) \in Nat /\ Hex(7) <= 255
      BY <1>7, <1>16, SMT
    <3> QED
      BY <3>1, ByteIs DEF Between
  <2>2. p + 9 \in 0..Len(in) /\ 9 \in Nat
    <3>1. p + (8 + 1) \in 0..Len(in)
      BY <1>5, <1>16, SMT
    <3> QED
      BY <3>1, SMT
  <2> QED
    BY <1>8, <1>16, <2>1, <2>2 DEF Good, u
<1> QED
  BY <1>1, <1>10, <1>11, <1>12, <1>13, <1>14, <1>15, <1>16, SMT

LEMMA QuoteInStringKeeps ==
  ASSUME ScanInv, QuoteInString
  PROVE  ScanInv'
<1> DEFINE c == Slice(start, pos)
<1>1. /\ at = "string" /\ at \in InLiteral /\ Peek = lit.quote
      /\ \/ /\ PeekAt(pos + 1) = lit.quote
            /\ AppendBytes(c) /\ Continue(pos + 2, pos + 1)
         \/ CloseQuote(c)
  BY DEF QuoteInString, InLiteral
<1>2. /\ in \in Text /\ Len(in) \in Nat /\ pos \in Nat /\ pos \in 0..Len(in)
      /\ start \in Nat /\ Buffers /\ Locals
  BY <1>1, LiteralFacts
<1>3. c \in Text
  BY <1>2, SliceText
<1> HIDE DEF c
<1>4. lit.quote # Eof
  BY <1>2 DEF Locals, Quote, DoubleQuote, Eof
<1>5. CASE /\ PeekAt(pos + 1) = lit.quote
           /\ AppendBytes(c) /\ Continue(pos + 2, pos + 1)
  <2>1. pos + 2 \in 0..Len(in) /\ pos + 1 \in 0..Len(in) /\ pos <= pos + 2
    BY <1>1, <1>2, <1>4, <1>5, PeekStep
  <2>2. Buffers'
    BY <1>2, <1>3, <1>5, BuffersAppend
  <2> QED
    BY <1>1, <1>5, <2>1, <2>2, ContinueInv
<1>6. CASE CloseQuote(c)
  BY <1>1, <1>3, <1>4, <1>6, CloseQuoteInv
<1> QED
  BY <1>1, <1>5, <1>6

LEMMA EscapeKeeps ==
  ASSUME ScanInv, Escape
  PROVE  ScanInv'
<1> DEFINE c == Slice(start, pos)
           u == Unescape(pos + 1)
<1>1. /\ at = "string" /\ at \in InLiteral /\ Peek = Backslash
      /\ \/ PeekAt(pos + 1) = lit.quote /\ AppendBytes(c) /\ Continue(pos + 2, pos + 1)
         \/ Refuse(pos + 1)
         \/ AppendBytes(c \o u.bytes) /\ Continue(pos + 1 + u.len, pos + 1 + u.len)
         \/ AppendBytes(c) /\ Continue(pos + 1, pos + 1)
  BY DEF Escape, InLiteral
<1>2. /\ in \in Text /\ Len(in) \in Nat /\ pos \in Nat /\ pos \in 0..Len(in)
      /\ start \in Nat /\ Buffers /\ Locals
  BY <1>1, LiteralFacts
<1>3. pos + 1 \in 0..Len(in) /\ pos <= pos + 1
  BY <1>1, <1>2, NotEof, PeekStep
<1>4. c \in Text
  BY <1>2, SliceText
<1> HIDE DEF c
<1>5. CASE PeekAt(pos + 1) = lit.quote /\ AppendBytes(c) /\ Continue(pos + 2, pos + 1)
  <2>1. lit.quote # Eof
    BY <1>2 DEF Locals, Quote, DoubleQuote, Eof
  <2>2. pos + 2 \in 0..Len(in) /\ pos <= pos + 2
    BY <1>2, <1>5, <2>1, PeekStep
  <2>3. Buffers'
    BY <1>2, <1>4, <1>5, BuffersAppend
  <2> QED
    BY <1>1, <1>3, <1>5, <2>2, <2>3, ContinueInv
<1>6. CASE Refuse(pos + 1)
  BY <1>1, <1>3, <1>6, RefuseInv
<1>7. CASE AppendBytes(c \o u.bytes) /\ Continue(pos + 1 + u.len, pos + 1 + u.len)
  <2>1. u.bytes \in Text /\ u.len \in Nat /\ pos + 1 + u.len \in 0..Len(in)
    BY <1>2, <1>3, UnescapeIn
  <2> HIDE DEF u
  <2>2. c \o u.bytes \in Text
    BY <1>4, <2>1, ByteSeqs
  <2>3. Buffers' /\ pos <= pos + 1 + u.len
    BY <1>2, <1>7, <2>1, <2>2, BuffersAppend
  <2> QED
    BY <1>1, <1>7, <2>1, <2>3, ContinueInv
<1>8. CASE AppendBytes(c) /\ Continue(pos + 1, pos + 1)
  <2>1. Buffers'
    BY <1>2, <1>4, <1>8, BuffersAppend
  <2> QED
    BY <1>1, <1>3, <1>8, <2>1, ContinueInv
<1> QED
  BY <1>1, <1>5, <1>6, <1>7, <1>8

LEMMA StringByteKeeps ==
  ASSUME ScanInv, StringByte
  PROVE  ScanInv'
<1>1. at = "string" /\ at \in InLiteral
  BY DEF StringByte, InLiteral
<1>2. /\ Len(in) \in Nat /\ pos \in Nat /\ pos \in 0..Len(in) /\ start \in 0..Len(in) /\ Buffers
  BY <1>1, LiteralFacts
<1>3. CASE Refuse(pos)
  BY <1>1, <1>2, <1>3, RefuseInv
<1>4. CASE Peek # Eof /\ Continue(pos + 1, start) /\ UNCHANGED <<mem, free, buf, handed>>
  <2>1. pos + 1 \in 0..Len(in) /\ pos <= pos + 1
    BY <1>2, <1>4, PeekStep
  <2>2. Buffers'
    BY <1>2, <1>4, BuffersRest DEF bufferVars
  <2> QED
    BY <1>1, <1>2, <1>4, <2>1, <2>2, ContinueInv
<1> QED
  BY <1>3, <1>4 DEF StringByte

LEMMA FinishLiteralKeeps ==
  ASSUME ScanInv, FinishLiteral
  PROVE  ScanInv'
<1>1. at \in InLiteral \cup {"finish"}
  BY DEF FinishLiteral
<1>2. /\ at \in Opened /\ lval.pos < pos /\ Len(in) \in Nat /\ pos \in Nat /\ pos \in 0..Len(in)
      /\ Locals /\ Buffers
  BY <1>1, LiteralFacts
<1>3. CASE Refuse(pos)
  BY <1>1, <1>2, <1>3, RefuseInv
<1>4. CASE /\ Emit(LiteralKind, lval.pos, LiteralValue, pos)
           /\ FinishString
           /\ UNCHANGED <<start, half, literalRest>>
  <2>1. LiteralKind \in Ids
    BY DEF LiteralKind, Ids
  <2>2. LiteralValue \in Text /\ Buffers'
    BY <1>2, <1>4, ReadText, BuffersFinish, NormalizeStringText DEF LiteralValue
  <2>3. Locals' /\ in' = in
    BY <1>2, <1>4, LocalsRest DEF literalRest, localVars
  <2> QED
    BY <1>2, <1>4, <2>1, <2>2, <2>3, ReturnInv
<1> QED
  BY <1>3, <1>4 DEF FinishLiteral

-----------------------------------------------------------------------------
(* Strings in dollars.                                                     *)

LEMMA DollarFacts ==
  ASSUME ScanInv, at = "dollar"
  PROVE  /\ at \in Opened /\ lval.pos < pos /\ TagFits
         /\ in \in Text /\ Len(in) \in Nat /\ pos \in 0..Len(in) /\ pos \in Nat
         /\ lval.pos \in Nat /\ start \in 0..Len(in) /\ start \in Nat /\ Locals /\ Buffers
         /\ Len(tag.text) \in Nat /\ tag.matched \in {Eof} \cup 0..Len(tag.text)
         /\ tag \in [text : Text \cup {NoTag}, matched : Int]
         /\ tag.text = NoTag => tag.matched = Eof
         /\ Eof \notin Nat /\ NoTag \notin Text
<1>1. /\ at \in Opened /\ lval.pos < pos /\ TagFits
      /\ in \in Text /\ Len(in) \in Nat /\ pos \in 0..Len(in) /\ pos \in Nat
      /\ lval.pos \in Nat /\ start \in 0..Len(in) /\ start \in Nat /\ Locals /\ Buffers
  BY Facts DEF Opened, Placed
<1>2. /\ tag \in [text : Text \cup {NoTag}, matched : Int]
      /\ tag.matched \in {Eof} \cup 0..Len(tag.text)
  BY <1>1 DEF Locals
<1>3. Len(tag.text) \in Nat
  BY <1>2 DEF Text, NoTag
<1>4. tag.text = NoTag => tag.matched = Eof
  BY <1>1 DEF TagFits
<1>5. Eof \notin Nat
  BY DEF Eof
<1>6. NoTag \notin Text
  <2>1. Len(NoTag) = 1 /\ NoTag[1] = Eof
    BY DEF NoTag
  <2>2. ASSUME NoTag \in Text PROVE NoTag[1] \in Byte
    <3> HIDE DEF NoTag
    <3> QED
      BY <2>1, <2>2 DEF Text
  <2> QED
    BY <2>1, <2>2, NotEof
<1> QED
  BY <1>1, <1>2, <1>3, <1>4, <1>5, <1>6

(* The tag grows or matches, and the loop goes on. *)
LEMMA DollarTurn ==
  ASSUME ScanInv, at = "dollar", Peek # Eof, pos' = pos + 1, UNCHANGED <<lval, tokens, dollarRest>>,
         tag' \in [text : Text \cup {NoTag}, matched : Int],
         tag'.matched \in {Eof} \cup 0..Len(tag'.text),
         \/ at' = "body"
         \/ /\ at' = "dollar"
            /\ tag'.text # NoTag => start + Len(tag'.text) + 1 <= pos'
            /\ tag'.matched # Eof =>
                  tag'.text # NoTag /\ start + Len(tag'.text) + tag'.matched + 2 <= pos',
         Buffers'
  PROVE  ScanInv'
<1>1. /\ at \in Opened /\ lval.pos < pos /\ TagFits /\ pos \in Nat /\ lval.pos \in Nat
      /\ start \in Nat /\ Locals
  BY DollarFacts
<1>2. UNCHANGED <<in, start, lit, half, depth, number, lval, tokens>>
  BY DEF dollarRest
<1>3. Locals'
  BY <1>1, <1>2 DEF Locals
<1>4. pos' \in 0..Len(in) /\ lval.pos < pos'
  BY <1>1, PeekStep
<1>5. at' = "dollar" => TagFits'
  BY <1>1, <1>2 DEF TagFits
<1>6. at' \in Opened /\ at' # "number"
  BY DEF Opened
<1> QED
  BY <1>1, <1>2, <1>3, <1>4, <1>5, <1>6, TurnInv

LEMMA DollarMarkKeeps ==
  ASSUME ScanInv, DollarMark
  PROVE  ScanInv'
<1> DEFINE n == Len(tag.text)
           c == Slice(start + n + 1, pos - n - 1)
<1>1. /\ at = "dollar" /\ Peek # Eof /\ pos' = pos + 1 /\ UNCHANGED <<lval, tokens, dollarRest>>
      /\ \/ /\ tag.text = NoTag
            /\ tag' = [text |-> Slice(start, pos), matched |-> Eof]
            /\ UNCHANGED at /\ UNCHANGED bufferVars
         \/ /\ tag.text # NoTag /\ tag.matched = n
            /\ AppendBytes(c) /\ at' = "body" /\ tag' = tag
         \/ /\ tag.text # NoTag
            /\ tag' = [tag EXCEPT !.matched = 0]
            /\ UNCHANGED at /\ UNCHANGED bufferVars
  BY NotEof DEF DollarMark
<1>2. /\ lval.pos < pos /\ TagFits
      /\ in \in Text /\ Len(in) \in Nat /\ pos \in 0..Len(in) /\ pos \in Nat
      /\ start \in Nat /\ Locals /\ Buffers /\ n \in Nat
      /\ tag \in [text : Text \cup {NoTag}, matched : Int]
      /\ tag.matched \in {Eof} \cup 0..n
      /\ Eof \notin Nat /\ NoTag \notin Text /\ Eof \in Int
  BY <1>1, DollarFacts DEF Eof
<1>3. CASE /\ tag.text = NoTag
           /\ tag' = [text |-> Slice(start, pos), matched |-> Eof]
           /\ UNCHANGED at /\ UNCHANGED bufferVars
  <2> DEFINE s == Slice(start, pos)
  <2>1. s \in Text /\ Len(s) = pos - start
    <3>1. start <= pos
      BY <1>2 DEF TagFits
    <3> QED
      BY <1>2, <3>1, SliceText, Zenon
  <2>2. tag'.text = s /\ tag'.matched = Eof
    BY <1>3
  <2>3. tag' \in [text : Text \cup {NoTag}, matched : Int]
    BY <1>2, <1>3, <2>1
  <2> HIDE DEF s
  <2>4. start + Len(tag'.text) + 1 <= pos'
    BY <1>1, <1>2, <2>1, <2>2
  <2>5. at' = "dollar" /\ Buffers'
    BY <1>1, <1>2, <1>3, BuffersRest
  <2> QED
    BY <1>1, <2>2, <2>3, <2>4, <2>5, DollarTurn
<1>4. CASE /\ tag.text # NoTag /\ tag.matched = n
           /\ AppendBytes(c) /\ at' = "body" /\ tag' = tag
  <2>1. start + n + 1 \in Nat /\ pos - n - 1 \in 0..Len(in)
    BY <1>2, <1>4, SMTT(20) DEF TagFits
  <2>2. c \in Text
    BY <1>2, <2>1, SliceText
  <2> HIDE DEF c
  <2>3. Buffers'
    BY <1>2, <1>4, <2>2, BuffersAppend
  <2> QED
    BY <1>1, <1>2, <1>4, <2>3, DollarTurn
<1>5. CASE /\ tag.text # NoTag
           /\ tag' = [tag EXCEPT !.matched = 0]
           /\ UNCHANGED at /\ UNCHANGED bufferVars
  <2>1. tag'.text = tag.text /\ tag'.matched = 0
    BY <1>2, <1>5
  <2>2. tag' \in [text : Text \cup {NoTag}, matched : Int]
    BY <1>2, <1>5
  <2>3. start + n + 1 <= pos /\ start + n + 1 <= pos' /\ start + n + 0 + 2 <= pos'
    BY <1>1, <1>2, <1>5 DEF TagFits
  <2>4. tag'.matched \in {Eof} \cup 0..Len(tag'.text)
    BY <1>2, <2>1
  <2>5. at' = "dollar" /\ Buffers'
    BY <1>1, <1>2, <1>5, BuffersRest
  <2> QED
    BY <1>1, <1>2, <1>5, <2>1, <2>2, <2>3, <2>4, <2>5, DollarTurn
<1> QED
  BY <1>1, <1>3, <1>4, <1>5

LEMMA DollarByteKeeps ==
  ASSUME ScanInv, DollarByte
  PROVE  ScanInv'
<1> DEFINE n == Len(tag.text)
           m == tag'.matched
<1>1. /\ at = "dollar" /\ Peek # Eof /\ pos' = pos + 1 /\ UNCHANGED <<lval, tokens, dollarRest>>
      /\ tag' = [tag EXCEPT !.matched =
                    IF @ = Eof \/ @ >= Len(tag.text) THEN Eof
                    ELSE IF Peek = tag.text[@ + 1] THEN @ + 1 ELSE Eof]
      /\ at' = at /\ UNCHANGED bufferVars
  BY DEF DollarByte, bufferVars
<1>2. /\ TagFits /\ pos \in Nat /\ start \in Nat /\ Buffers /\ n \in Nat
      /\ tag \in [text : Text \cup {NoTag}, matched : Int]
      /\ tag.matched \in {Eof} \cup 0..n
      /\ Eof \notin Nat /\ Eof \in Int
  BY <1>1, DollarFacts DEF Eof
<1>3. /\ tag'.text = tag.text
      /\ m = Eof \/ (tag.matched # Eof /\ ~(tag.matched >= n) /\ m = tag.matched + 1)
  BY <1>1, <1>2
<1>4. tag' \in [text : Text \cup {NoTag}, matched : Int]
  BY <1>1, <1>2
<1> HIDE DEF m
<1>5. m \in {Eof} \cup 0..n
  BY <1>2, <1>3
<1>6. tag.text # NoTag => start + n + 1 <= pos'
  BY <1>1, <1>2 DEF TagFits
<1>7. m # Eof => tag.text # NoTag /\ start + n + m + 2 <= pos'
  BY <1>1, <1>2, <1>3 DEF TagFits
<1>8. Buffers'
  BY <1>1, <1>2, BuffersRest
<1> QED
  BY <1>1, <1>3, <1>4, <1>5, <1>6, <1>7, <1>8, DollarTurn DEF m

(* No more than $ is read, or all of it is refused. *)
LEMMA DollarEnds ==
  ASSUME ScanInv, at \in {"dollar", "body"}, UNCHANGED <<tag, dollarRest>>
  PROVE  /\ Locals' /\ in' = in /\ at \in Opened /\ lval.pos < pos /\ pos \in 0..Len(in)
         /\ pos \in Nat /\ Buffers /\ lval.pos \in Nat
<1>1. UNCHANGED <<in, localVars>>
  BY DEF dollarRest, localVars
<1> QED
  BY <1>1, Facts, LocalsRest DEF Placed, Opened

LEMMA NotDollarQuotedKeeps ==
  ASSUME ScanInv, NotDollarQuoted
  PROVE  ScanInv'
<1> DEFINE q == IF Peek = Eof THEN start ELSE pos
<1>1. /\ at = "dollar" /\ at \in {"dollar", "body"} /\ UNCHANGED <<tag, dollarRest>>
      /\ Emit("CHAR", lval.pos, <<Dollar>>, q) /\ DropBuffer
  BY DEF NotDollarQuoted
<1>2. /\ Locals' /\ in' = in /\ at \in Opened /\ lval.pos < pos /\ pos \in 0..Len(in)
      /\ Buffers /\ TagFits /\ start \in 0..Len(in) /\ lval.pos \in Nat
  BY <1>1, DollarEnds, DollarFacts
<1>3. q \in 0..Len(in) /\ lval.pos < q
  BY <1>2 DEF TagFits
<1>4. Buffers'
  BY <1>1, <1>2, BuffersDrop
<1>5. <<Dollar>> \in Text /\ "CHAR" \in Ids
  BY ByteSeqs, ByteIs DEF Between, Dollar, Ids
<1> HIDE DEF q
<1> QED
  BY <1>1, <1>2, <1>3, <1>4, <1>5, ReturnInv

LEMMA DollarUnterminatedKeeps ==
  ASSUME ScanInv, DollarUnterminated
  PROVE  ScanInv'
<1>1. at \in {"dollar", "body"} /\ UNCHANGED <<tag, dollarRest>> /\ Fail(pos) /\ DropBuffer
  BY DEF DollarUnterminated
<1> QED
  BY <1>1, DollarEnds, BuffersDrop, FailInv

LEMMA DollarBodyKeeps ==
  ASSUME ScanInv, DollarBody
  PROVE  ScanInv'
<1>1. /\ at \in {"dollar", "body"} /\ UNCHANGED <<tag, dollarRest>>
      /\ \/ Emit("SCONST", lval.pos, Read(buf), pos) /\ FinishString
         \/ Fail(pos) /\ DropBuffer
  BY DEF DollarBody
<1>2. /\ Locals' /\ in' = in /\ at \in Opened /\ lval.pos < pos /\ pos \in 0..Len(in) /\ Buffers
  BY <1>1, DollarEnds
<1>3. CASE Emit("SCONST", lval.pos, Read(buf), pos) /\ FinishString
  <2>1. Read(buf) \in Text /\ Buffers' /\ "SCONST" \in Ids
    BY <1>2, <1>3, ReadText, BuffersFinish DEF Ids
  <2> QED
    BY <1>2, <1>3, <2>1, ReturnInv
<1>4. CASE Fail(pos) /\ DropBuffer
  BY <1>2, <1>4, BuffersDrop, FailInv
<1> QED
  BY <1>1, <1>3, <1>4

-----------------------------------------------------------------------------
(* Every step.                                                             *)

LEMMA ScanStep ==
  ASSUME ScanInv, ScanNext
  PROVE  ScanInv'
BY SkipWhitespaceKeeps, CommentKeeps, EndKeeps, SymbolKeeps, IdentKeeps, PlaceholderKeeps,
   OpenNumberKeeps, OpenDollarKeeps, OpenLiteralKeeps, AnotherDigitKeeps, HexMarkKeeps,
   DecimalPointKeeps, ExponentKeeps, NumberEndKeeps, HexPairKeeps, BitKeeps,
   QuoteInStringKeeps, EscapeKeeps, StringByteKeeps, FinishLiteralKeeps, DollarMarkKeeps,
   DollarByteKeeps, NotDollarQuotedKeeps, DollarUnterminatedKeeps, DollarBodyKeeps
   DEF ScanNext

LEMMA ScanStutters ==
  ASSUME ScanInv, UNCHANGED scanVars
  PROVE  ScanInv'
<1>1. /\ UNCHANGED <<in, pos, at, lval, tokens>> /\ UNCHANGED <<in, localVars>>
      /\ UNCHANGED bufferVars
  BY DEF scanVars, localVars, bufferVars
<1>2. /\ pos \in 0..Len(in) /\ at \in Places /\ Locals /\ Buffers
      /\ lval \in [id : Ids, pos : 0..Len(in), str : Text]
  BY DEF ScanInv, TypeOK
<1>3. Locals' /\ Buffers'
  BY <1>1, <1>2, LocalsRest, BuffersRest
<1>4. EndBy(pos)'
  BY <1>1 DEF ScanInv, TokensAdvance, EndBy
<1>5. Placed'
  BY <1>1 DEF ScanInv, Placed, TagFits, EndBy, localVars
<1> QED
  BY <1>1, <1>2, <1>3, <1>4, <1>5, MoveInv

LEMMA CallersStep ==
  ASSUME ScanInv, [Next]_vars
  PROVE  ScanInv'
<1>1. Scan \/ ScanNext \/ UNCHANGED scanVars
  BY DEF Next, LastLexicalToken, FirstToken, NextToken, InScan, CallScan, Answer, vars
<1> QED
  BY <1>1, ScanKeeps, ScanStep, ScanStutters

LEMMA NothingIsIn ==
  /\ \A S : <<>> \in Seq(S)
  /\ Len(<<>>) = 0
  OBVIOUS

LEMMA ZerosText ==
  ASSUME NEW n \in Nat
  PROVE  Zeros(n) \in Text
<1>1. 0 \in Byte
  BY DEF Byte
<1>2. Zeros(n) \in [1..n -> Byte]
  BY <1>1, Zenon DEF Zeros
<1> HIDE DEF Zeros
<1> QED
  BY <1>2 DEF Text

LEMMA TextsBegin ==
  ASSUME NEW text \in Text, ScannerInit(text)
  PROVE  ScanInv
<1>1. /\ in = text /\ pos = 0 /\ at = "out" /\ start = 0 /\ half = Eof /\ depth = 0
      /\ lval = [id |-> "END", pos |-> 0, str |-> <<>>]
      /\ lit = [quote |-> Quote, escapes |-> FALSE]
      /\ number = [hex |-> FALSE, decimal |-> FALSE, exponent |-> FALSE]
      /\ tag = [text |-> NoTag, matched |-> Eof] /\ tokens = <<>>
      /\ BuffersInit(Len(text))
  BY DEF ScannerInit
<1>2. /\ in \in Text /\ Len(in) \in Nat /\ 0 \in 0..Len(in)
      /\ <<>> \in Text /\ \A s : s = <<>> => Len(s) = 0 /\ s \in Seq(TokenType)
  <2>1. <<>> \in Text /\ \A s : s = <<>> => Len(s) = 0 /\ s \in Seq(TokenType)
    BY NothingIsIn, Zenon DEF Text
  <2>2. \A t \in Text : Len(t) \in Nat
    BY DEF Text
  <2>3. \A n \in Nat : 0 \in 0..n
    OBVIOUS
  <2> QED
    BY <1>1, <2>1, <2>2, <2>3, Zenon
<1>3. Buffers
  <2>1. mem = <<Zeros(Len(text))>> /\ Zeros(Len(text)) \in Text
    BY <1>1, <1>2, ZerosText DEF BuffersInit
  <2>2. BuffersInv
    BY <1>1, <1>2, BuffersInitInv
  <2> QED
    BY <2>1, <2>2 DEF Buffers
<1>4. Locals
  BY <1>1, <1>2 DEF Locals, NoTag, Eof, Quote, DoubleQuote
<1>5. TypeOK
  <2>1. lval \in [id : Ids, pos : 0..Len(in), str : Text]
    BY <1>1, <1>2 DEF Ids
  <2> QED
    BY <1>1, <1>2, <1>3, <1>4, <2>1 DEF TypeOK, Locals, Buffers, Places, TokenType
<1>6. TokensAdvance /\ Placed
  <2>1. \A i \in 1..Len(tokens) : FALSE
    BY <1>1, <1>2
  <2> QED
    BY <1>1, <2>1, Zenon DEF TokensAdvance, Placed, EndBy, Opened
<1> QED
  BY <1>3, <1>4, <1>5, <1>6 DEF ScanInv

LEMMA TextsStep ==
  ASSUME ScanInv, [Scan \/ ScanNext]_scanVars
  PROVE  ScanInv'
  BY ScanKeeps, ScanStep, ScanStutters

(* Whatever the text, and whoever calls: every token but the one that says  *)
(* the end has bytes of its own after those of the token before, no index   *)
(* leaves the text and no value its type (Scan, scan.go:107-430).           *)
THEOREM TokensStayInOrder ==
  ASSUME NEW text \in Text
  PROVE  ScannerSpec(text) => []TokensInOrder
<1>1. ScannerInit(text) => ScanInv
  BY TextsBegin
<1>2. ScanInv /\ [Scan \/ ScanNext]_scanVars => ScanInv'
  BY TextsStep
<1>3. ScanInv => TokensInOrder
  BY DEF ScanInv, TokensInOrder
<1> QED
  BY <1>1, <1>2, <1>3, PTL DEF ScannerSpec

(* The bytes that the scanner has handed out as strings never change while  *)
(* it goes on in the same buffer: append, finishString and allocBytes in    *)
(* the order in which the scanner calls them (scan.go:71-112).     *)
THEOREM ScannedStringsKept ==
  ASSUME NEW text \in Text
  PROVE  ScannerSpec(text) => []StringsKept
<1>1. ScannerInit(text) => ScanInv
  BY TextsBegin
<1>2. ScanInv /\ [Scan \/ ScanNext]_scanVars => ScanInv'
  BY TextsStep
<1>3. ScanInv => StringsKept
  BY InvKeepsStrings DEF ScanInv, Buffers
<1> QED
  BY <1>1, <1>2, <1>3, PTL DEF ScannerSpec

-----------------------------------------------------------------------------
(* The answers of the callers.  They depend on the tokens and not on the   *)
(* text: these proofs need no types.                                       *)

IsSeq(s) == s \in Seq({s[i] : i \in 1..Len(s)})

LEMMA AppendAny ==
  ASSUME NEW s, IsSeq(s), NEW e
  PROVE  /\ IsSeq(Append(s, e)) /\ Len(s) \in Nat /\ Len(Append(s, e)) = Len(s) + 1
         /\ \A i \in 1..Len(s) : Append(s, e)[i] = s[i]
         /\ Append(s, e)[Len(s) + 1] = e
<1> DEFINE S == {s[i] : i \in 1..Len(s)}
           T == S \cup {e}
           a == Append(s, e)
           A == {a[i] : i \in 1..Len(a)}
<1>1. s \in Seq(S)
  BY DEF IsSeq
<1> HIDE DEF S
<1>2. s \in Seq(T) /\ e \in T
  BY <1>1
<1> HIDE DEF T
<1>3. /\ a \in Seq(T) /\ Len(s) \in Nat /\ Len(a) = Len(s) + 1
      /\ \A i \in 1..Len(s) : a[i] = s[i]
      /\ a[Len(s) + 1] = e
  BY <1>2
<1> HIDE DEF a
<1>4. a \in Seq(A)
  <2>1. Len(a) \in Nat /\ a = [i \in 1..Len(a) |-> a[i]]
    BY <1>3
  <2>2. \A i \in 1..Len(a) : a[i] \in A
    OBVIOUS
  <2> HIDE DEF A
  <2>3. a \in [1..Len(a) -> A]
    BY <2>1, <2>2
  <2> QED
    BY <2>1, <2>3
<1> QED
  BY <1>3, <1>4 DEF IsSeq, a

(* A step of a call of Scan ends it with a token, or does not end it. *)
LEMMA EmitOrNot ==
  ASSUME ScanNext
  PROVE  /\ at # "out"
         /\ \/ tokens' = tokens /\ at' # "out"
            \/ \E t : tokens' = Append(tokens, t) /\ at' = "out"
<1> DEFINE Ends  == \E t : tokens' = Append(tokens, t) /\ at' = "out"
           Goes  == tokens' = tokens /\ at' # "out"
           Right == at # "out" /\ (Goes \/ Ends)
<1>1. ASSUME NEW id, NEW p, NEW str, NEW q, Emit(id, p, str, q) PROVE Ends
  BY <1>1, Zenon DEF Emit
<1>2. ASSUME NEW q, Fail(q) PROVE Ends
  BY <1>1, <1>2, Zenon DEF Fail
<1>3. ASSUME NEW q, Refuse(q) PROVE Ends
  BY <1>2, <1>3, Zenon DEF Refuse
<1>4. ASSUME at # "out", NEW c, CloseQuote(c) PROVE Goes
  BY <1>4 DEF CloseQuote
<1>5. ASSUME at # "out", NEW q, NEW r, Continue(q, r) PROVE Goes
  BY <1>5, Zenon DEF Continue
<1>6. ASSUME at # "out", NEW n, Consume(n) PROVE Goes
  BY <1>6, Zenon DEF Consume
<1> HIDE DEF Ends
<1>7. SkipWhitespace => Right
  BY DEF SkipWhitespace
<1>8. Comment => Right
  <2> SUFFICES ASSUME Comment PROVE Right
    OBVIOUS
  <2>1. at = "comment"
    BY DEF Comment
  <2>2. CASE Emit("ERROR", start, <<>>, pos)
    BY <1>1, <2>1, <2>2
  <2>3. CASE tokens' = tokens /\ (at' = at \/ at' = IF depth = 1 THEN "blanks" ELSE "comment")
    BY <2>1, <2>3
  <2> QED
    BY <2>2, <2>3, Zenon DEF Comment
<1>9. End => Right
  BY <1>1 DEF End
<1>10. Symbol => Right
  BY <1>1 DEF Symbol
<1>11. Ident => Right
  <2> SUFFICES ASSUME Ident PROVE Right
    OBVIOUS
  <2>1. at = "token" /\ \E id, p, str, q : Emit(id, p, str, q)
    BY Zenon DEF Ident
  <2> QED
    BY <1>1, <2>1
<1>12. Placeholder => Right
  BY <1>1 DEF Placeholder
<1>13. OpenNumber \/ OpenDollar => Right
  BY DEF OpenNumber, OpenDollar, Enter
<1>14. OpenLiteral => Right
  <2> SUFFICES ASSUME OpenLiteral PROVE Right
    OBVIOUS
  <2>1. /\ at = "token" /\ tokens' = tokens
        /\ at' = IF Peek = 66 THEN "bits" ELSE IF Peek \in {120, 88} THEN "hex" ELSE "string"
    BY DEF OpenLiteral, Enter
  <2> QED
    BY <2>1
<1>15. AnotherDigit => Right
  BY <1>6 DEF AnotherDigit
<1>16. HexMark => Right
  BY <1>2, <1>6 DEF HexMark
<1>17. DecimalPoint => Right
  BY <1>6 DEF DecimalPoint
<1>18. Exponent => Right
  BY <1>2, <1>6 DEF Exponent
<1>19. NumberEnd => Right
  BY <1>1, <1>2 DEF NumberEnd
<1>20. HexPair => Right
  BY <1>3, <1>4 DEF HexPair
<1>21. Bit => Right
  BY <1>3, <1>4, <1>5 DEF Bit
<1>22. QuoteInString => Right
  BY <1>4, <1>5 DEF QuoteInString
<1>23. Escape => Right
  BY <1>3, <1>5 DEF Escape
<1>24. StringByte => Right
  BY <1>3, <1>5 DEF StringByte
<1>25. FinishLiteral => Right
  BY <1>1, <1>3 DEF FinishLiteral
<1>26. DollarMark => Right
  BY DEF DollarMark
<1>27. DollarByte => Right
  BY DEF DollarByte
<1>28. NotDollarQuoted => Right
  BY <1>1 DEF NotDollarQuoted
<1>29. DollarUnterminated => Right
  BY <1>2 DEF DollarUnterminated
<1>30. DollarBody => Right
  BY <1>1, <1>2 DEF DollarBody
<1> HIDE DEF Goes, Right
<1>31. Right
  BY <1>7, <1>8, <1>9, <1>10, <1>11, <1>12, <1>13, <1>14, <1>15, <1>16, <1>17, <1>18, <1>19,
     <1>20, <1>21, <1>22, <1>23, <1>24, <1>25, <1>26, <1>27, <1>28, <1>29, <1>30, Zenon
     DEF ScanNext
<1> QED
  BY <1>31 DEF Right, Goes, Ends

(* Statements that start among the first h tokens of s. *)
StartsAt(s, i) ==
    /\ s[i].id # "END" /\ ~IsSemicolon(s[i])
    /\ i = 1 \/ IsSemicolon(s[i - 1])

StartsOf(s, h) == {i \in 1..h : StartsAt(s, i)}

LEMMA StartsFinite ==
  ASSUME NEW s, NEW h \in Nat
  PROVE  IsFiniteSet(StartsOf(s, h)) /\ Cardinality(StartsOf(s, h)) \in Nat
<1>1. IsFiniteSet(1..h)
  BY FS_Interval
<1>2. StartsOf(s, h) \subseteq 1..h
  BY DEF StartsOf
<1>3. IsFiniteSet(StartsOf(s, h))
  BY <1>1, <1>2, FS_Subset
<1> QED
  BY <1>3, FS_CardinalityType

LEMMA StartsNone ==
  \A s : Cardinality(StartsOf(s, 0)) = 0
<1>1. \A s : StartsOf(s, 0) = {}
  BY DEF StartsOf
<1> QED
  BY <1>1, FS_EmptySet

LEMMA StartsGrow ==
  ASSUME NEW s, NEW h \in Nat
  PROVE  /\ StartsAt(s, h + 1) =>
              Cardinality(StartsOf(s, h + 1)) = Cardinality(StartsOf(s, h)) + 1
         /\ ~StartsAt(s, h + 1) =>
              Cardinality(StartsOf(s, h + 1)) = Cardinality(StartsOf(s, h))
<1>1. CASE StartsAt(s, h + 1)
  <2>1. StartsOf(s, h + 1) = StartsOf(s, h) \cup {h + 1} /\ h + 1 \notin StartsOf(s, h)
    BY <1>1 DEF StartsOf
  <2> QED
    BY <1>1, <2>1, StartsFinite, FS_AddElement
<1>2. CASE ~StartsAt(s, h + 1)
  <2>1. StartsOf(s, h + 1) = StartsOf(s, h)
    BY <1>2 DEF StartsOf
  <2> QED
    BY <1>2, <2>1
<1> QED
  BY <1>1, <1>2

(* Tokens that agree so far start the same statements. *)
LEMMA StartsSame ==
  ASSUME NEW s, NEW t, NEW h \in Nat, \A i \in 1..h : s[i] = t[i]
  PROVE  StartsOf(s, h) = StartsOf(t, h)
<1>1. ASSUME NEW i \in 1..h PROVE StartsAt(s, i) <=> StartsAt(t, i)
  <2>1. s[i] = t[i]
    OBVIOUS
  <2>2. CASE i = 1
    BY <2>1, <2>2 DEF StartsAt
  <2>3. CASE i # 1
    <3>1. i - 1 \in 1..h
      BY <2>3
    <3>2. s[i - 1] = t[i - 1]
      BY <3>1
    <3> QED
      BY <2>1, <2>3, <3>2, Zenon DEF StartsAt
  <2> QED
    BY <2>2, <2>3
<1> QED
  BY <1>1 DEF StartsOf

(* How many tokens the caller has dealt with. *)
Handled == IF at = "out" /\ tokens # <<>> THEN Len(tokens) - 1 ELSE Len(tokens)

(* What HasMultipleStatements knows of the first h tokens of s. *)
Counted(s, h, has, n) ==
    /\ \A i \in 1..h : s[i].id \notin {"END", "ERROR"}
    /\ n \in {0, 1} /\ has \in BOOLEAN
    /\ has <=> h > 0 /\ ~IsSemicolon(s[h])
    /\ Cardinality(StartsOf(s, h)) = n + (IF has THEN 1 ELSE 0)

CallsInv ==
    /\ IsSeq(tokens) /\ caller \in Callers
    /\ answer # "" => at = "out" /\ AnswersRight
    /\ answer = "" /\ caller = "HasMultipleStatements" => Counted(tokens, Handled, hasToks, count)

LEMMA CountedSame ==
  ASSUME NEW s, NEW t, NEW h \in Nat, NEW has, NEW n,
         \A i \in 1..h : s[i] = t[i], Counted(s, h, has, n)
  PROVE  Counted(t, h, has, n)
<1>1. StartsOf(s, h) = StartsOf(t, h)
  BY StartsSame
<1>2. h > 0 => s[h] = t[h]
  OBVIOUS
<1>3. \A i \in 1..h : t[i].id \notin {"END", "ERROR"}
  BY DEF Counted
<1> QED
  BY <1>1, <1>2, <1>3, Zenon DEF Counted

(* One more token is dealt with. *)
LEMMA CountedNext ==
  ASSUME NEW s, NEW h \in Nat, NEW has, NEW n, Counted(s, h, has, n),
         s[h + 1].id \notin {"END", "ERROR"}
  PROVE  /\ ~has /\ IsSemicolon(s[h + 1]) => Counted(s, h + 1, FALSE, n)
         /\ ~has /\ ~IsSemicolon(s[h + 1]) => Counted(s, h + 1, TRUE, n)
         /\ has /\ IsSemicolon(s[h + 1]) /\ n = 0 => Counted(s, h + 1, FALSE, 1)
         /\ has /\ ~IsSemicolon(s[h + 1]) => Counted(s, h + 1, TRUE, n)
<1> DEFINE semicolon == IsSemicolon(s[h + 1])
           first == StartsAt(s, h + 1)
           c == Cardinality(StartsOf(s, h))
           d == Cardinality(StartsOf(s, h + 1))
<1>1. /\ \A i \in 1..h : s[i].id \notin {"END", "ERROR"}
      /\ n \in {0, 1} /\ has \in BOOLEAN
      /\ has <=> h > 0 /\ ~IsSemicolon(s[h])
      /\ c = n + (IF has THEN 1 ELSE 0)
  BY DEF Counted
<1>2. \A i \in 1..(h + 1) : s[i].id \notin {"END", "ERROR"}
  <2>1. \A i \in 1..(h + 1) : i \in 1..h \/ i = h + 1
    OBVIOUS
  <2> QED
    BY <1>1, <2>1, Zenon
<1>3. first <=> ~semicolon /\ ~has
  <2>1. first <=> ~semicolon /\ (h + 1 = 1 \/ IsSemicolon(s[(h + 1) - 1]))
    BY DEF StartsAt
  <2>2. (h + 1) - 1 = h /\ (h + 1 = 1 <=> ~(h > 0))
    OBVIOUS
  <2> QED
    BY <1>1, <2>1, <2>2, Zenon
<1>4. (first => d = c + 1) /\ (~first => d = c) /\ c \in Nat
  BY StartsGrow, StartsFinite
<1>5. h + 1 > 0
  OBVIOUS
<1> HIDE DEF semicolon, first, c, d
<1>6. /\ ~has /\ semicolon => d = n
      /\ ~has /\ ~semicolon => d = n + 1
      /\ has => d = n + 1
  BY <1>1, <1>3, <1>4
<1>7. \A e \in BOOLEAN, m \in {0, 1} :
         (e <=> ~semicolon) /\ d = m + (IF e THEN 1 ELSE 0) => Counted(s, h + 1, e, m)
  BY <1>2, <1>5, Zenon DEF Counted, semicolon, d
<1>8. ASSUME ~has, semicolon PROVE Counted(s, h + 1, FALSE, n)
  <2>1. d = n + (IF FALSE THEN 1 ELSE 0)
    BY <1>1, <1>6, <1>8
  <2> QED
    BY <1>1, <1>7, <1>8, <2>1, Zenon
<1>9. ASSUME ~semicolon PROVE Counted(s, h + 1, TRUE, n)
  <2>1. d = n + (IF TRUE THEN 1 ELSE 0)
    BY <1>1, <1>6, <1>9
  <2> QED
    BY <1>1, <1>7, <1>9, <2>1, Zenon
<1>10. ASSUME has, semicolon, n = 0 PROVE Counted(s, h + 1, FALSE, 1)
  <2>1. d = 1 + (IF FALSE THEN 1 ELSE 0) /\ 1 \in {0, 1}
    BY <1>1, <1>6, <1>10
  <2> QED
    BY <1>7, <1>10, <2>1, Zenon
<1> QED
  BY <1>8, <1>9, <1>10, Zenon DEF semicolon

LEMMA UpToNext ==
  \A h \in Nat : /\ \A i \in 1..(h + 1) : i \in 1..h \/ i = h + 1
                 /\ h + 1 \in 1..(h + 1)
  OBVIOUS

LEMMA OneAndOne ==
  1 + 1 = 2
  OBVIOUS

LEMMA EmptyIsSeq ==
  \A s : s = <<>> => IsSeq(s) /\ Len(s) = 0
<1>1. Len(<<>>) = 0
  OBVIOUS
<1>2. <<>> \in Seq({<<>>[i] : i \in 1..Len(<<>>)})
  OBVIOUS
<1> QED
  BY <1>1, <1>2, Zenon DEF IsSeq

LEMMA CallsInit ==
  ASSUME Init
  PROVE  CallsInv
<1>1. /\ caller \in Callers /\ hasToks = FALSE /\ count = 0 /\ answer = "" /\ tokens = <<>>
  BY DEF Init, ScannerInit
<1>2. IsSeq(tokens) /\ Len(tokens) = 0 /\ Handled = 0
  BY <1>1, EmptyIsSeq, Zenon DEF Handled
<1>3. Counted(tokens, 0, FALSE, 0)
  BY StartsNone DEF Counted
<1> QED
  BY <1>1, <1>2, <1>3 DEF CallsInv

LEMMA CallsInScan ==
  ASSUME CallsInv, InScan
  PROVE  CallsInv'
<1>1. /\ at # "out" /\ UNCHANGED <<caller, hasToks, count, answer>>
      /\ \/ tokens' = tokens /\ at' # "out"
         \/ \E t : tokens' = Append(tokens, t) /\ at' = "out"
  BY EmitOrNot DEF InScan, callVars
<1>2. answer' = "" /\ IsSeq(tokens) /\ caller \in Callers
  BY <1>1 DEF CallsInv
<1>3. /\ IsSeq(tokens') /\ Handled' = Handled /\ Handled \in Nat
      /\ \A i \in 1..Handled : tokens[i] = tokens'[i]
  <2>1. CASE tokens' = tokens /\ at' # "out"
    <3>1. Len(tokens) \in Nat
      BY <1>2, AppendAny
    <3> QED
      BY <1>1, <1>2, <2>1, <3>1 DEF Handled
  <2>2. CASE \E t : tokens' = Append(tokens, t) /\ at' = "out"
    <3>1. PICK t : tokens' = Append(tokens, t)
      BY <2>2
    <3>2. /\ IsSeq(tokens') /\ Len(tokens) \in Nat /\ Len(tokens') = Len(tokens) + 1
          /\ \A i \in 1..Len(tokens) : tokens'[i] = tokens[i]
      BY <1>2, <3>1, AppendAny
    <3>3. tokens' # <<>> /\ at' = "out"
      BY <2>2, <3>2
    <3> QED
      BY <1>1, <3>2, <3>3 DEF Handled
  <2> QED
    BY <1>1, <2>1, <2>2
<1>4. caller = "HasMultipleStatements" => Counted(tokens', Handled, hasToks, count)
  <2> SUFFICES ASSUME caller = "HasMultipleStatements"
               PROVE  Counted(tokens', Handled, hasToks, count)
    OBVIOUS
  <2>1. Counted(tokens, Handled, hasToks, count)
    BY <1>1, <1>2 DEF CallsInv
  <2> QED
    BY <1>3, <2>1, CountedSame, Zenon
<1> QED
  BY <1>1, <1>2, <1>3, <1>4, Zenon DEF CallsInv

(* The caller goes on to the token that Scan returned last. *)
LEMMA HandledNext ==
  ASSUME CallsInv, at = "out", tokens # <<>>
  PROVE  /\ Handled \in Nat /\ Len(tokens) = Handled + 1 /\ LastToken = tokens[Handled + 1]
         /\ Len(tokens) \in Nat
<1>1. Len(tokens) \in Nat /\ IsSeq(tokens)
  BY AppendAny DEF CallsInv
<1>2. Len(tokens) # 0
  BY <1>1 DEF IsSeq
<1>3. Handled = Len(tokens) - 1
  BY DEF Handled
<1> QED
  BY <1>1, <1>2, <1>3 DEF LastToken

(* Calling Scan deals with it. *)
LEMMA CallsScan ==
  ASSUME CallsInv, CallScan, answer = "",
         caller = "HasMultipleStatements" =>
             Counted(tokens, Len(tokens), hasToks', count')
  PROVE  CallsInv'
<1>1. tokens' = tokens /\ at' = "blanks" /\ answer' = "" /\ caller' = caller
  BY DEF CallScan, Scan
<1>2. Handled' = Len(tokens)
  BY <1>1 DEF Handled
<1> QED
  BY <1>1, <1>2, Zenon DEF CallsInv

(* An answer is right if what is known of the tokens says so. *)
LEMMA CallsAnswer ==
  ASSUME CallsInv, NEW a, Answer(a), at = "out",
         a = "" => UNCHANGED <<hasToks, count>>, answer = "",
         a # "" => (AnswersRight)'
  PROVE  CallsInv'
<1>1. answer' = a /\ UNCHANGED <<tokens, at, caller>>
  BY DEF Answer, scanVars
<1>2. Handled' = Handled
  BY <1>1 DEF Handled
<1> QED
  BY <1>1, <1>2, Zenon DEF CallsInv

LEMMA CallsLastToken ==
  ASSUME CallsInv, LastLexicalToken
  PROVE  CallsInv'
<1>1. /\ at = "out" /\ answer = "" /\ caller = "LastLexicalToken" /\ UNCHANGED <<hasToks, count>>
      /\ "LastLexicalToken" # "HasMultipleStatements"
  BY DEF LastLexicalToken, Waiting
<1>2. CASE CallScan
  BY <1>1, <1>2, CallsScan
<1>3. CASE /\ tokens # <<>> /\ LastToken.id = "END"
           /\ Answer(IF Len(tokens) = 1 THEN "END" ELSE tokens[Len(tokens) - 1].id)
  <2> DEFINE a == IF Len(tokens) = 1 THEN "END" ELSE tokens[Len(tokens) - 1].id
  <2>1. answer' = a /\ UNCHANGED <<tokens, caller>>
    BY <1>3 DEF Answer, scanVars
  <2>2. \A i \in 1..Len(tokens) : i = Len(tokens) - 1 => a = tokens[i].id
    <3>1. Len(tokens) # 1 => a = tokens[Len(tokens) - 1].id
      OBVIOUS
    <3>2. \A i \in 1..1 : i # 1 - 1
      OBVIOUS
    <3> HIDE DEF a
    <3> QED
      BY <3>1, <3>2, Zenon
  <2>3. (AnswersRight)'
    BY <1>1, <1>3, <2>1, <2>2 DEF AnswersRight, LastToken
  <2> QED
    BY <1>1, <1>3, <2>3, CallsAnswer
<1> QED
  BY <1>2, <1>3 DEF LastLexicalToken

LEMMA VerdictOf ==
  \A c \in {0, 1}, has \in BOOLEAN : \A n, a :
     n = c + (IF has THEN 1 ELSE 0) /\ a = Verdict(IF has THEN c + 1 ELSE c) =>
         /\ a # "error"
         /\ a = "many" => n = 2
         /\ a = "one" => n < 2
  BY DEF Verdict

(* What HasMultipleStatements answers, from what it has counted. *)
LEMMA VerdictRight ==
  ASSUME CallsInv, at = "out", tokens # <<>>, answer = "", caller = "HasMultipleStatements",
         NEW a, answer' = a, UNCHANGED <<tokens, caller>>,
         \/ a = "error" /\ LastToken.id = "ERROR"
         \/ /\ LastToken.id = "END"
            /\ a = Verdict(IF hasToks THEN count + 1 ELSE count)
         \/ /\ IsSemicolon(LastToken) /\ hasToks /\ count = 1 /\ a = "many"
  PROVE  (AnswersRight)'
<1> DEFINE h == Handled
           n == Cardinality(StatementStarts)
           error == \E i \in 1..Len(tokens) : tokens[i].id = "ERROR"
<1>1. h \in Nat /\ Len(tokens) = h + 1 /\ LastToken = tokens[h + 1]
  BY HandledNext
<1>2. Counted(tokens, h, hasToks, count)
  BY DEF CallsInv
<1> HIDE DEF h
<1>3. /\ \A i \in 1..h : tokens[i].id # "ERROR"
      /\ count \in {0, 1} /\ hasToks \in BOOLEAN
      /\ Cardinality(StartsOf(tokens, h)) = count + (IF hasToks THEN 1 ELSE 0)
  BY <1>2 DEF Counted
<1>4. error <=> LastToken.id = "ERROR"
  <2>1. \A i \in 1..(h + 1) : i \in 1..h \/ i = h + 1
    BY <1>1, UpToNext, Zenon
  <2>2. h + 1 \in 1..(h + 1)
    BY <1>1, UpToNext, Zenon
  <2> QED
    BY <1>1, <1>3, <2>1, <2>2, Zenon
<1>5. ASSUME LastToken.id = "END" \/ IsSemicolon(LastToken)
      PROVE  n = count + (IF hasToks THEN 1 ELSE 0)
  <2>1. ~StartsAt(tokens, h + 1)
    BY <1>1, <1>5, Zenon DEF StartsAt
  <2>2. Cardinality(StartsOf(tokens, h + 1)) = Cardinality(StartsOf(tokens, h))
    BY <1>1, <2>1, StartsGrow, Zenon
  <2>3. StatementStarts = StartsOf(tokens, h + 1)
    BY <1>1, Zenon DEF StatementStarts, StartsOf, StartsAt
  <2> QED
    BY <1>3, <2>2, <2>3, Zenon
<1>6. IsSemicolon(LastToken) => LastToken.id = "CHAR"
  BY DEF IsSemicolon
<1> HIDE DEF n, error
<1>7. /\ a = "error" <=> error
      /\ a = "many" => n = 2
      /\ a = "one" => n < 2 /\ LastToken.id = "END"
  <2>1. CASE a = "error" /\ LastToken.id = "ERROR"
    BY <1>4, <2>1
  <2>2. CASE LastToken.id = "END" /\ a = Verdict(IF hasToks THEN count + 1 ELSE count)
    <3>1. n = count + (IF hasToks THEN 1 ELSE 0) /\ ~error
      BY <1>4, <1>5, <2>2
    <3> QED
      BY <1>3, <2>2, <3>1, VerdictOf, Zenon
  <2>3. CASE IsSemicolon(LastToken) /\ hasToks /\ count = 1 /\ a = "many"
    <3>1. n = 1 + 1
      BY <1>5, <2>3, Zenon
    <3>3. 1 + 1 = 2
      BY OneAndOne
    <3>2. ~error
      BY <1>4, <1>6, <2>3
    <3> QED
      BY <2>3, <3>1, <3>2, <3>3, Zenon
  <2> QED
    BY <2>1, <2>2, <2>3
<1>8. /\ LastToken' = LastToken /\ StatementStarts' = StatementStarts
      /\ (\E i \in 1..Len(tokens) : tokens[i].id = "ERROR")'
         <=> \E i \in 1..Len(tokens) : tokens[i].id = "ERROR"
  BY Zenon DEF LastToken, StatementStarts
<1>9. caller' # "LastLexicalToken"
  OBVIOUS
<1> QED
  BY <1>7, <1>8, <1>9, Zenon DEF AnswersRight, n, error

LEMMA CallsFirstToken ==
  ASSUME CallsInv, FirstToken
  PROVE  CallsInv'
<1>1. /\ at = "out" /\ answer = "" /\ caller = "HasMultipleStatements" /\ ~hasToks /\ count' = count
  BY DEF FirstToken, Waiting
<1>2. Counted(tokens, Handled, hasToks, count) /\ hasToks = FALSE
  BY <1>1 DEF CallsInv, Counted
<1>3. CASE tokens = <<>>
  <2>1. CallScan /\ hasToks' = hasToks
    BY <1>3 DEF FirstToken
  <2>2. Handled = 0 /\ Len(tokens) = 0
    BY <1>3 DEF Handled
  <2> QED
    BY <1>1, <1>2, <2>1, <2>2, CallsScan
<1>4. CASE tokens # <<>>
  <2>1. Handled \in Nat /\ Len(tokens) = Handled + 1 /\ LastToken = tokens[Handled + 1]
    BY <1>1, <1>4, HandledNext
  <2>2. CASE LastToken.id \notin {"END", "ERROR"}
    <3>1. /\ CallScan /\ hasToks' = ~IsSemicolon(LastToken)
          /\ hasToks' \in BOOLEAN
      BY <1>2, <1>4, <2>2 DEF FirstToken
    <3>2. Counted(tokens, Handled + 1, hasToks', count)
      <4>1. CASE IsSemicolon(LastToken)
        BY <1>1, <1>2, <2>1, <2>2, <3>1, <4>1, CountedNext
      <4>2. CASE ~IsSemicolon(LastToken)
        BY <1>1, <1>2, <2>1, <2>2, <3>1, <4>2, CountedNext
      <4> QED
        BY <4>1, <4>2
    <3> QED
      BY <1>1, <2>1, <3>1, <3>2, CallsScan
  <2>3. CASE LastToken.id \in {"END", "ERROR"}
    <3>1. \/ LastToken.id = "END" /\ Answer(Verdict(count))
          \/ LastToken.id = "ERROR" /\ Answer("error")
      BY <1>4, <2>3 DEF FirstToken, IsSemicolon
    <3>2. PICK a : /\ Answer(a) /\ a # ""
                   /\ \/ LastToken.id = "END" /\ a = Verdict(count)
                      \/ LastToken.id = "ERROR" /\ a = "error"
      BY <3>1 DEF Verdict
    <3>3. answer' = a /\ UNCHANGED <<tokens, caller>>
      BY <3>2 DEF Answer, scanVars
    <3>4. (AnswersRight)'
      BY <1>1, <1>2, <1>4, <3>2, <3>3, VerdictRight
    <3> QED
      BY <1>1, <3>2, <3>4, CallsAnswer
  <2> QED
    BY <2>2, <2>3
<1> QED
  BY <1>3, <1>4

LEMMA CallsNextToken ==
  ASSUME CallsInv, NextToken
  PROVE  CallsInv'
<1>1. /\ at = "out" /\ answer = "" /\ caller = "HasMultipleStatements" /\ hasToks
  BY DEF NextToken, Waiting
<1>2. Counted(tokens, Handled, hasToks, count) /\ hasToks = TRUE /\ count \in {0, 1}
  BY <1>1 DEF CallsInv, Counted
<1>3. tokens # <<>>
  <2>1. Handled > 0
    BY <1>1, <1>2 DEF Counted
  <2> QED
    BY <2>1 DEF Handled
<1>4. Handled \in Nat /\ Len(tokens) = Handled + 1 /\ LastToken = tokens[Handled + 1]
  BY <1>1, <1>3, HandledNext
<1>5. CASE /\ LastToken.id \notin {"END", "ERROR"} /\ ~IsSemicolon(LastToken)
           /\ CallScan /\ UNCHANGED <<hasToks, count>>
  <2>1. Counted(tokens, Handled + 1, hasToks', count')
    BY <1>1, <1>2, <1>4, <1>5, CountedNext
  <2> QED
    BY <1>1, <1>4, <1>5, <2>1, CallsScan
<1>6. CASE LastToken.id = "ERROR" /\ Answer("error")
  <2>1. answer' = "error" /\ UNCHANGED <<tokens, caller>>
    BY <1>6 DEF Answer, scanVars
  <2>2. (AnswersRight)'
    BY <1>1, <1>3, <1>6, <2>1, VerdictRight
  <2> QED
    BY <1>1, <1>6, <2>2, CallsAnswer
<1>7. CASE /\ LastToken.id = "END" \/ IsSemicolon(LastToken)
           /\ LastToken.id = "END" \/ count + 1 > 1
           /\ Answer(Verdict(count + 1))
  <2> DEFINE a == Verdict(count + 1)
  <2>1. answer' = a /\ UNCHANGED <<tokens, caller>> /\ a # ""
    BY <1>7 DEF Answer, scanVars, Verdict
  <2>2. \/ LastToken.id = "END" /\ a = Verdict(IF hasToks THEN count + 1 ELSE count)
        \/ IsSemicolon(LastToken) /\ hasToks /\ count = 1 /\ a = "many"
    <3>1. CASE LastToken.id = "END"
      BY <1>1, <3>1
    <3>2. CASE LastToken.id # "END"
      <4>1. count = 1
        BY <1>2, <1>7, <3>2
      <4> QED
        BY <1>1, <1>7, <3>2, <4>1 DEF Verdict
    <3> QED
      BY <3>1, <3>2
  <2> HIDE DEF a
  <2>3. (AnswersRight)'
    BY <1>1, <1>3, <2>1, <2>2, VerdictRight
  <2> QED
    BY <1>1, <1>7, <2>1, <2>3, CallsAnswer DEF a
<1>8. CASE /\ IsSemicolon(LastToken) /\ LastToken.id # "END" /\ ~(count + 1 > 1)
           /\ CallScan /\ hasToks' = FALSE /\ count' = count + 1
  <2>1. count = 0 /\ count' = 1
    BY <1>2, <1>8
  <2>2. LastToken.id \notin {"END", "ERROR"}
    BY <1>8 DEF IsSemicolon
  <2>3. Counted(tokens, Handled + 1, hasToks', count')
    BY <1>1, <1>2, <1>4, <1>8, <2>1, <2>2, CountedNext
  <2> QED
    BY <1>1, <1>4, <1>8, <2>3, CallsScan
<1> QED
  BY <1>5, <1>6, <1>7, <1>8 DEF NextToken

LEMMA CallsStutter ==
  ASSUME CallsInv, UNCHANGED vars
  PROVE  CallsInv'
<1>1. UNCHANGED <<tokens, at, caller, hasToks, count, answer>>
  BY DEF vars, scanVars, callVars
<1>2. Handled' = Handled /\ (AnswersRight <=> AnswersRight')
  BY <1>1 DEF Handled, AnswersRight, LastToken, StatementStarts
<1> QED
  BY <1>1, <1>2 DEF CallsInv

(* The two callers answer what the tokens say, whatever the texts: many     *)
(* when two statements have a token each, error when a token is one, the    *)
(* token before the end (scan.go:1005-1065).                                *)
THEOREM CallersAnswerRight == Spec => []AnswersRight
<1>1. Init => CallsInv
  BY CallsInit
<1>2. CallsInv /\ [Next]_vars => CallsInv'
  BY CallsLastToken, CallsFirstToken, CallsNextToken, CallsInScan, CallsStutter DEF Next
<1>3. CallsInv => AnswersRight
  BY DEF CallsInv, AnswersRight
<1> QED
  BY <1>1, <1>2, <1>3, PTL DEF Spec
-----------------------------------------------------------------------------
(* Inside and Ignorable: the recursions have a solution.                   *)

(* What such a recursion takes from f: a byte or a bracket at a time.      *)
Steps(f, G, B, j) ==
    {i \in 0..j :
        \/ i = j
        \/ \E k \in i..(j - 1) :
              /\ i \in f[k]
              /\ <<k, j>> \in G \/ (<<k, j>> \in B /\ k + 2 \in f[j - 2])}

Solves(f, L, G, B) == f = [j \in 0..L |-> Steps(f, G, B, j)]

LEMMA StepsSame ==
  ASSUME NEW n \in Nat, NEW f, NEW g, NEW G, NEW B, \A k \in 0..(n - 1) : f[k] = g[k],
         \A k, j : <<k, j>> \in B => k + 4 <= j
  PROVE  Steps(f, G, B, n) = Steps(g, G, B, n)
<1> DEFINE By(h, i, k) == /\ i \in h[k]
                          /\ <<k, n>> \in G \/ (<<k, n>> \in B /\ k + 2 \in h[n - 2])
<1>1. ASSUME NEW i \in 0..n, NEW k \in i..(n - 1)
      PROVE  By(f, i, k) <=> By(g, i, k)
  <2>1. k \in 0..(n - 1)
    OBVIOUS
  <2>2. <<k, n>> \in B => n - 2 \in 0..(n - 1)
    BY <2>1
  <2> QED
    BY <2>1, <2>2, Zenon
<1>2. \A i \in 0..n : i \in Steps(f, G, B, n) <=> i \in Steps(g, G, B, n)
  BY <1>1, Zenon DEF Steps
<1>3. Steps(f, G, B, n) \subseteq 0..n /\ Steps(g, G, B, n) \subseteq 0..n
  BY DEF Steps
<1> QED
  BY <1>2, <1>3, Zenon

LEMMA StepsExist ==
  ASSUME NEW L \in Nat, NEW G, NEW B, \A k, j : <<k, j>> \in B => k + 4 <= j
  PROVE  \E f : Solves(f, L, G, B)
<1> DEFINE Upto(n, f) == \A j \in 0..n : f[j] = Steps(f, G, B, j)
           S == {n \in Nat : \E f : Upto(n, f)}
<1>1. 0 \in S
  <2> DEFINE f == [j \in 0..0 |-> Steps([k \in {} |-> {}], G, B, j)]
  <2>1. ASSUME NEW j \in 0..0 PROVE f[j] = Steps(f, G, B, j)
    <3>1. j = 0 /\ f[j] = Steps([k \in {} |-> {}], G, B, 0)
      OBVIOUS
    <3>2. Steps([k \in {} |-> {}], G, B, 0) = Steps(f, G, B, 0)
      <4>1. \A k \in 0..(0 - 1) : [x \in {} |-> {}][k] = f[k]
        OBVIOUS
      <4> HIDE DEF f
      <4> QED
        BY <4>1, StepsSame
    <3> QED
      BY <3>1, <3>2, Zenon
  <2> QED
    BY <2>1
<1>2. ASSUME NEW n \in Nat, n \in S PROVE n + 1 \in S
  <2>1. PICK f : Upto(n, f)
    BY <1>2
  <2> DEFINE g == [j \in 0..(n + 1) |-> IF j = n + 1 THEN Steps(f, G, B, n + 1) ELSE f[j]]
  <2>2. /\ g[n + 1] = Steps(f, G, B, n + 1)
        /\ \A j \in 0..n : g[j] = f[j]
    OBVIOUS
  <2> HIDE DEF g
  <2>3. ASSUME NEW j \in 0..(n + 1) PROVE g[j] = Steps(g, G, B, j)
    <3>1. \A k \in 0..(j - 1) : k \in 0..n /\ f[k] = g[k]
      BY <2>2
    <3>2. Steps(f, G, B, j) = Steps(g, G, B, j)
      <4>1. j \in Nat /\ \A k \in 0..(j - 1) : f[k] = g[k]
        BY <3>1
      <4> QED
        BY <4>1, StepsSame
    <3>3. j = n + 1 \/ j \in 0..n
      OBVIOUS
    <3> QED
      BY <2>1, <2>2, <3>2, <3>3, Zenon
  <2> QED
    BY <2>3
<1> HIDE DEF S
<1>3. L \in S
  BY <1>1, <1>2, Induction
<1>4. PICK f : Upto(L, f)
  BY <1>3 DEF S
<1> DEFINE g == [j \in 0..L |-> f[j]]
<1>5. \A j \in 0..L : g[j] = f[j]
  OBVIOUS
<1>6. ASSUME NEW j \in 0..L PROVE f[j] = Steps(g, G, B, j)
  <2>1. j \in Nat /\ \A k \in 0..(j - 1) : f[k] = g[k]
    BY <1>5
  <2> HIDE DEF g
  <2>2. Steps(f, G, B, j) = Steps(g, G, B, j)
    BY <2>1, StepsSame
  <2> QED
    BY <1>4, <2>2, Zenon
<1>7. Solves(g, L, G, B)
  BY <1>6, Zenon DEF Solves
<1> QED
  BY <1>7

(* What Has says of two bytes. *)
LEMMA HasTwo ==
  ASSUME in \in Text, NEW p \in Nat, NEW a \in Byte, NEW b \in Byte
  PROVE  Has(p, <<a, b>>) <=> PeekAt(p) = a /\ PeekAt(p + 1) = b
<1> DEFINE s == <<a, b>>
<1>1. s \in Text /\ Len(s) = 2 /\ s[1] = a /\ s[2] = b
  BY DEF Text
<1> HIDE DEF s
<1>2. Has(p, s) <=> p + 2 <= Len(in) /\ \A i \in 1..2 : ByteOf(in, p + i - 1) = s[i]
  BY <1>1, HasIs
<1>3. p + 1 \in Nat /\ p + 1 - 1 = p /\ p + 2 - 1 = p + 1 /\ (\A i \in 1..2 : i = 1 \/ i = 2)
      /\ 1 \in 1..2 /\ 2 \in 1..2 /\ Len(in) \in Nat
  BY DEF Text
<1>4. Has(p, s) <=> p + 2 <= Len(in) /\ PeekAt(p) = a /\ PeekAt(p + 1) = b
  BY <1>1, <1>2, <1>3, PeekIs, Zenon
<1>5. PeekAt(p + 1) = b => p + 1 < Len(in)
  BY <1>3, ByteFacts, PeekIs, NotEof, Zenon
<1> QED
  BY <1>3, <1>4, <1>5 DEF s

LEMMA Marks ==
  ASSUME in \in Text
  PROVE  /\ \A p \in Nat : Has(p, Opening) <=> PeekAt(p) = Slash /\ PeekAt(p + 1) = Star
         /\ \A p \in Nat : Has(p, Closing) <=> PeekAt(p) = Star /\ PeekAt(p + 1) = Slash
         /\ \A p \in Nat : Has(p, <<Minus, Minus>>) <=> PeekAt(p) = Minus /\ PeekAt(p + 1) = Minus
<1>1. Slash \in Byte /\ Star \in Byte /\ Minus \in Byte
  BY ByteIs DEF Slash, Star, Minus, Between
<1> QED
  BY <1>1, HasTwo, Zenon DEF Opening, Closing

LEMMA InsideIs ==
  ASSUME in \in Text
  PROVE  \A j \in 0..Len(in) : Inside[j] =
             {i \in 0..j :
                 \/ i = j
                 \/ i < j /\ Plain(j - 1) /\ i \in Inside[j - 1]
                 \/ \E k \in i..(j - 4) :
                       /\ Has(k, Opening) /\ Has(j - 2, Closing) /\ k + 2 \in Inside[j - 2]
                       /\ i \in Inside[k]}
<1> DEFINE L == Len(in)
           G == {r \in Nat \X Nat : r[2] = r[1] + 1 /\ Plain(r[1])}
           B == {r \in Nat \X Nat : r[1] + 4 <= r[2] /\ Has(r[1], Opening) /\ Has(r[2] - 2, Closing)}
           One(f, j) == {i \in 0..j :
                            \/ i = j
                            \/ i < j /\ Plain(j - 1) /\ i \in f[j - 1]
                            \/ \E k \in i..(j - 4) :
                                  /\ Has(k, Opening) /\ Has(j - 2, Closing) /\ k + 2 \in f[j - 2]
                                  /\ i \in f[k]}
           Body(f) == f = [j \in 0..Len(in) |-> One(f, j)]
<1>1. Inside = CHOOSE f : Body(f)
  BY Zenon DEF Inside
<1>2. L \in Nat
  BY DEF Text
<1>3. \A k, j : <<k, j>> \in G <=> k \in Nat /\ j \in Nat /\ j = k + 1 /\ Plain(k)
  OBVIOUS
<1>4. \A k, j : <<k, j>> \in B <=>
         k \in Nat /\ j \in Nat /\ k + 4 <= j /\ Has(k, Opening) /\ Has(j - 2, Closing)
  OBVIOUS
<1> HIDE DEF G, B
<1>5. ASSUME NEW f, NEW j \in 0..L
      PROVE  One(f, j) = Steps(f, G, B, j)
  <2>1. ASSUME NEW i \in 0..j
        PROVE  i \in One(f, j) <=> i \in Steps(f, G, B, j)
    <3>1. \A k \in i..(j - 1) : k \in Nat /\ j \in Nat /\ (j = k + 1 <=> k = j - 1)
      BY <1>2
    <3>2. \A k \in i..(j - 1) : k \in i..(j - 4) <=> k + 4 <= j
      BY <1>2
    <3>3. \A k \in i..(j - 4) : k \in i..(j - 1)
      BY <1>2
    <3>4. i < j => j - 1 \in i..(j - 1)
      BY <1>2
    <3>5. \A k \in i..(j - 1) : i < j
      BY <1>2
    <3>6. i \in Steps(f, G, B, j) <=>
             \/ i = j
             \/ \E k \in i..(j - 1) :
                   /\ i \in f[k]
                   /\ <<k, j>> \in G \/ (<<k, j>> \in B /\ k + 2 \in f[j - 2])
      BY Zenon DEF Steps
    <3>7. i \in Steps(f, G, B, j) <=>
             \/ i = j
             \/ \E k \in i..(j - 1) :
                   /\ i \in f[k]
                   /\ \/ k = j - 1 /\ Plain(k)
                      \/ k \in i..(j - 4) /\ Has(k, Opening) /\ Has(j - 2, Closing) /\ k + 2 \in f[j - 2]
      BY <1>3, <1>4, <3>1, <3>2, <3>6, Zenon
    <3>8. i \in One(f, j) <=>
             \/ i = j
             \/ i < j /\ Plain(j - 1) /\ i \in f[j - 1]
             \/ \E k \in i..(j - 4) :
                   /\ Has(k, Opening) /\ Has(j - 2, Closing) /\ k + 2 \in f[j - 2]
                   /\ i \in f[k]
      BY Zenon
    <3> HIDE DEF One
    <3> QED
      BY <3>3, <3>4, <3>5, <3>7, <3>8, Zenon
  <2>2. One(f, j) \subseteq 0..j /\ Steps(f, G, B, j) \subseteq 0..j
    BY DEF Steps
  <2> HIDE DEF One
  <2> QED
    BY <2>1, <2>2, Zenon
<1> HIDE DEF One
<1>6. PICK f : Solves(f, L, G, B)
  <2>1. \A k, j : <<k, j>> \in B => k + 4 <= j
    BY <1>4, Zenon
  <2> QED
    BY <1>2, <2>1, StepsExist, Zenon
<1>7. Body(f)
  BY <1>5, <1>6, Zenon DEF Solves
<1> HIDE DEF Body
<1>8. Body(Inside)
  BY <1>1, <1>7, Zenon
<1>9. \A j \in 0..Len(in) : Inside[j] = One(Inside, j)
  BY <1>8, Zenon DEF Body
<1> QED
  BY <1>9, Zenon DEF One

LEMMA IgnorableIs ==
  ASSUME in \in Text
  PROVE  \A j \in 0..Len(in) : Ignorable[j] =
             {i \in 0..j :
                 \/ i = j
                 \/ i < j /\ PeekAt(j - 1) \in Blank /\ i \in Ignorable[j - 1]
                 \/ \E k \in i..(j - 2) : (Block(k, j) \/ Line(k, j)) /\ i \in Ignorable[k]}
<1> DEFINE L == Len(in)
           G == {r \in Nat \X Nat : \/ r[2] = r[1] + 1 /\ PeekAt(r[1]) \in Blank
                                    \/ r[1] + 2 <= r[2] /\ (Block(r[1], r[2]) \/ Line(r[1], r[2]))}
           One(f, j) == {i \in 0..j :
                            \/ i = j
                            \/ i < j /\ PeekAt(j - 1) \in Blank /\ i \in f[j - 1]
                            \/ \E k \in i..(j - 2) : (Block(k, j) \/ Line(k, j)) /\ i \in f[k]}
           Body(f) == f = [j \in 0..Len(in) |-> One(f, j)]
<1>1. Ignorable = CHOOSE f : Body(f)
  BY Zenon DEF Ignorable
<1>2. L \in Nat
  BY DEF Text
<1>3. \A k, j : <<k, j>> \in G <=>
         /\ k \in Nat /\ j \in Nat
         /\ \/ j = k + 1 /\ PeekAt(k) \in Blank
            \/ k + 2 <= j /\ (Block(k, j) \/ Line(k, j))
  OBVIOUS
<1> HIDE DEF G
<1>4. ASSUME NEW f, NEW j \in 0..L
      PROVE  One(f, j) = Steps(f, G, {}, j)
  <2>1. ASSUME NEW i \in 0..j
        PROVE  i \in One(f, j) <=> i \in Steps(f, G, {}, j)
    <3>1. \A k \in i..(j - 1) : k \in Nat /\ j \in Nat /\ (j = k + 1 <=> k = j - 1)
      BY <1>2
    <3>2. \A k \in i..(j - 1) : k \in i..(j - 2) <=> k + 2 <= j
      BY <1>2
    <3>3. \A k \in i..(j - 2) : k \in i..(j - 1)
      BY <1>2
    <3>4. i < j => j - 1 \in i..(j - 1)
      BY <1>2
    <3>5. \A k \in i..(j - 1) : i < j
      BY <1>2
    <3>6. i \in Steps(f, G, {}, j) <=>
             \/ i = j
             \/ \E k \in i..(j - 1) : i \in f[k] /\ <<k, j>> \in G
      BY Zenon DEF Steps
    <3>7. i \in Steps(f, G, {}, j) <=>
             \/ i = j
             \/ \E k \in i..(j - 1) :
                   /\ i \in f[k]
                   /\ \/ k = j - 1 /\ PeekAt(k) \in Blank
                      \/ k \in i..(j - 2) /\ (Block(k, j) \/ Line(k, j))
      BY <1>3, <3>1, <3>2, <3>6, Zenon
    <3>8. i \in One(f, j) <=>
             \/ i = j
             \/ i < j /\ PeekAt(j - 1) \in Blank /\ i \in f[j - 1]
             \/ \E k \in i..(j - 2) : (Block(k, j) \/ Line(k, j)) /\ i \in f[k]
      BY Zenon
    <3> HIDE DEF One
    <3> QED
      BY <3>3, <3>4, <3>5, <3>7, <3>8, Zenon
  <2>2. One(f, j) \subseteq 0..j /\ Steps(f, G, {}, j) \subseteq 0..j
    BY DEF Steps
  <2> HIDE DEF One
  <2> QED
    BY <2>1, <2>2, Zenon
<1> HIDE DEF One
<1>5. PICK f : Solves(f, L, G, {})
  BY <1>2, StepsExist
<1>6. Body(f)
  BY <1>4, <1>5, Zenon DEF Solves
<1> HIDE DEF Body
<1>7. Body(Ignorable)
  BY <1>1, <1>6, Zenon
<1>8. \A j \in 0..Len(in) : Ignorable[j] = One(Ignorable, j)
  BY <1>7, Zenon DEF Body
<1> QED
  BY <1>8, Zenon DEF One

(* What is inside goes on: with a byte, with a comment. *)
LEMMA InsideGrows ==
  ASSUME in \in Text
  PROVE  /\ \A i \in 0..Len(in) : i \in Inside[i]
         /\ \A j \in 0..Len(in) : \A i \in Inside[j] : i \in 0..j
         /\ \A k \in 0..Len(in) : \A i \in Inside[k] :
               k + 1 \in 0..Len(in) /\ Plain(k) => i \in Inside[k + 1]
         /\ \A k \in 0..Len(in), j \in 0..Len(in) : \A i \in Inside[k] :
               Block(k, j) => i \in Inside[j]
<1>1. Len(in) \in Nat
  BY DEF Text
<1>2. \A i \in 0..Len(in) : i \in Inside[i]
  <2>1. \A i \in 0..Len(in) : i \in 0..i
    BY <1>1
  <2> QED
    BY <2>1, InsideIs, Zenon
<1>3. \A j \in 0..Len(in) : \A i \in Inside[j] : i \in 0..j
  BY InsideIs, Zenon
<1>4. ASSUME NEW k \in 0..Len(in), NEW i \in Inside[k], k + 1 \in 0..Len(in), Plain(k)
      PROVE  i \in Inside[k + 1]
  <2>1. i \in 0..k
    BY <1>3
  <2>2. i \in 0..(k + 1) /\ i < k + 1 /\ (k + 1) - 1 = k
    BY <2>1
  <2>3. Inside[k + 1] =
             {x \in 0..(k + 1) :
                 \/ x = k + 1
                 \/ x < k + 1 /\ Plain((k + 1) - 1) /\ x \in Inside[(k + 1) - 1]
                 \/ \E y \in x..((k + 1) - 4) :
                       /\ Has(y, Opening) /\ Has((k + 1) - 2, Closing) /\ y + 2 \in Inside[(k + 1) - 2]
                       /\ x \in Inside[y]}
    BY <1>4, InsideIs, Zenon
  <2>4. Plain((k + 1) - 1) /\ i \in Inside[(k + 1) - 1]
    BY <1>4, <2>2, Zenon
  <2> QED
    BY <2>2, <2>3, <2>4, Zenon
<1>5. ASSUME NEW k \in 0..Len(in), NEW j \in 0..Len(in), NEW i \in Inside[k], Block(k, j)
      PROVE  i \in Inside[j]
  <2>1. i \in 0..k
    BY <1>3
  <2>2. /\ k + 4 <= j /\ Has(k, Opening) /\ Has(j - 2, Closing) /\ k + 2 \in Inside[j - 2]
    BY <1>5 DEF Block
  <2>3. i \in 0..j /\ k \in i..(j - 4)
    BY <2>1, <2>2
  <2> QED
    BY <1>5, <2>2, <2>3, InsideIs, Zenon
<1> QED
  BY <1>2, <1>3, <1>4, <1>5

LEMMA IgnorableGrows ==
  ASSUME in \in Text
  PROVE  /\ \A i \in 0..Len(in) : i \in Ignorable[i]
         /\ \A k \in 0..Len(in) : \A i \in Ignorable[k] :
               k + 1 \in 0..Len(in) /\ PeekAt(k) \in Blank => i \in Ignorable[k + 1]
         /\ \A k \in 0..Len(in), j \in 0..Len(in) : \A i \in Ignorable[k] :
               Block(k, j) \/ Line(k, j) => i \in Ignorable[j]
<1>1. Len(in) \in Nat
  BY DEF Text
<1>2. \A i \in 0..Len(in) : i \in Ignorable[i]
  <2>1. \A i \in 0..Len(in) : i \in 0..i
    BY <1>1
  <2> QED
    BY <2>1, IgnorableIs, Zenon
<1>3. \A j \in 0..Len(in) : \A i \in Ignorable[j] : i \in 0..j
  BY IgnorableIs, Zenon
<1>4. ASSUME NEW k \in 0..Len(in), NEW i \in Ignorable[k], k + 1 \in 0..Len(in), PeekAt(k) \in Blank
      PROVE  i \in Ignorable[k + 1]
  <2>1. i \in 0..k
    BY <1>3
  <2>2. i \in 0..(k + 1) /\ i < k + 1 /\ (k + 1) - 1 = k
    BY <2>1
  <2> QED
    BY <1>4, <2>2, IgnorableIs, Zenon
<1>5. ASSUME NEW k \in 0..Len(in), NEW j \in 0..Len(in), NEW i \in Ignorable[k],
             Block(k, j) \/ Line(k, j)
      PROVE  i \in Ignorable[j]
  <2>1. i \in 0..k
    BY <1>3
  <2>2. k + 2 <= j
    BY <1>5 DEF Block, Line
  <2>3. i \in 0..j /\ k \in i..(j - 2)
    BY <2>1, <2>2
  <2> QED
    BY <1>5, <2>2, <2>3, IgnorableIs, Zenon
<1> QED
  BY <1>2, <1>4, <1>5

LEMMA IgnorableSpan ==
  ASSUME in \in Text, NEW p \in 0..Len(in), NEW q \in p..Len(in), NEW i \in Ignorable[p],
         \A r \in p..(q - 1) : PeekAt(r) \in Blank
  PROVE  i \in Ignorable[q]
<1> DEFINE S == {n \in Nat : p + n <= q => i \in Ignorable[p + n]}
<1>1. Len(in) \in Nat /\ p \in Nat /\ q \in Nat /\ q - p \in Nat /\ p + (q - p) = q /\ p + 0 = p
  BY DEF Text
<1>2. 0 \in S
  BY <1>1
<1>3. ASSUME NEW n \in Nat, n \in S PROVE n + 1 \in S
  <2> SUFFICES ASSUME p + (n + 1) <= q PROVE i \in Ignorable[p + (n + 1)]
    OBVIOUS
  <2>1. /\ p + n \in 0..Len(in) /\ p + n <= q /\ (p + n) + 1 = p + (n + 1)
        /\ (p + n) + 1 \in 0..Len(in) /\ p + n \in p..(q - 1)
    BY <1>1
  <2>2. i \in Ignorable[p + n]
    BY <1>3, <2>1
  <2>3. i \in Ignorable[(p + n) + 1]
    BY <2>1, <2>2, IgnorableGrows, Zenon
  <2> QED
    BY <2>1, <2>3
<1> HIDE DEF S
<1>4. q - p \in S
  BY <1>1, <1>2, <1>3, Induction
<1> QED
  BY <1>1, <1>4 DEF S

-----------------------------------------------------------------------------
(* What is before a token: blanks and comments.                            *)

LastEnd == IF tokens = <<>> THEN 0 ELSE tokens[Len(tokens)].end

(* d comments are open at p, one in the other: the first began at s, and    *)
(* o[k] is where the k-th did.                                             *)
Bracketed(o, d, s, p) ==
    /\ o \in [1..d -> Nat] /\ o[1] = s
    /\ \A k \in 1..d : /\ Has(o[k], Opening)
                       /\ o[k] + 2 \in Inside[IF k = d THEN p ELSE o[k + 1]]

TileInv ==
    /\ NothingLost
    /\ at = "out" => pos = LastEnd
    /\ at \in {"blanks", "token"} => LastEnd \in Ignorable[pos]
    /\ at = "comment" => /\ LastEnd \in Ignorable[start]
                         /\ \E o : Bracketed(o, depth, start, pos)
    /\ at \in Opened => LastEnd \in Ignorable[lval.pos]

LEMMA SameText ==
  ASSUME in' = in
  PROVE  /\ Inside' = Inside /\ Ignorable' = Ignorable
         /\ \A p, q : Slice(p, q)' = Slice(p, q)
         /\ \A p : PeekAt(p)' = PeekAt(p)
         /\ \A p, s : Has(p, s)' <=> Has(p, s)
<1>1. Inside' = Inside
  BY SMT DEF Inside, Has, Plain, Slice, Opening, Closing
<1>2. Ignorable' = Ignorable
  BY <1>1, SMT DEF Ignorable, Block, Line, Has, Slice, Opening, Closing, PeekAt
<1> QED
  BY <1>1, <1>2 DEF Slice, Has, PeekAt

LEMMA SeqIsSeq ==
  ASSUME NEW S, NEW s \in Seq(S)
  PROVE  IsSeq(s)
<1>1. Len(s) \in Nat /\ s = [i \in 1..Len(s) |-> s[i]]
  OBVIOUS
<1> DEFINE T == {s[i] : i \in 1..Len(s)}
<1>2. s \in [1..Len(s) -> T]
  <2>1. \A i \in 1..Len(s) : s[i] \in T
    OBVIOUS
  <2> HIDE DEF T
  <2> QED
    BY <1>1, <2>1
<1> HIDE DEF T
<1>3. s \in Seq(T)
  BY <1>1, <1>2
<1> QED
  BY <1>3 DEF IsSeq, T

(* A step in which no token is returned. *)
LEMMA TileMove ==
  ASSUME TileInv, in' = in, tokens' = tokens, at' # "out",
         at' \in {"blanks", "token"} => LastEnd \in Ignorable[pos'],
         at' = "comment" => /\ LastEnd \in Ignorable[start']
                            /\ \E o : Bracketed(o, depth', start', pos'),
         at' \in Opened => LastEnd \in Ignorable[lval'.pos]
  PROVE  TileInv'
<1>1. /\ Inside' = Inside /\ Ignorable' = Ignorable /\ LastEnd' = LastEnd
      /\ \A p, q : Slice(p, q)' = Slice(p, q)
      /\ \A p, s : Has(p, s)' <=> Has(p, s)
  BY SameText DEF LastEnd
<1>2. NothingLost'
  BY <1>1 DEF TileInv, NothingLost
<1>3. (\E o : Bracketed(o, depth, start, pos))' <=> \E o : Bracketed(o, depth', start', pos')
  BY <1>1 DEF Bracketed
<1> QED
  BY <1>1, <1>2, <1>3 DEF TileInv, Opened

(* A step that returns a token. *)
LEMMA TileEmit ==
  ASSUME ScanInv, NothingLost, in' = in, NEW id, NEW p, NEW str, NEW q, Emit(id, p, str, q),
         LastEnd \in Ignorable[p],
         id \in {"CHAR", "OP"} => str = Slice(p, q) \/ str = <<Dollar>>
  PROVE  TileInv'
<1> DEFINE t == [id |-> id, pos |-> p, str |-> str, end |-> q]
           n == Len(tokens)
           From(s, i) == IF i = 1 THEN 0 ELSE s[i - 1].end
           Right(s, i) == /\ From(s, i) \in Ignorable[s[i].pos]
                          /\ s[i].id \in {"CHAR", "OP"} =>
                                s[i].str = Slice(s[i].pos, s[i].end) \/ s[i].str = <<Dollar>>
<1>1. pos' = q /\ at' = "out" /\ tokens' = Append(tokens, t)
  BY DEF Emit
<1>2. /\ t.id = id /\ t.pos = p /\ t.str = str /\ t.end = q
  OBVIOUS
<1> HIDE DEF t
<1>3. /\ n \in Nat /\ Len(tokens') = n + 1 /\ tokens'[n + 1] = t
      /\ \A i \in 1..n : tokens'[i] = tokens[i]
      /\ tokens = <<>> <=> n = 0
  <2>1. tokens \in Seq(TokenType)
    BY Facts
  <2>2. IsSeq(tokens)
    BY <2>1, SeqIsSeq
  <2>3. tokens = <<>> <=> n = 0
    BY <2>1
  <2> QED
    BY <1>1, <2>2, <2>3, AppendAny
<1>4. LastEnd = From(tokens', n + 1)
  <2>1. CASE n = 0
    BY <1>3, <2>1 DEF LastEnd
  <2>2. CASE n # 0
    <3>1. n \in 1..n /\ n + 1 # 1 /\ (n + 1) - 1 = n
      BY <1>3, <2>2
    <3>2. tokens'[(n + 1) - 1] = tokens[n]
      BY <1>3, <3>1, Zenon
    <3> QED
      BY <1>3, <2>2, <3>1, <3>2 DEF LastEnd
  <2> QED
    BY <2>1, <2>2
<1>5. /\ Ignorable' = Ignorable
      /\ \A x, y : Slice(x, y)' = Slice(x, y)
  BY SameText
<1>6. ASSUME NEW i \in 1..(n + 1) PROVE Right(tokens', i)
  <2>1. CASE i = n + 1
    BY <1>2, <1>3, <1>4, <2>1, Zenon
  <2>2. CASE i # n + 1
    <3>1. i \in 1..n /\ (i # 1 => i - 1 \in 1..n)
      BY <1>3, <2>2
    <3>2. tokens'[i] = tokens[i] /\ From(tokens', i) = From(tokens, i)
      BY <1>3, <3>1
    <3>3. Right(tokens, i)
      BY <3>1 DEF NothingLost
    <3> HIDE DEF From
    <3> QED
      BY <3>2, <3>3, Zenon
  <2> QED
    BY <2>1, <2>2
<1>7. NothingLost'
  BY <1>3, <1>5, <1>6 DEF NothingLost
<1>8. LastEnd' = q
  <2>1. tokens' # <<>>
    BY <1>3
  <2> QED
    BY <1>2, <1>3, <2>1 DEF LastEnd
<1> QED
  BY <1>1, <1>7, <1>8 DEF TileInv, Opened

LEMMA OutsideOpened ==
  /\ \A p \in {"out", "blanks", "token", "comment"} : p \notin Opened
  /\ \A p \in Opened : p \notin {"out", "blanks", "token", "comment"}
  BY DEF Opened

LEMMA ScanTile ==
  ASSUME ScanInv, TileInv, Scan
  PROVE  TileInv'
<1>1. at = "out" /\ at' = "blanks" /\ pos' = pos /\ in' = in /\ tokens' = tokens
  BY DEF Scan
<1>2. pos = LastEnd
  BY <1>1 DEF TileInv
<1>3. LastEnd \in Ignorable[pos']
  BY <1>1, <1>2, Facts, IgnorableGrows, Zenon
<1> QED
  BY <1>1, <1>3, OutsideOpened, TileMove

(* A comment to the end of the line. *)
LEMMA LineIsIgnored ==
  ASSUME in \in Text, NEW p \in 0..Len(in), PeekAt(p) = Minus, PeekAt(p + 1) = Minus
  PROVE  Line(p, LineEnd(p + 2)) /\ LineEnd(p + 2) \in 0..Len(in)
<1> DEFINE L == Len(in)
           q == SpanEnd(p + 2, Byte \ {Newline})
           j == LineEnd(p + 2)
<1>1. L \in Nat /\ p \in Nat /\ p + 1 \in Nat /\ (p + 1) + 1 = p + 2 /\ p + 2 \in Nat
  BY DEF Text
<1>2. p + 2 \in 0..L
  <2>1. (p + 1) + 1 \in 0..L
    BY <1>1, PeekIn, NotEof, Zenon
  <2> QED
    BY <1>1, <2>1
<1>3. /\ q \in (p + 2)..L
      /\ \A r \in (p + 2)..(q - 1) : PeekAt(r) \in Byte \ {Newline}
      /\ q < L => PeekAt(q) \notin Byte \ {Newline}
  BY <1>2, SpanSpec, PeekIs, Zenon
<1>4. j = IF q < L THEN q + 1 ELSE q
  BY DEF LineEnd
<1> HIDE DEF q, j
<1>5. /\ j \in (p + 2)..L /\ j \in 0..L /\ p + 2 <= j
      /\ q < L => j - 1 = q
      /\ ~(q < L) => j = L
      /\ \A k \in p..(j - 2) : k = p \/ k = p + 1 \/ k \in (p + 2)..(q - 1)
  BY <1>1, <1>3, <1>4
<1>6. q < L => PeekAt(q) = Newline
  <2>1. q \in Nat
    BY <1>1, <1>3
  <2>2. q < L => PeekAt(q) \in Byte
    BY <2>1, PeekIs, ByteFacts, Zenon
  <2> QED
    BY <1>3, <2>2, Zenon
<1>7. \A k \in p..(j - 2) : PeekAt(k) # Newline
  <2>1. Minus # Newline
    BY DEF Minus, Newline
  <2> QED
    BY <1>3, <1>5, <2>1, Zenon
<1>8. Has(p, <<Minus, Minus>>)
  BY <1>1, Marks, Zenon
<1>9. j = L \/ PeekAt(j - 1) = Newline
  BY <1>5, <1>6, Zenon
<1> QED
  BY <1>5, <1>7, <1>8, <1>9 DEF Line, j

LEMMA SkipWhitespaceTile ==
  ASSUME ScanInv, TileInv, SkipWhitespace
  PROVE  TileInv'
<1> DEFINE p == SpanEnd(pos, Blank)
           starts == PeekAt(p) = Slash /\ PeekAt(p + 1) = Star
           line == PeekAt(p) = Minus /\ PeekAt(p + 1) = Minus
<1>1. /\ at = "blanks" /\ in' = in /\ tokens' = tokens
      /\ \/ starts /\ start' = p /\ pos' = p + 2 /\ depth' = 1 /\ at' = "comment"
         \/ line /\ pos' = LineEnd(p + 2) /\ at' = at
         \/ ~starts /\ ~line /\ pos' = p /\ at' = "token"
  BY DEF SkipWhitespace
<1>2. in \in Text /\ Len(in) \in Nat /\ pos \in 0..Len(in) /\ LastEnd \in Ignorable[pos]
  BY <1>1, Facts DEF TileInv
<1>3. p \in pos..Len(in) /\ \A r \in pos..(p - 1) : PeekAt(r) \in Blank
  BY <1>2, SpanSpec, PeekIs, Zenon
<1> HIDE DEF p
<1>4. LastEnd \in Ignorable[p] /\ p \in 0..Len(in) /\ p \in Nat /\ p + 1 \in Nat
  BY <1>2, <1>3, IgnorableSpan
<1>5. CASE starts /\ start' = p /\ pos' = p + 2 /\ depth' = 1 /\ at' = "comment"
  <2> DEFINE o == [k \in 1..1 |-> p]
  <2>1. p + 2 \in 0..Len(in)
    <3>1. (p + 1) + 1 \in 0..Len(in)
      BY <1>2, <1>4, <1>5, PeekIn, NotEof, Zenon
    <3> QED
      BY <1>4, <3>1
  <2>2. Has(p, Opening) /\ p + 2 \in Inside[p + 2]
    BY <1>2, <1>4, <1>5, <2>1, Marks, InsideGrows, Zenon
  <2>3. o \in [1..1 -> Nat] /\ o[1] = p /\ \A k \in 1..1 : k = 1
    BY <1>4
  <2> HIDE DEF o
  <2>4. Bracketed(o, depth', start', pos')
    BY <1>5, <2>2, <2>3, Zenon DEF Bracketed
  <2> QED
    BY <1>1, <1>4, <1>5, <2>4, OutsideOpened, TileMove
<1>6. CASE line /\ pos' = LineEnd(p + 2) /\ at' = at
  <2>1. LastEnd \in Ignorable[pos']
    BY <1>2, <1>4, <1>6, LineIsIgnored, IgnorableGrows, Zenon
  <2> QED
    BY <1>1, <1>6, <2>1, OutsideOpened, TileMove
<1>7. CASE ~starts /\ ~line /\ pos' = p /\ at' = "token"
  BY <1>1, <1>4, <1>7, OutsideOpened, TileMove
<1> QED
  BY <1>1, <1>5, <1>6, <1>7

(* The mark that opens a comment, the one that closes one, another byte. *)
LEMMA BracketOpens ==
  ASSUME in \in Text, NEW d \in Nat \ {0}, NEW s, NEW p \in Nat, p + 2 \in 0..Len(in), NEW o,
         Bracketed(o, d, s, p), Has(p, Opening)
  PROVE  \E u : Bracketed(u, d + 1, s, p + 2)
<1> DEFINE u == [k \in 1..(d + 1) |-> IF k = d + 1 THEN p ELSE o[k]]
<1>1. /\ o \in [1..d -> Nat] /\ o[1] = s
      /\ \A k \in 1..d : Has(o[k], Opening) /\ o[k] + 2 \in Inside[IF k = d THEN p ELSE o[k + 1]]
  BY DEF Bracketed
<1>2. /\ u \in [1..(d + 1) -> Nat] /\ u[d + 1] = p
      /\ \A k \in 1..d : u[k] = o[k]
      /\ 1 \in 1..d
      /\ \A k \in 1..(d + 1) : k = d + 1 \/ (k \in 1..d /\ k # d + 1)
      /\ \A k \in 1..d : k # d => k + 1 \in 1..d
  BY <1>1
<1> HIDE DEF u
<1>3. ASSUME NEW k \in 1..d PROVE u[k + 1] = IF k = d THEN p ELSE o[k + 1]
  BY <1>2
<1>4. p + 2 \in Inside[p + 2]
  BY InsideGrows
<1>5. ASSUME NEW k \in 1..(d + 1)
      PROVE  Has(u[k], Opening) /\ u[k] + 2 \in Inside[IF k = d + 1 THEN p + 2 ELSE u[k + 1]]
  <2>1. CASE k = d + 1
    BY <1>2, <1>4, <2>1, Zenon
  <2>2. CASE k \in 1..d /\ k # d + 1
    BY <1>1, <1>2, <1>3, <2>2, Zenon
  <2> QED
    BY <1>2, <2>1, <2>2
<1>6. u[1] = s
  BY <1>1, <1>2
<1> QED
  BY <1>2, <1>5, <1>6 DEF Bracketed

LEMMA BracketGoesOn ==
  ASSUME in \in Text, NEW d \in Nat \ {0}, NEW s, NEW p \in Nat, p + 1 \in 0..Len(in), NEW o,
         Bracketed(o, d, s, p), Plain(p)
  PROVE  Bracketed(o, d, s, p + 1)
<1>1. /\ o \in [1..d -> Nat] /\ o[1] = s
      /\ \A k \in 1..d : Has(o[k], Opening) /\ o[k] + 2 \in Inside[IF k = d THEN p ELSE o[k + 1]]
  BY DEF Bracketed
<1>2. p \in 0..Len(in)
  BY DEF Text
<1>3. ASSUME NEW k \in 1..d
      PROVE  o[k] + 2 \in Inside[IF k = d THEN p + 1 ELSE o[k + 1]]
  <2>1. CASE k = d
    BY <1>1, <1>2, <2>1, InsideGrows, Zenon
  <2>2. CASE k # d
    BY <1>1, <2>2, Zenon
  <2> QED
    BY <2>1, <2>2
<1> QED
  BY <1>1, <1>3 DEF Bracketed

(* It closes the comment that was opened last. *)
LEMMA BracketCloses ==
  ASSUME in \in Text, NEW d \in Nat \ {0}, NEW s, NEW p \in Nat, p + 2 \in 0..Len(in), NEW o,
         Bracketed(o, d, s, p), Has(p, Closing)
  PROVE  /\ d = 1 => Block(s, p + 2)
         /\ d # 1 => \E u : Bracketed(u, d - 1, s, p + 2)
<1>1. /\ o \in [1..d -> Nat] /\ o[1] = s
      /\ \A k \in 1..d : Has(o[k], Opening) /\ o[k] + 2 \in Inside[IF k = d THEN p ELSE o[k + 1]]
  BY DEF Bracketed
<1>2. d \in 1..d /\ p \in 0..Len(in) /\ Len(in) \in Nat
  BY DEF Text
<1>3. Has(o[d], Opening) /\ o[d] + 2 \in Inside[p] /\ o[d] \in Nat
  BY <1>1, <1>2, Zenon
<1>4. o[d] + 2 \in 0..p
  BY <1>2, <1>3, InsideGrows, Zenon
<1>5. Block(o[d], p + 2)
  <2>1. o[d] + 4 <= p + 2 /\ (p + 2) - 2 = p
    BY <1>3, <1>4
  <2> QED
    BY <1>3, <2>1, Zenon DEF Block
<1>6. CASE d = 1
  BY <1>1, <1>5, <1>6
<1>7. CASE d # 1
  <2> DEFINE u == [k \in 1..(d - 1) |-> o[k]]
  <2>1. /\ u \in [1..(d - 1) -> Nat] /\ u[1] = s
        /\ \A k \in 1..(d - 1) : u[k] = o[k] /\ k \in 1..d /\ k # d
        /\ \A k \in 1..(d - 1) : k # d - 1 => k + 1 \in 1..(d - 1)
        /\ (d - 1) + 1 = d
    BY <1>1, <1>7
  <2> HIDE DEF u
  <2>2. ASSUME NEW k \in 1..(d - 1)
        PROVE  Has(u[k], Opening) /\ u[k] + 2 \in Inside[IF k = d - 1 THEN p + 2 ELSE u[k + 1]]
    <3>1. Has(o[k], Opening) /\ o[k] + 2 \in Inside[o[k + 1]] /\ u[k] = o[k]
      BY <1>1, <2>1, Zenon
    <3>2. CASE k = d - 1
      <4>1. o[k] + 2 \in Inside[o[d]]
        BY <2>1, <3>1, <3>2
      <4>2. o[d] \in 0..Len(in)
        BY <1>2, <1>3, <1>4
      <4>3. o[k] + 2 \in Inside[p + 2]
        BY <1>5, <4>1, <4>2, InsideGrows, Zenon
      <4> QED
        BY <3>1, <3>2, <4>3, Zenon
    <3>3. CASE k # d - 1
      BY <2>1, <3>1, <3>3, Zenon
    <3> QED
      BY <3>2, <3>3
  <2>3. Bracketed(u, d - 1, s, p + 2)
    BY <2>1, <2>2 DEF Bracketed
  <2> QED
    BY <1>7, <2>3
<1> QED
  BY <1>6, <1>7

LEMMA CommentTile ==
  ASSUME ScanInv, TileInv, Comment
  PROVE  TileInv'
<1>1. /\ at = "comment" /\ in' = in /\ start' = start
      /\ \/ Emit("ERROR", start, <<>>, pos)
         \/ /\ Peek = Star /\ PeekAt(pos + 1) = Slash /\ pos' = pos + 2 /\ depth' = depth - 1
            /\ at' = (IF depth = 1 THEN "blanks" ELSE "comment") /\ tokens' = tokens
         \/ /\ Peek = Slash /\ PeekAt(pos + 1) = Star /\ pos' = pos + 2 /\ depth' = depth + 1
            /\ at' = at /\ tokens' = tokens
         \/ /\ Peek # Eof
            /\ ~(Peek = Star /\ PeekAt(pos + 1) = Slash)
            /\ ~(Peek = Slash /\ PeekAt(pos + 1) = Star)
            /\ pos' = pos + 1 /\ depth' = depth /\ at' = at /\ tokens' = tokens
  BY DEF Comment
<1>2. /\ in \in Text /\ pos \in Nat /\ Peek = PeekAt(pos) /\ start \in 0..Len(in)
      /\ PeekAt(pos + 1) # Eof => pos + 2 \in 0..Len(in)
      /\ Peek # Eof => pos + 1 \in 0..Len(in)
  BY Facts, PeekStep
<1>3. LastEnd \in Ignorable[start] /\ NothingLost /\ \E o : Bracketed(o, depth, start, pos)
  BY <1>1 DEF TileInv
<1>4. PICK o : Bracketed(o, depth, start, pos)
  BY <1>3
<1>5. depth \in Nat \ {0}
  BY <1>1, Facts DEF Placed, Locals
<1>6. CASE Emit("ERROR", start, <<>>, pos)
  BY <1>1, <1>3, <1>6, TileEmit
<1>7. CASE /\ Peek = Star /\ PeekAt(pos + 1) = Slash /\ pos' = pos + 2 /\ depth' = depth - 1
           /\ at' = (IF depth = 1 THEN "blanks" ELSE "comment") /\ tokens' = tokens
  <2>1. pos + 2 \in 0..Len(in)
    BY <1>2, <1>7, NotEof, Zenon
  <2>2. Has(pos, Closing)
    BY <1>2, <1>7, Marks, Zenon
  <2>3. /\ depth = 1 => Block(start, pos + 2)
        /\ depth # 1 => \E u : Bracketed(u, depth - 1, start, pos + 2)
    BY <1>2, <1>4, <1>5, <2>1, <2>2, BracketCloses
  <2>4. CASE depth = 1
    <3>1. LastEnd \in Ignorable[pos']
      BY <1>2, <1>3, <1>7, <2>1, <2>3, <2>4, IgnorableGrows, Zenon
    <3>2. at' = "blanks"
      BY <1>7, <2>4
    <3> QED
      BY <1>1, <1>7, <3>1, <3>2, OutsideOpened, TileMove
  <2>5. CASE depth # 1
    <3>1. at' = "comment" /\ \E u : Bracketed(u, depth', start', pos')
      BY <1>1, <1>7, <2>3, <2>5
    <3> QED
      BY <1>1, <1>3, <1>7, <3>1, OutsideOpened, TileMove
  <2> QED
    BY <2>4, <2>5
<1>8. CASE /\ Peek = Slash /\ PeekAt(pos + 1) = Star /\ pos' = pos + 2 /\ depth' = depth + 1
           /\ at' = at /\ tokens' = tokens
  <2>1. pos + 2 \in 0..Len(in)
    BY <1>2, <1>8, NotEof, Zenon
  <2>2. Has(pos, Opening)
    BY <1>2, <1>8, Marks, Zenon
  <2>3. \E u : Bracketed(u, depth', start', pos')
    BY <1>1, <1>2, <1>4, <1>5, <1>8, <2>1, <2>2, BracketOpens
  <2> QED
    BY <1>1, <1>3, <1>8, <2>3, OutsideOpened, TileMove
<1>9. CASE /\ Peek # Eof
           /\ ~(Peek = Star /\ PeekAt(pos + 1) = Slash)
           /\ ~(Peek = Slash /\ PeekAt(pos + 1) = Star)
           /\ pos' = pos + 1 /\ depth' = depth /\ at' = at /\ tokens' = tokens
  <2>1. Plain(pos)
    BY <1>2, <1>9, Marks, Zenon DEF Plain
  <2>2. Bracketed(o, depth', start', pos')
    BY <1>1, <1>2, <1>4, <1>5, <1>9, <2>1, BracketGoesOn
  <2> QED
    BY <1>1, <1>3, <1>9, <2>2, OutsideOpened, TileMove
<1> QED
  BY <1>1, <1>6, <1>7, <1>8, <1>9

Constants == {"ICONST", "FCONST", "SCONST", "BCONST", "BITCONST"}

(* At the first byte of a token: it is returned, or the loop of its kind is *)
(* entered.                                                                *)
LEMMA TokenSteps ==
  ASSUME ScanNext, at = "token"
  PROVE  /\ in' = in
         /\ \/ \E id, str, q : /\ Emit(id, pos, str, q)
                               /\ id \in {"CHAR", "OP"} => str = Slice(pos, q)
                               /\ id \notin Constants
                               /\ id = "ERROR" => Placeholder
                               /\ id = "IDENT" => Ident
            \/ /\ tokens' = tokens /\ at' \in Opened /\ lval'.pos = pos
               /\ OpenNumber \/ OpenDollar \/ OpenLiteral
<1> DEFINE Ends == \E id, str, q : /\ Emit(id, pos, str, q)
                                   /\ id \in {"CHAR", "OP"} => str = Slice(pos, q)
                                   /\ id \notin Constants
                                   /\ id = "ERROR" => Placeholder
                                   /\ id = "IDENT" => Ident
           Goes == /\ tokens' = tokens /\ at' \in Opened /\ lval'.pos = pos
                   /\ OpenNumber \/ OpenDollar \/ OpenLiteral
<1>1. ASSUME NEW id \in {"END", "KEYWORD", "IDENT", "PLACEHOLDER", "ERROR"}, NEW str, NEW q,
             Emit(id, pos, str, q), id = "ERROR" => Placeholder, id = "IDENT" => Ident
      PROVE  Ends
  <2>1. id \notin {"CHAR", "OP"} /\ id \notin Constants
    BY DEF Constants
  <2> QED
    BY <1>1, <2>1, Zenon
<1>2. ASSUME NEW loop \in Opened, NEW n, Enter(loop, n), tokens' = tokens,
             OpenNumber \/ OpenDollar \/ OpenLiteral
      PROVE  Goes
  BY <1>2 DEF Enter
<1> SUFFICES in' = in /\ (Ends \/ Goes)
  OBVIOUS
<1> HIDE DEF Ends, Goes
<1>3. CASE End
  BY <1>1, <1>3 DEF End
<1>4. CASE Symbol
  <2> DEFINE n == OperatorLength(pos)
             q == IF n = 0 THEN pos + 1 ELSE pos + n
  <2>1. in' = in /\ Emit(IF n = 0 THEN "CHAR" ELSE "OP", pos, Slice(pos, q), q)
    BY <1>4 DEF Symbol
  <2> HIDE DEF q
  <2>2. ASSUME NEW id \in {"CHAR", "OP"}
        PROVE  id \notin Constants /\ id # "ERROR" /\ id # "IDENT"
    BY DEF Constants
  <2> QED
    BY <2>1, <2>2, Zenon DEF Ends
<1>5. CASE Ident
  <2>1. in' = in /\ \E id \in {"KEYWORD", "IDENT"} : \E str, q : Emit(id, pos, str, q)
    <3> DEFINE Some == \E id \in {"KEYWORD", "IDENT"} : \E str, q : Emit(id, pos, str, q)
    <3>1. ASSUME NEW c, NEW a, NEW b, NEW q, NEW k, NEW id,
                 IF c THEN Emit("KEYWORD", pos, a, q)
                 ELSE Emit(IF k THEN "KEYWORD" ELSE "IDENT", pos, b, q)
          PROVE  Some
      BY <3>1, Zenon
    <3> HIDE DEF Some
    <3>2. Some
      BY <1>5, <3>1, Zenon DEF Ident
    <3> QED
      BY <1>5, <3>2 DEF Ident, Some
  <2> QED
    BY <1>1, <1>5, <2>1
<1>6. CASE Placeholder
  BY <1>1, <1>6 DEF Placeholder
<1>7. CASE OpenNumber
  <2>1. "number" \in Opened
    BY DEF Opened
  <2> QED
    BY <1>2, <1>7, <2>1 DEF OpenNumber
<1>8. CASE OpenDollar
  <2>1. "dollar" \in Opened
    BY DEF Opened
  <2> QED
    BY <1>2, <1>8, <2>1 DEF OpenDollar
<1>9. CASE OpenLiteral
  <2> DEFINE loop == IF Peek = 66 THEN "bits" ELSE IF Peek \in {120, 88} THEN "hex" ELSE "string"
  <2>1. in' = in /\ tokens' = tokens /\ \E n \in 1..2 : Enter(loop, n)
    BY <1>9 DEF OpenLiteral
  <2>2. loop \in Opened
    BY DEF Opened
  <2> HIDE DEF loop
  <2> QED
    BY <1>2, <1>9, <2>1, <2>2
<1>10. \/ End \/ Symbol \/ Ident \/ Placeholder
       \/ OpenNumber \/ OpenDollar \/ OpenLiteral
  BY DEF ScanNext, SkipWhitespace, Comment, AnotherDigit, HexMark, DecimalPoint, Exponent, NumberEnd,
         HexPair, Bit, QuoteInString, Escape, StringByte, FinishLiteral,
         DollarMark, DollarByte, NotDollarQuoted, DollarUnterminated, DollarBody
<1> QED
  BY <1>3, <1>4, <1>5, <1>6, <1>7, <1>8, <1>9, <1>10

InDollars == {"dollar", "body"}

(* In a number: it goes on, or a token is returned. *)
LEMMA NumberSteps ==
  ASSUME ScanNext, at = "number"
  PROVE  /\ in' = in
         /\ \/ \E str, q : \/ Emit("ERROR", lval.pos, str, q)
                           \/ NumberEnd /\ \E id \in {"ICONST", "FCONST"} : Emit(id, lval.pos, str, q)
            \/ tokens' = tokens /\ lval' = lval /\ at' = "number"
<1> DEFINE Ends == \E str, q :
                      \/ Emit("ERROR", lval.pos, str, q)
                      \/ NumberEnd /\ \E id \in {"ICONST", "FCONST"} : Emit(id, lval.pos, str, q)
           Goes == tokens' = tokens /\ lval' = lval /\ at' = "number"
<1>1. ASSUME NEW q, Fail(q) PROVE Ends
  BY <1>1, Zenon DEF Fail
<1>2. ASSUME NEW n, Consume(n) PROVE Goes
  BY <1>2 DEF Consume
<1>3. ASSUME NEW id \in {"ICONST", "FCONST"}, NEW str, NEW q, NumberEnd, Emit(id, lval.pos, str, q) PROVE Ends
  BY <1>3, Zenon
<1> SUFFICES in' = in /\ (Ends \/ Goes)
  OBVIOUS
<1> HIDE DEF Ends, Goes
<1>4. AnotherDigit \/ HexMark \/ DecimalPoint \/ Exponent \/ NumberEnd
  BY DEF ScanNext, SkipWhitespace, Comment, End, Symbol, Ident, Placeholder,
         OpenNumber, OpenDollar, OpenLiteral,
         HexPair, Bit, QuoteInString, Escape, StringByte, FinishLiteral,
         DollarMark, DollarByte, NotDollarQuoted, DollarUnterminated, DollarBody
<1>5. CASE AnotherDigit \/ DecimalPoint
  BY <1>2, <1>5 DEF AnotherDigit, DecimalPoint, numberRest
<1>6. CASE HexMark \/ Exponent
  BY <1>1, <1>2, <1>6 DEF HexMark, Exponent, numberRest
<1>7. CASE NumberEnd
  BY <1>1, <1>3, <1>7 DEF NumberEnd, numberRest
<1> QED
  BY <1>4, <1>5, <1>6, <1>7

(* In a literal. *)
LEMMA LiteralSteps ==
  ASSUME ScanNext, at \in InLiteral \cup {"finish"}
  PROVE  /\ in' = in
         /\ \/ \E id \in Literals \cup {"ERROR"} : \E str, q : Emit(id, lval.pos, str, q)
            \/ tokens' = tokens /\ lval' = lval /\ at' \in InLiteral \cup {"finish"}
<1> DEFINE Ends == \E id \in Literals \cup {"ERROR"} : \E str, q : Emit(id, lval.pos, str, q)
           Goes == tokens' = tokens /\ lval' = lval /\ at' \in InLiteral \cup {"finish"}
           Right == in' = in /\ (Ends \/ Goes)
<1> SUFFICES Right
  OBVIOUS
<1>1. ASSUME NEW q, Refuse(q) PROVE Right
  <2>1. "ERROR" \in Literals \cup {"ERROR"} /\ in' = in /\ Emit("ERROR", lval.pos, <<>>, q)
    BY <1>1 DEF Refuse, Fail, literalRest
  <2> QED
    BY <2>1, Zenon
<1>2. ASSUME NEW c, CloseQuote(c) PROVE Right
  BY <1>2 DEF CloseQuote, literalRest
<1>3. ASSUME NEW q, NEW r, Continue(q, r) PROVE Right
  BY <1>3 DEF Continue, literalRest
<1> HIDE DEF Ends, Goes
<1>4. CASE HexPair
  <2>1. CASE \E q : Refuse(q)
    BY <1>1, <2>1
  <2>2. CASE CloseQuote(<<>>)
    BY <1>2, <2>2
  <2>3. CASE UNCHANGED <<lval, at, start, tokens, literalRest>>
    BY <2>3 DEF literalRest, Goes
  <2> QED
    BY <1>4, <2>1, <2>2, <2>3, Zenon DEF HexPair
<1>5. CASE Bit
  BY <1>1, <1>2, <1>3, <1>5, Zenon DEF Bit
<1>6. CASE QuoteInString
  BY <1>2, <1>3, <1>6, Zenon DEF QuoteInString
<1>7. CASE Escape
  BY <1>1, <1>3, <1>7, Zenon DEF Escape
<1>8. CASE StringByte
  BY <1>1, <1>3, <1>8, Zenon DEF StringByte
<1>9. CASE FinishLiteral
  <2>1. CASE Refuse(pos)
    BY <1>1, <2>1
  <2>2. CASE Emit(LiteralKind, lval.pos, LiteralValue, pos) /\ UNCHANGED literalRest
    <3>1. LiteralKind \in Literals \cup {"ERROR"} /\ in' = in
      BY <2>2 DEF LiteralKind, Literals, literalRest
    <3> QED
      BY <2>2, <3>1, Zenon DEF Ends
  <2> QED
    BY <1>9, <2>1, <2>2, Zenon DEF FinishLiteral
<1>10. HexPair \/ Bit \/ QuoteInString \/ Escape \/ StringByte \/ FinishLiteral
  BY DEF ScanNext, SkipWhitespace, Comment, End, Symbol, Ident, Placeholder,
         OpenNumber, OpenDollar, OpenLiteral,
         AnotherDigit, HexMark, DecimalPoint, Exponent, NumberEnd,
         DollarMark, DollarByte, NotDollarQuoted, DollarUnterminated, DollarBody, InLiteral
<1> QED
  BY <1>4, <1>5, <1>6, <1>7, <1>8, <1>9, <1>10

(* Between dollars. *)
LEMMA DollarSteps ==
  ASSUME ScanNext, at \in InDollars
  PROVE  /\ in' = in
         /\ \/ \E id \in {"SCONST", "ERROR"} : \E str, q : Emit(id, lval.pos, str, q)
            \/ \E q : Emit("CHAR", lval.pos, <<Dollar>>, q)
            \/ tokens' = tokens /\ lval' = lval /\ at' \in InDollars
<1>1. CASE DollarMark
  BY <1>1 DEF DollarMark, dollarRest, InDollars
<1>2. CASE DollarByte
  BY <1>2 DEF DollarByte, dollarRest, InDollars
<1>3. CASE NotDollarQuoted
  BY <1>3, Zenon DEF NotDollarQuoted, dollarRest
<1>4. CASE DollarUnterminated
  BY <1>4, Zenon DEF DollarUnterminated, dollarRest, Fail
<1>5. CASE DollarBody
  BY <1>5, Zenon DEF DollarBody, dollarRest, Fail
<1>6. DollarMark \/ DollarByte \/ NotDollarQuoted \/ DollarUnterminated \/ DollarBody
  BY DEF ScanNext, SkipWhitespace, Comment, End, Symbol, Ident, Placeholder,
         OpenNumber, OpenDollar, OpenLiteral,
         AnotherDigit, HexMark, DecimalPoint, Exponent, NumberEnd,
         HexPair, Bit, QuoteInString, Escape, StringByte, FinishLiteral, InDollars
<1> QED
  BY <1>1, <1>2, <1>3, <1>4, <1>5, <1>6

LEMMA TileStep ==
  ASSUME ScanInv, TileInv, [Scan \/ ScanNext]_scanVars
  PROVE  TileInv'
<1>1. CASE Scan
  BY <1>1, ScanTile
<1>2. CASE UNCHANGED scanVars
  <2>1. /\ in' = in /\ tokens' = tokens /\ pos' = pos /\ at' = at /\ start' = start
        /\ depth' = depth /\ lval' = lval
    BY <1>2 DEF scanVars
  <2>2. CASE at = "out"
    <3>1. NothingLost' /\ LastEnd' = LastEnd
      BY <2>1, SameText DEF TileInv, NothingLost, LastEnd
    <3> QED
      BY <2>1, <2>2, <3>1 DEF TileInv, Opened
  <2>3. CASE at # "out"
    BY <2>1, <2>3, TileMove DEF TileInv
  <2> QED
    BY <2>2, <2>3
<1>3. CASE ScanNext
  <2>1. at \in Places /\ NothingLost
    BY DEF ScanInv, TypeOK, TileInv
  <2>2. CASE at = "token"
    <3>1. LastEnd \in Ignorable[pos]
      BY <2>2 DEF TileInv
    <3>2. in' = in
      BY <1>3, <2>2, TokenSteps
    <3>3. CASE \E id, str, q : /\ Emit(id, pos, str, q)
                               /\ id \in {"CHAR", "OP"} => str = Slice(pos, q)
      BY <2>1, <3>1, <3>2, <3>3, TileEmit
    <3>4. CASE tokens' = tokens /\ at' \in Opened /\ lval'.pos = pos
      BY <3>1, <3>2, <3>4, OutsideOpened, TileMove
    <3> QED
      BY <1>3, <2>2, <3>3, <3>4, TokenSteps
  <2>3. CASE at \in Opened
    <3>1. LastEnd \in Ignorable[lval.pos]
      BY <2>3 DEF TileInv
    <3>2. at = "number" \/ at \in InLiteral \cup {"finish"} \/ at \in InDollars
      BY <2>3 DEF Opened, InLiteral, InDollars
    <3>3. /\ in' = in
          /\ \/ \E id \in {"ICONST", "FCONST", "ERROR", "SCONST", "BCONST", "BITCONST", "IDENT"} :
                   \E str, q : Emit(id, lval.pos, str, q)
             \/ \E q : Emit("CHAR", lval.pos, <<Dollar>>, q)
             \/ tokens' = tokens /\ lval' = lval /\ at' \in Opened
      <4>1. CASE at = "number"
        BY <1>3, <4>1, NumberSteps, Zenon DEF Opened
      <4>2. CASE at \in InLiteral \cup {"finish"}
        <5>1. \A p \in InLiteral \cup {"finish"} : p \in Opened
          BY DEF InLiteral, Opened
        <5>2. \A id \in Literals \cup {"ERROR"} :
                 id \in {"ICONST", "FCONST", "ERROR", "SCONST", "BCONST", "BITCONST", "IDENT"}
          BY DEF Literals
        <5> QED
          BY <1>3, <4>2, <5>1, <5>2, LiteralSteps, Zenon
      <4>3. CASE at \in InDollars
        <5>1. \A p \in InDollars : p \in Opened
          BY DEF InDollars, Opened
        <5> QED
          BY <1>3, <4>3, <5>1, DollarSteps, Zenon
      <4> QED
        BY <3>2, <4>1, <4>2, <4>3
    <3>4. CASE \E id \in {"ICONST", "FCONST", "ERROR", "SCONST", "BCONST", "BITCONST", "IDENT"} :
                  \E str, q : Emit(id, lval.pos, str, q)
      <4>1. PICK id \in {"ICONST", "FCONST", "ERROR", "SCONST", "BCONST", "BITCONST", "IDENT"} :
               \E str, q : Emit(id, lval.pos, str, q)
        BY <3>4
      <4>2. PICK str, q : Emit(id, lval.pos, str, q)
        BY <4>1
      <4>3. id \notin {"CHAR", "OP"}
        OBVIOUS
      <4> QED
        BY <2>1, <3>1, <3>3, <4>2, <4>3, TileEmit
    <3>5. CASE \E q : Emit("CHAR", lval.pos, <<Dollar>>, q)
      BY <2>1, <3>1, <3>3, <3>5, TileEmit
    <3>6. CASE tokens' = tokens /\ lval' = lval /\ at' \in Opened
      BY <3>1, <3>3, <3>6, OutsideOpened, TileMove
    <3> QED
      BY <3>3, <3>4, <3>5, <3>6
  <2>4. CASE SkipWhitespace \/ Comment
    BY <2>4, SkipWhitespaceTile, CommentTile
  <2>5. at = "token" \/ at \in Opened \/ SkipWhitespace \/ Comment
    <3>1. at # "out"
      BY <1>3, EmitOrNot
    <3>2. at \in {"blanks", "comment"} => SkipWhitespace \/ Comment
      BY <1>3 DEF ScanNext, End, Symbol, Ident, Placeholder, OpenNumber, OpenDollar, OpenLiteral,
         AnotherDigit, HexMark, DecimalPoint, Exponent, NumberEnd,
         HexPair, Bit, QuoteInString, Escape, StringByte, FinishLiteral,
         DollarMark, DollarByte, NotDollarQuoted, DollarUnterminated, DollarBody
    <3> QED
      BY <2>1, <3>1, <3>2 DEF Places, Opened
  <2> QED
    BY <2>2, <2>3, <2>4, <2>5
<1> QED
  BY <1>1, <1>2, <1>3

LEMMA TileBegins ==
  ASSUME NEW text \in Text, ScannerInit(text)
  PROVE  TileInv
<1>1. pos = 0 /\ at = "out" /\ tokens = <<>>
  BY DEF ScannerInit
<1>2. NothingLost
  <2>1. \A i \in 1..Len(tokens) : FALSE
    BY <1>1
  <2> QED
    BY <2>1, Zenon DEF NothingLost
<1> QED
  BY <1>1, <1>2 DEF TileInv, LastEnd, Opened

(* The tokens tile the text: between two there are only blanks, comments to *)
(* the end of a line and comments in brackets that nest, as Ignorable says  *)
(* by the marks and not by the scanner's loop, and a symbol is all of its   *)
(* bytes (Scan, skipWhitespace, ScanComment, scan.go:107-534).              *)
THEOREM TokensAlwaysTile ==
  ASSUME NEW text \in Text
  PROVE  ScannerSpec(text) => []TokensTile
<1>1. ScannerInit(text) => ScanInv /\ TileInv
  BY TextsBegin, TileBegins
<1>2. ScanInv /\ TileInv /\ [Scan \/ ScanNext]_scanVars => ScanInv' /\ TileInv'
  BY TextsStep, TileStep
<1>3. ScanInv /\ TileInv => TokensTile
  BY DEF ScanInv, TileInv, TokensTile, TokensInOrder
<1> QED
  BY <1>1, <1>2, <1>3, PTL DEF ScannerSpec
-----------------------------------------------------------------------------
(* What is read of a number, by the bytes of the text.                     *)

(* Bytes p to q - 1 are digits, and a point if there is one. *)
Mantissa(t, p, q, point) ==
    /\ \A k \in p..(q - 1) : ByteOf(t, k) \in Digit \cup {Dot}
    /\ point <=> \E k \in p..(q - 1) : ByteOf(t, k) = Dot
    /\ \A j, k \in p..(q - 1) : ByteOf(t, j) = Dot /\ ByteOf(t, k) = Dot => j = k

HasDigit(t, p, q) == \E k \in p..(q - 1) : ByteOf(t, k) \in Digit
AllDigits(t, p, q, C) == \A k \in p..(q - 1) : ByteOf(t, k) \in C

(* 0x and digits. *)
HexSoFar(t, p, q) ==
    /\ p + 2 <= q /\ ByteOf(t, p) = 48 /\ ByteOf(t, p + 1) \in {120, 88}
    /\ AllDigits(t, p + 2, q, HexDigit)

(* A mantissa to x, the mark of the exponent and k - 1 signs, a digit ahead. *)
Powers(t, p, x, k, q, point) ==
    /\ p < x /\ x + k <= q
    /\ Mantissa(t, p, x, point) /\ HasDigit(t, p, x)
    /\ ByteOf(t, x) \in {101, 69}
    /\ k = 2 => ByteOf(t, x + 1) \in {Plus, Minus}
    /\ ByteOf(t, x + k) \in Digit /\ AllDigits(t, x + k, q, Digit)

NumberSoFar(t, p, q, n) ==
    /\ n.hex => HexSoFar(t, p, q) /\ ~n.decimal /\ ~n.exponent
    /\ ~n.hex /\ ~n.exponent => Mantissa(t, p, q, n.decimal) /\ HasDigit(t, p, q + 1)
    /\ n.exponent => \E x \in Nat, k \in {1, 2} : Powers(t, p, x, k, q, n.decimal)

NumberInv == NumbersWellFormed /\ (at = "number" => NumberSoFar(in, start, pos, number))

LEMMA UpTo ==
  ASSUME NEW p \in Nat, NEW q \in Nat, p <= q
  PROVE  /\ \A k \in p..((q + 1) - 1) : k \in p..(q - 1) \/ k = q
         /\ \A k \in p..(q - 1) : k \in p..((q + 1) - 1)
         /\ q \in p..((q + 1) - 1)
         /\ q \notin p..(q - 1)
OBVIOUS

LEMMA NumberClasses ==
  /\ Dot \notin Digit
  /\ 120 \notin HexDigit /\ 88 \notin HexDigit
  /\ 101 \notin Digit /\ 69 \notin Digit /\ 48 \in Digit /\ 48 # Dot
  /\ Digit \cap {120, 88, 101, 69} = {} /\ Dot \notin {120, 88, 101, 69}
  /\ HexDigit \cap {120, 88} = {}
BY SMT DEF Dot, Digit, HexDigit

LEMMA MantissaDigit ==
  ASSUME NEW t, NEW p \in Nat, NEW q \in Nat, p <= q, NEW point,
         Mantissa(t, p, q, point), ByteOf(t, q) \in Digit
  PROVE  Mantissa(t, p, q + 1, point)
BY UpTo, NumberClasses, ZenonT(30) DEF Mantissa

LEMMA MantissaPoint ==
  ASSUME NEW t, NEW p \in Nat, NEW q \in Nat, p <= q,
         Mantissa(t, p, q, FALSE), ByteOf(t, q) = Dot
  PROVE  Mantissa(t, p, q + 1, TRUE)
BY UpTo, ZenonT(30) DEF Mantissa

LEMMA DigitsMore ==
  ASSUME NEW t, NEW p \in Nat, NEW q \in Nat, p <= q, NEW C
  PROVE  /\ AllDigits(t, p, q, C) /\ ByteOf(t, q) \in C => AllDigits(t, p, q + 1, C)
         /\ HasDigit(t, p, q) => HasDigit(t, p, q + 1)
         /\ ByteOf(t, q) \in Digit => HasDigit(t, p, q + 1)
         /\ HasDigit(t, p, q + 1) /\ ByteOf(t, q) \notin Digit => HasDigit(t, p, q)
         /\ AllDigits(t, q, q, C)
<1>1. \A k \in q..(q - 1) : FALSE
  OBVIOUS
<1> QED
  BY <1>1, UpTo, ZenonT(30) DEF AllDigits, HasDigit

-----------------------------------------------------------------------------
(* The parts of a text are numbers.                                        *)

(* Bytes of a part of a text. *)
LEMMA PartBytes ==
  ASSUME NEW t \in Text, NEW p \in Nat, NEW q \in 0..Len(t), p <= q
  PROVE  LET s == Part(t, p, q)
         IN  /\ s \in Text /\ Len(s) = q - p /\ Len(s) \in Nat
             /\ \A k \in p..(q - 1) : k - p + 1 \in 1..Len(s) /\ s[k - p + 1] = ByteOf(t, k)
             /\ \A i \in 1..Len(s) : p + i - 1 \in p..(q - 1) /\ s[i] = ByteOf(t, p + i - 1)
<1> DEFINE s == Part(t, p, q)
<1>1. s \in Text /\ Len(s) = q - p /\ \A i \in 1..Len(s) : s[i] = ByteOf(t, p + i - 1)
  BY PartFacts
<1>2. q \in Nat /\ p \in Nat
  BY DEF Text
<1> HIDE DEF s
<1>3. Len(s) \in Nat /\ \A i \in 1..Len(s) : p + i - 1 \in p..(q - 1)
  BY <1>1, <1>2
<1>4. ASSUME NEW k \in p..(q - 1) PROVE k - p + 1 \in 1..Len(s) /\ s[k - p + 1] = ByteOf(t, k)
  <2>1. k - p + 1 \in 1..Len(s) /\ p + (k - p + 1) - 1 = k
    BY <1>1, <1>2
  <2>2. s[k - p + 1] = ByteOf(t, p + (k - p + 1) - 1)
    BY <1>1, <2>1, Zenon
  <2> QED
    BY <2>1, <2>2
<1> QED
  BY <1>1, <1>3, <1>4 DEF s

(* A part of a part. *)
LEMMA PartOfPart ==
  ASSUME NEW t \in Text, NEW p \in Nat, NEW q \in 0..Len(t), p <= q,
         NEW a \in Nat, NEW b \in Nat, a <= b, p + b <= q
  PROVE  Part(Part(t, p, q), a, b) = Part(t, p + a, p + b)
<1> DEFINE s == Part(t, p, q)
           u == Part(s, a, b)
           v == Part(t, p + a, p + b)
<1>1. q \in Nat /\ Len(t) \in Nat /\ p + a \in Nat /\ p + b \in 0..Len(t) /\ p + a <= p + b
  BY DEF Text
<1>2. s \in Text /\ Len(s) = q - p /\ \A i \in 1..Len(s) : s[i] = ByteOf(t, p + i - 1)
  BY PartBytes
<1>3. v \in Text /\ Len(v) = (p + b) - (p + a) /\ \A i \in 1..Len(v) : v[i] = ByteOf(t, (p + a) + i - 1)
  BY <1>1, PartBytes
<1> HIDE DEF s, v
<1>4. b \in 0..Len(s)
  BY <1>1, <1>2
<1>5. u \in Text /\ Len(u) = b - a /\ \A i \in 1..Len(u) : u[i] = ByteOf(s, a + i - 1)
  BY <1>2, <1>4, PartBytes
<1> HIDE DEF u
<1>6. Len(u) = Len(v)
  BY <1>1, <1>3, <1>5
<1>7. ASSUME NEW i \in 1..Len(u) PROVE u[i] = v[i]
  <2>1. /\ a + i - 1 \in Nat /\ a + i - 1 < Len(s) /\ (a + i - 1) + 1 = a + i
        /\ a + i \in 1..Len(s) /\ p + (a + i) - 1 = (p + a) + i - 1
    BY <1>1, <1>2, <1>5
  <2>2. ByteOf(s, a + i - 1) = s[a + i]
    BY <2>1 DEF ByteOf
  <2>3. s[a + i] = ByteOf(t, p + (a + i) - 1)
    BY <1>2, <2>1, Zenon
  <2> QED
    BY <1>3, <1>5, <1>6, <1>7, <2>1, <2>2, <2>3
<1>8. u = v
  BY <1>3, <1>5, <1>6, <1>7, TextEqual
<1> QED
  BY <1>8 DEF u, v, s

LEMMA PartWithin ==
  ASSUME NEW t \in Text, NEW p \in Nat, NEW q \in 0..Len(t), NEW x \in Nat, NEW y \in Nat,
         p <= x, x <= y, y <= q
  PROVE  SubSeq(Part(t, p, q), x - p + 1, y - p) = Part(t, x, y)
<1>1. PICK a \in Nat : a = x - p
  OBVIOUS
<1>2. PICK b \in Nat : b = y - p
  OBVIOUS
<1>3. p <= q /\ a <= b /\ p + b <= q /\ p + a = x /\ p + b = y
  BY <1>1, <1>2 DEF Text
<1>4. Part(Part(t, p, q), a, b) = Part(t, x, y)
  BY <1>1, <1>2, <1>3, PartOfPart
<1>5. \A s : Part(s, a, b) = SubSeq(s, x - p + 1, y - p)
  BY <1>1, <1>2 DEF Part
<1> QED
  BY <1>4, <1>5

LEMMA PartOfBytes ==
  ASSUME NEW t \in Text, NEW q \in 0..Len(t), NEW y \in Nat, y <= q
  PROVE  /\ Len(Part(t, y, q)) = q - y
         /\ \A i \in 1..Len(Part(t, y, q)) : /\ y + i - 1 \in y..(q - 1)
                                            /\ Part(t, y, q)[i] = ByteOf(t, y + i - 1)
BY PartBytes

(* A float without an exponent. *)
LEMMA PlainFloat ==
  ASSUME NEW t \in Text, NEW p \in Nat, NEW q \in 0..Len(t), p < q,
         Mantissa(t, p, q, TRUE), HasDigit(t, p, q)
  PROVE  IsFloat(Part(t, p, q))
<1> DEFINE s == Part(t, p, q)
           n == Len(s)
           rest == SubSeq(s, n + 1, n)
           points == {i \in 1..n : s[i] = Dot}
<1>1. /\ s \in Text /\ n = q - p /\ n \in Nat
      /\ \A k \in p..(q - 1) : k - p + 1 \in 1..n /\ s[k - p + 1] = ByteOf(t, k)
      /\ \A i \in 1..n : p + i - 1 \in p..(q - 1) /\ s[i] = ByteOf(t, p + i - 1)
  BY PartBytes
<1>2. q \in Nat
  BY DEF Text
<1> HIDE DEF s
<1>3. n \in 1..n /\ s # <<>>
  BY <1>1, <1>2
<1>4. SubSeq(s, 1, n) = s /\ rest = <<>>
  BY <1>1, <1>3 DEF Text
<1> HIDE DEF n
<1>5. AllIn(s, Digit \cup {Dot})
  BY <1>1, Zenon DEF AllIn, Mantissa, n
<1>6. \E i \in 1..n : s[i] \in Digit
  BY <1>1, Zenon DEF HasDigit
<1>7. \A i, j \in points : i = j
  <2> SUFFICES ASSUME NEW i \in 1..n, NEW j \in 1..n, s[i] = Dot, s[j] = Dot PROVE i = j
    OBVIOUS
  <2>1. p + i - 1 = p + j - 1
    BY <1>1, Zenon DEF Mantissa
  <2> QED
    BY <2>1
<1>8. points # {}
  <2>1. PICK k \in p..(q - 1) : ByteOf(t, k) = Dot
    BY DEF Mantissa
  <2> QED
    BY <1>1, <2>1
<1>9. Len(s) = n
  BY DEF n
<1> HIDE DEF rest, points
<1> SUFFICES IsFloat(s)
  BY DEF s
<1> QED
  BY <1>3, <1>4, <1>5, <1>6, <1>7, <1>8, <1>9, ZenonT(40) DEF IsFloat, rest, points

(* A mantissa and an exponent. *)
LEMMA PowerFloat ==
  ASSUME NEW t \in Text, NEW p \in Nat, NEW q \in 0..Len(t), NEW point,
         NEW x \in Nat, NEW k \in {1, 2}, Powers(t, p, x, k, q, point), ByteOf(t, q) \notin Digit
  PROVE  IsFloat(Part(t, p, q))
<1> DEFINE s == Part(t, p, q)
           n == x - p
           mantissa == SubSeq(s, 1, n)
           rest == SubSeq(s, n + 1, Len(s))
           points == {i \in 1..n : mantissa[i] = Dot}
           power == SubSeq(rest, k + 1, Len(rest))
<1>1. /\ q \in Nat /\ n \in Nat /\ Len(t) \in Nat /\ p < x /\ x + k < q /\ x \in p..q /\ p < q
      /\ AllDigits(t, x + k, q, Digit) /\ Mantissa(t, p, x, point) /\ HasDigit(t, p, x)
  <2>1. x + k # q
    BY DEF Powers
  <2> QED
    BY <2>1 DEF Powers, Text
<1>0. /\ n + 1 = n + 1 /\ p + n = x /\ q - p \in Nat /\ n <= q - p /\ 0 <= n /\ p + (q - p) = q
      /\ x <= q /\ q - x \in Nat /\ x + (q - x) = q /\ k \in Nat /\ k <= q - x
      /\ x + k \in Nat /\ x + k <= q /\ p <= x /\ p <= q /\ x \in 0..Len(t) /\ 0 + 1 = 1 /\ p + 0 = p
      /\ 0 \in Nat /\ p + n <= q /\ p + (q - p) <= q /\ x + (q - x) <= q
  BY <1>1
<1> HIDE DEF n, s, mantissa, rest, points, power
<1>2. s \in Text /\ Len(s) = q - p
  BY <1>0, PartBytes DEF s
<1>3. mantissa = Part(t, p, x)
  <2>1. SubSeq(s, p - p + 1, x - p) = Part(t, p, x)
    BY <1>0, PartWithin DEF s
  <2>2. p - p + 1 = 1
    OBVIOUS
  <2> QED
    BY <2>1, <2>2 DEF mantissa, n
<1>4. rest = Part(t, x, q)
  <2>1. SubSeq(s, x - p + 1, q - p) = Part(t, x, q)
    BY <1>0, <1>1, PartWithin DEF s
  <2> QED
    BY <1>2, <2>1 DEF rest, n
<1>5. /\ Len(mantissa) = n
      /\ \A j \in p..(x - 1) : j - p + 1 \in 1..n /\ mantissa[j - p + 1] = ByteOf(t, j)
      /\ \A i \in 1..n : p + i - 1 \in p..(x - 1) /\ mantissa[i] = ByteOf(t, p + i - 1)
  BY <1>0, <1>3, PartBytes DEF n
<1>6. /\ rest \in Text /\ Len(rest) = q - x
      /\ \A j \in 1..Len(rest) : rest[j] = ByteOf(t, x + j - 1)
  BY <1>0, <1>4, PartBytes
<1>7. power = Part(t, x + k, q)
  <2>1. PICK y \in Nat : y = x + k
    BY <1>0
  <2>2. x <= y /\ y <= q /\ q \in Nat
    BY <1>0, <1>1, <2>1
  <2>3. SubSeq(Part(t, x, q), y - x + 1, q - x) = Part(t, y, q)
    BY <2>2, PartWithin
  <2>4. y - x = k
    BY <1>0, <2>1
  <2> QED
    BY <1>4, <1>6, <2>1, <2>3, <2>4 DEF power
<1>8. DecimalInteger(power)
  <2>2. /\ Len(power) = q - (x + k)
        /\ \A i \in 1..Len(power) : (x + k) + i - 1 \in (x + k)..(q - 1) /\ power[i] = ByteOf(t, (x + k) + i - 1)
    <3>1. PICK y \in Nat : y = x + k
      BY <1>0
    <3>2. /\ Len(power) = q - y
          /\ \A i \in 1..Len(power) : y + i - 1 \in y..(q - 1) /\ power[i] = ByteOf(t, y + i - 1)
      <4>1. y <= q
        BY <1>0, <3>1
      <4> QED
        BY <1>7, <3>1, <4>1, PartOfBytes, ZenonT(30)
    <3> QED
      BY <3>1, <3>2
  <2>3. power # <<>>
    BY <1>1, <1>0, <2>2
  <2>4. AllIn(power, Digit)
    BY <1>1, <2>2, Zenon DEF AllIn, AllDigits
  <2> QED
    BY <2>3, <2>4 DEF DecimalInteger
<1>20. ByteOf(t, x) \in {101, 69} /\ (k = 2 => ByteOf(t, x + 1) \in {Plus, Minus})
  BY DEF Powers
<1>9. rest # <<>> /\ rest[1] \in {101, 69} /\ (k = 2 => Len(rest) > 1 /\ rest[2] \in {Plus, Minus})
  <2>1. Len(rest) > k /\ 1 \in 1..Len(rest) /\ x + 1 - 1 = x /\ x + 2 - 1 = x + 1
    BY <1>1, <1>6
  <2>2. rest[1] = ByteOf(t, x)
    BY <1>6, <2>1, Zenon
  <2>3. k = 2 => rest[2] = ByteOf(t, x + 1)
    <3>1. k = 2 => 2 \in 1..Len(rest)
      BY <1>6, <2>1, <1>1
    <3> QED
      BY <1>6, <2>1, <3>1, Zenon
  <2>4. rest # <<>>
    BY <2>1
  <2> QED
    BY <1>20, <2>1, <2>2, <2>3, <2>4
<1>10. AllIn(mantissa, Digit \cup {Dot})
  BY <1>1, <1>5, Zenon DEF AllIn, Mantissa
<1>11. \E i \in 1..n : mantissa[i] \in Digit
  BY <1>1, <1>5, Zenon DEF HasDigit
<1>12. \A i, j \in points : i = j
  <2> SUFFICES ASSUME NEW i \in 1..n, NEW j \in 1..n, mantissa[i] = Dot, mantissa[j] = Dot PROVE i = j
    BY DEF points
  <2>1. p + i - 1 = p + j - 1
    <3>1. \A j1, k1 \in p..(x - 1) : ByteOf(t, j1) = Dot /\ ByteOf(t, k1) = Dot => j1 = k1
      BY <1>1 DEF Mantissa
    <3> QED
      BY <1>5, <3>1, ZenonT(30)
  <2>2. n \in Nat
    BY <1>1
  <2> QED
    BY <2>1, <2>2
<1>13. n \in 1..Len(s)
  BY <1>1, <1>2 DEF n
<1>14. k + 1 \in {2, 3} /\ (k + 1 = 3 => k = 2)
  OBVIOUS
<1>15. \E m \in {2, 3} : /\ m = 3 => Len(rest) > 1 /\ rest[2] \in {Plus, Minus}
                         /\ DecimalInteger(SubSeq(rest, m, Len(rest)))
  BY <1>8, <1>9, <1>14, Zenon DEF power
<1> SUFFICES IsFloat(s)
  BY DEF s
<1> QED
  BY <1>9, <1>10, <1>11, <1>12, <1>13, <1>15, ZenonT(40) DEF IsFloat, rest, mantissa, points

LEMMA HexInteger ==
  ASSUME NEW t \in Text, NEW p \in Nat, NEW q \in 0..Len(t), HexSoFar(t, p, q), q # p + 2
  PROVE  LET s == Part(t, p, q)
         IN  /\ Len(s) > 2 /\ s[1] = 48 /\ s[2] \in {120, 88}
             /\ AllIn(SubSeq(s, 3, Len(s)), HexDigit)
<1> DEFINE s == Part(t, p, q)
           rest == SubSeq(s, 3, Len(s))
<1>1. q \in Nat /\ p + 2 < q
  BY DEF HexSoFar, Text
<1>2. /\ Len(s) = q - p
      /\ \A i \in 1..Len(s) : s[i] = ByteOf(t, p + i - 1)
  <2>1. p <= q
    BY <1>1
  <2> QED
    BY <2>1, PartBytes
<1>3. rest = Part(t, p + 2, q)
  <2>1. PICK x \in Nat : x = p + 2
    OBVIOUS
  <2>2. p <= x /\ x <= q /\ q <= q
    BY <1>1, <2>1
  <2>3. SubSeq(s, x - p + 1, q - p) = Part(t, x, q)
    BY <1>1, <2>2, PartWithin
  <2>4. x - p + 1 = 3
    BY <2>1
  <2> QED
    BY <1>2, <2>1, <2>3, <2>4
<1> HIDE DEF s, rest
<1>4. AllIn(rest, HexDigit)
  <2>1. PICK x \in Nat : x = p + 2
    OBVIOUS
  <2>2. x <= q /\ rest = Part(t, x, q) /\ AllDigits(t, x, q, HexDigit)
    BY <1>1, <1>3, <2>1 DEF HexSoFar
  <2>3. \A i \in 1..Len(rest) : x + i - 1 \in x..(q - 1) /\ rest[i] = ByteOf(t, x + i - 1)
    BY <2>2, PartOfBytes
  <2> QED
    BY <2>2, <2>3, Zenon DEF AllIn, AllDigits
<1>5. Len(s) > 2 /\ s[1] = ByteOf(t, p) /\ s[2] = ByteOf(t, p + 1)
  <2>1. Len(s) > 2 /\ 1 \in 1..Len(s) /\ 2 \in 1..Len(s) /\ p + 1 - 1 = p /\ p + 2 - 1 = p + 1
    BY <1>1, <1>2
  <2>2. s[1] = ByteOf(t, p + 1 - 1) /\ s[2] = ByteOf(t, p + 2 - 1)
    BY <1>2, <2>1, Zenon
  <2> QED
    BY <2>1, <2>2
<1> QED
  BY <1>4, <1>5 DEF HexSoFar, s, rest

(* What is left of an integer without its zeros. *)
LEMMA StrippedInteger ==
  ASSUME NEW s \in Text, s # <<>>, AllIn(s, Digit)
  PROVE  LET u == StripZeros(s)
         IN  /\ DecimalInteger(u) /\ (u[1] = 48 => Len(u) = 1)
             /\ \E z \in 0..Len(s) : s = [k \in 1..z |-> 48] \o u
<1> DEFINE u == StripZeros(s)
           l == Len(s)
<1>1. PICK first \in 1..Len(s) :
         /\ StripZeros(s) = SubSeq(s, first, Len(s))
         /\ \A j \in 1..(first - 1) : s[j] = 48
         /\ first < Len(s) => s[first] # 48
  BY StripZerosIs
<1>2. PICK z \in Nat : z = first - 1
  BY <1>1 DEF Text
<1>3. l \in Nat /\ z < l /\ l \in 0..l /\ first = z + 1 /\ z \in 0..l /\ z <= l
  BY <1>1, <1>2 DEF Text
<1>4. u = Part(s, z, l)
  BY <1>1, <1>3 DEF Part
<1>5. /\ u \in Text /\ Len(u) = l - z
      /\ \A i \in 1..Len(u) : u[i] = ByteOf(s, z + i - 1)
  BY <1>3, <1>4, PartBytes
<1> HIDE DEF u, l
<1>6. \A i \in 1..Len(u) : z + i \in 1..l /\ u[i] = s[z + i]
  <2> TAKE i \in 1..Len(u)
  <2>1. z + i \in 1..l /\ z + i - 1 < Len(s) /\ (z + i - 1) + 1 = z + i
    BY <1>3, <1>5 DEF l
  <2> QED
    BY <1>5, <2>1 DEF ByteOf
<1>7. DecimalInteger(u)
  <2>1. u # <<>>
    BY <1>3, <1>5
  <2>2. AllIn(u, Digit)
    BY <1>6, Zenon DEF AllIn, l
  <2> QED
    BY <2>1, <2>2 DEF DecimalInteger
<1>8. u[1] = 48 => Len(u) = 1
  <2>1. 1 \in 1..Len(u)
    BY <1>3, <1>5
  <2>2. u[1] = s[first]
    BY <1>3, <1>6, <2>1
  <2>3. u[1] = 48 => ~(first < l)
    BY <1>1, <2>2 DEF l
  <2> QED
    BY <1>3, <1>5, <2>3
<1>9. s = [k \in 1..z |-> 48] \o u
  <2> DEFINE o == [k \in 1..z |-> 48]
             v == o \o u
  <2>1. o \in Seq(Byte) /\ Len(o) = z /\ \A k \in 1..z : o[k] = 48
    <3>1. 48 \in Byte
      BY ByteIs DEF Between
    <3>2. o \in [1..z -> Byte]
      BY <3>1
    <3> QED
      BY <1>2, <3>2
  <2> HIDE DEF o
  <2>2. v \in Text /\ Len(v) = l
    BY <1>3, <1>5, <2>1, SMTT(20) DEF Text
  <2>3. ASSUME NEW i \in 1..Len(s) PROVE s[i] = v[i]
    <3>1. CASE i <= z
      <4>1. i \in 1..(first - 1) /\ i \in 1..z
        BY <1>3, <2>3, <3>1
      <4>2. v[i] = o[i]
        BY <1>3, <1>5, <2>1, <2>3, <4>1 DEF Text
      <4> QED
        BY <1>1, <2>1, <4>1, <4>2
    <3>2. CASE ~(i <= z)
      <4>1. PICK j \in 1..Len(u) : i = z + j
        <5>1. i - z \in 1..Len(u) /\ i = z + (i - z)
          BY <1>3, <1>5, <2>3, <3>2 DEF l
        <5> QED
          BY <5>1, Zenon
      <4>2. v[i] = u[j]
        BY <1>3, <1>5, <2>1, <3>2, <4>1 DEF Text
      <4> QED
        BY <1>6, <4>1, <4>2
    <3> QED
      BY <3>1, <3>2
  <2>4. Len(s) = Len(v)
    BY <2>2 DEF l
  <2> HIDE DEF v
  <2>5. s = v
    BY <2>2, <2>3, <2>4, TextEqual
  <2> QED
    BY <2>5 DEF v, o
<1> QED
  BY <1>3, <1>7, <1>8, <1>9 DEF u, l

-----------------------------------------------------------------------------
(* Numbers, step by step.                                                  *)

(* The tokens after a token is returned. *)
LEMMA EmitTokens ==
  ASSUME ScanInv, NEW id, NEW p, NEW str, NEW q, Emit(id, p, str, q)
  PROVE  /\ at' = "out"
         /\ \A i \in 1..Len(tokens') :
               \/ tokens'[i] = [id |-> id, pos |-> p, str |-> str, end |-> q]
               \/ i \in 1..Len(tokens) /\ tokens'[i] = tokens[i]
<1> DEFINE t == [id |-> id, pos |-> p, str |-> str, end |-> q]
           n == Len(tokens)
<1>1. at' = "out" /\ tokens' = Append(tokens, t)
  BY DEF Emit
<1> HIDE DEF t
<1>2. /\ n \in Nat /\ Len(tokens') = n + 1 /\ tokens'[n + 1] = t
      /\ \A i \in 1..n : tokens'[i] = tokens[i]
  <2>1. IsSeq(tokens)
    BY Facts, SeqIsSeq
  <2> QED
    BY <1>1, <2>1, AppendAny
<1>3. ASSUME NEW i \in 1..Len(tokens')
      PROVE  tokens'[i] = t \/ (i \in 1..n /\ tokens'[i] = tokens[i])
  <2>1. i = n + 1 \/ i \in 1..n
    BY <1>2
  <2> QED
    BY <1>2, <2>1
<1> QED
  BY <1>1, <1>3 DEF t

(* What NumbersWellFormed says of one token of the text x. *)
NumberRight(x, t) ==
    LET s == t.str
        text == Part(x, t.pos, t.end)
    IN  /\ t.id = "ICONST" =>
             \/ /\ DecimalInteger(s) /\ (s[1] = 48 => Len(s) = 1)
                /\ \E z \in 0..Len(text) : text = [k \in 1..z |-> 48] \o s
             \/ /\ Len(s) > 2 /\ s[1] = 48 /\ s[2] \in {120, 88}
                /\ AllIn(SubSeq(s, 3, Len(s)), HexDigit)
                /\ text = s
        /\ t.id = "FCONST" => IsFloat(s) /\ text = s

LEMMA NumbersAre == NumbersWellFormed <=> \A i \in 1..Len(tokens) : NumberRight(in, tokens[i])
BY Zenon DEF NumbersWellFormed, NumberRight, Slice, Part

LEMMA NumbersAreNext ==
  NumbersWellFormed' <=> \A i \in 1..Len(tokens') : NumberRight(in', tokens'[i])
BY Zenon DEF NumbersWellFormed, NumberRight, Slice, Part

LEMMA NumbersEmit ==
  ASSUME ScanInv, NumberInv, in' = in, NEW id, NEW p, NEW str, NEW q, Emit(id, p, str, q),
         NumberRight(in, [id |-> id, pos |-> p, str |-> str, end |-> q])
  PROVE  NumberInv'
<1>1. /\ at' = "out"
      /\ \A i \in 1..Len(tokens') :
            \/ tokens'[i] = [id |-> id, pos |-> p, str |-> str, end |-> q]
            \/ i \in 1..Len(tokens) /\ tokens'[i] = tokens[i]
  BY EmitTokens
<1>2. \A i \in 1..Len(tokens) : NumberRight(in, tokens[i])
  BY NumbersAre DEF NumberInv
<1>3. \A i \in 1..Len(tokens') : NumberRight(in', tokens'[i])
  BY <1>1, <1>2, Zenon
<1> QED
  BY <1>1, <1>3, NumbersAreNext DEF NumberInv

LEMMA OtherEmit ==
  ASSUME ScanInv, NumberInv, in' = in, NEW id, id \notin {"ICONST", "FCONST"},
         NEW p, NEW str, NEW q, Emit(id, p, str, q)
  PROVE  NumberInv'
<1>1. NumberRight(in, [id |-> id, pos |-> p, str |-> str, end |-> q])
  BY DEF NumberRight
<1> QED
  BY <1>1, NumbersEmit

LEMMA NumbersMove ==
  ASSUME NumberInv, in' = in, tokens' = tokens,
         at' = "number" => NumberSoFar(in, start', pos', number')
  PROVE  NumberInv'
<1>1. \A i \in 1..Len(tokens') : NumberRight(in', tokens'[i])
  BY NumbersAre DEF NumberInv
<1> QED
  BY <1>1, NumbersAreNext DEF NumberInv

LEMMA NumberOpens ==
  ASSUME ScanInv, NumberInv, OpenNumber
  PROVE  NumberInv'
<1>1. /\ NumberStarts /\ in' = in /\ tokens' = tokens /\ start' = pos /\ pos' = pos + 1
      /\ number' = [hex |-> FALSE, decimal |-> Peek = Dot, exponent |-> FALSE]
  BY DEF OpenNumber, Enter
<1>2. pos \in Nat /\ Peek = ByteOf(in, pos) /\ PeekAt(pos + 1) = ByteOf(in, pos + 1)
  BY Facts, PeekIs
<1>3. \A k \in pos..((pos + 1) - 1) : k = pos
  BY <1>2
<1>4. pos \in pos..((pos + 1) - 1) /\ pos + 1 \in pos..((pos + 1 + 1) - 1) /\ pos \in pos..((pos + 1 + 1) - 1)
  BY <1>2
<1>5. Mantissa(in, pos, pos + 1, Peek = Dot)
  <2>1. Peek \in Digit \cup {Dot}
    BY <1>1 DEF NumberStarts
  <2> QED
    BY <1>2, <1>3, <1>4, <2>1, Zenon DEF Mantissa
<1>6. HasDigit(in, pos, pos + 1 + 1)
  BY <1>1, <1>2, <1>4, Zenon DEF HasDigit, NumberStarts
<1>7. NumberSoFar(in, start', pos', number')
  BY <1>1, <1>5, <1>6 DEF NumberSoFar
<1> QED
  BY <1>1, <1>7, NumbersMove

LEMMA NumberGoesOn ==
  ASSUME ScanInv, NumberInv, AnotherDigit \/ HexMark \/ DecimalPoint \/ Exponent, at' = "number"
  PROVE  NumberSoFar(in, start', pos', number')
<1> DEFINE n == number
<1>1. /\ at = "number" /\ start \in Nat /\ pos \in Nat /\ start < pos /\ start <= pos /\ start' = start
      /\ n \in [hex : BOOLEAN, decimal : BOOLEAN, exponent : BOOLEAN]
      /\ Peek = ByteOf(in, pos) /\ PeekAt(pos + 1) = ByteOf(in, pos + 1)
      /\ PeekAt(start) = ByteOf(in, start)
  <2>1. at = "number" /\ start' = start
    BY DEF AnotherDigit, HexMark, DecimalPoint, Exponent, numberRest
  <2>2. start = lval.pos /\ lval.pos < pos
    BY <2>1, Facts DEF Placed, Opened
  <2> QED
    BY <2>1, <2>2, Facts, PeekIs, NumberType
<1>2. NumberSoFar(in, start, pos, n)
  BY <1>1 DEF NumberInv
<1> HIDE DEF n
<1>3. CASE AnotherDigit
  <2>1. pos' = pos + 1 /\ number' = n /\ ByteOf(in, pos) \in IF n.hex THEN HexDigit ELSE Digit
    BY <1>1, <1>3 DEF AnotherDigit, Consume, n
  <2>2. CASE n.hex
    <3>1. HexSoFar(in, start, pos) /\ ~n.decimal /\ ~n.exponent /\ start + 2 \in Nat /\ start + 2 <= pos
      BY <1>1, <1>2, <2>2 DEF NumberSoFar, HexSoFar
    <3>2. HexSoFar(in, start, pos + 1)
      <4>1. AllDigits(in, start + 2, pos + 1, HexDigit)
        BY <1>1, <2>1, <2>2, <3>1, DigitsMore DEF HexSoFar
      <4>2. start + 2 <= pos + 1
        BY <1>1, <3>1
      <4> QED
        BY <3>1, <4>1, <4>2 DEF HexSoFar
    <3> QED
      BY <1>1, <2>1, <2>2, <3>1, <3>2 DEF NumberSoFar
  <2>3. CASE ~n.hex /\ ~n.exponent
    <3>1. Mantissa(in, start, pos, n.decimal)
      BY <1>2, <2>3 DEF NumberSoFar
    <3>2. Mantissa(in, start, pos + 1, n.decimal)
      BY <1>1, <2>1, <2>3, <3>1, MantissaDigit
    <3>3. HasDigit(in, start, pos + 1) /\ pos + 1 \in Nat /\ start <= pos + 1
      BY <1>1, <2>1, <2>3, DigitsMore
    <3>4. HasDigit(in, start, pos + 1 + 1)
      BY <1>1, <3>3, DigitsMore
    <3> QED
      BY <1>1, <2>1, <2>3, <3>2, <3>4 DEF NumberSoFar
  <2>4. CASE n.exponent
    <3>1. PICK x \in Nat, k \in {1, 2} : Powers(in, start, x, k, pos, n.decimal)
      BY <1>2, <2>4 DEF NumberSoFar
    <3>2. ~n.hex
      BY <1>2, <2>4 DEF NumberSoFar
    <3>3. x + k \in Nat /\ x + k <= pos /\ x + k <= pos + 1
      BY <1>1, <3>1 DEF Powers
    <3>4. AllDigits(in, x + k, pos, Digit)
      BY <3>1 DEF Powers
    <3>5. AllDigits(in, x + k, pos + 1, Digit)
      BY <1>1, <2>1, <3>2, <3>3, <3>4, DigitsMore
    <3>6. Powers(in, start, x, k, pos + 1, n.decimal)
      BY <3>1, <3>3, <3>5 DEF Powers
    <3> QED
      BY <1>1, <2>1, <2>4, <3>1, <3>2, <3>6 DEF NumberSoFar
  <2> QED
    BY <2>2, <2>3, <2>4
<1>4. CASE HexMark
  <2>1. /\ Peek \in {120, 88} /\ ~n.hex /\ ByteOf(in, start) = 48 /\ pos = start + 1 /\ pos' = pos + 1
        /\ number' = [n EXCEPT !.hex = TRUE]
    BY <1>1, <1>4 DEF HexMark, IsX, Fail, Emit, Consume, n
  <2>2. ~n.exponent
    <3> SUFFICES ASSUME n.exponent PROVE FALSE
      OBVIOUS
    <3>1. PICK x \in Nat, k \in {1, 2} : Powers(in, start, x, k, pos, n.decimal)
      BY <1>2 DEF NumberSoFar
    <3>2. start < x /\ x + k <= pos
      BY <3>1 DEF Powers
    <3> QED
      BY <1>1, <2>1, <3>1, <3>2
  <2>3. ~n.decimal
    <3>1. Mantissa(in, start, pos, n.decimal)
      BY <1>2, <2>1, <2>2 DEF NumberSoFar
    <3>2. \A k \in start..(pos - 1) : k = start
      BY <1>1, <2>1
    <3> QED
      BY <2>1, <3>1, <3>2, NumberClasses DEF Mantissa
  <2>4. HexSoFar(in, start, pos + 1)
    <3>1. start + 2 = pos + 1 /\ start + 1 = pos /\ start + 2 <= pos + 1
      BY <1>1, <2>1
    <3>2. AllDigits(in, pos + 1, pos + 1, HexDigit)
      <4>1. \A k \in (pos + 1)..((pos + 1) - 1) : FALSE
        BY <1>1
      <4> QED
        BY <4>1, Zenon DEF AllDigits
    <3> QED
      BY <1>1, <2>1, <3>1, <3>2 DEF HexSoFar
  <2>5. number'.hex /\ ~number'.decimal /\ ~number'.exponent
    BY <1>1, <2>1, <2>2, <2>3
  <2> QED
    BY <1>1, <2>1, <2>4, <2>5 DEF NumberSoFar
<1>5. CASE DecimalPoint
  <2>1. /\ ~n.hex /\ ~n.decimal /\ ~n.exponent /\ ByteOf(in, pos) = Dot /\ pos' = pos + 1
        /\ number' = [n EXCEPT !.decimal = TRUE]
    BY <1>1, <1>5 DEF DecimalPoint, PointFollows, Consume, n
  <2>2. number'.decimal = TRUE /\ number'.hex = FALSE /\ number'.exponent = FALSE
    BY <1>1, <2>1
  <2>3. Mantissa(in, start, pos, FALSE) /\ HasDigit(in, start, pos + 1)
    <3>1. n.decimal = FALSE
      BY <1>1, <2>1
    <3> QED
      BY <1>2, <2>1, <3>1 DEF NumberSoFar
  <2>4. Mantissa(in, start, pos + 1, TRUE)
    BY <1>1, <2>1, <2>3, MantissaPoint
  <2>5. HasDigit(in, start, pos + 1 + 1)
    <3>1. pos + 1 \in Nat /\ start <= pos + 1
      BY <1>1
    <3> QED
      BY <1>1, <2>3, <3>1, DigitsMore
  <2> QED
    BY <1>1, <2>1, <2>2, <2>4, <2>5 DEF NumberSoFar
<1>6. CASE Exponent
  <2> DEFINE k == IF PeekAt(pos + 1) \in {Minus, Plus} THEN 2 ELSE 1
  <2>1. /\ ~n.hex /\ ~n.exponent /\ ByteOf(in, pos) \in {101, 69} /\ pos' = pos + k
        /\ PeekAt(pos + k) \in Digit
        /\ number' = [n EXCEPT !.exponent = TRUE]
    BY <1>1, <1>6 DEF Exponent, IsE, Fail, Emit, Consume, n
  <2>2. k \in {1, 2} /\ (k = 2 => ByteOf(in, pos + 1) \in {Plus, Minus})
    BY <1>1
  <2> HIDE DEF k
  <2>3. number'.decimal = n.decimal /\ number'.hex = FALSE /\ number'.exponent = TRUE
    BY <1>1, <2>1
  <2>4. Mantissa(in, start, pos, n.decimal) /\ HasDigit(in, start, pos + 1)
    BY <1>2, <2>1 DEF NumberSoFar
  <2>5. ByteOf(in, pos) \notin Digit
    BY <2>1, NumberClasses
  <2>6. HasDigit(in, start, pos)
    BY <1>1, <2>4, <2>5, DigitsMore
  <2>7. pos + k \in Nat /\ pos + k <= pos + k
    BY <1>1, <2>2
  <2>8. AllDigits(in, pos + k, pos + k, Digit)
    BY <2>7, DigitsMore
  <2>9. ByteOf(in, pos + k) \in Digit
    BY <2>1, PeekIs
  <2>10. Powers(in, start, pos, k, pos + k, n.decimal)
    BY <1>1, <2>1, <2>2, <2>4, <2>6, <2>7, <2>8, <2>9 DEF Powers
  <2> QED
    BY <1>1, <2>1, <2>2, <2>3, <2>10 DEF NumberSoFar
<1> QED
  BY <1>3, <1>4, <1>5, <1>6

(* Where the scanner is when it takes a step. *)
LEMMA WhereNext ==
  ASSUME ScanInv, ScanNext
  PROVE  SkipWhitespace \/ Comment \/ at = "token" \/ at = "number" \/ at \in InLiteral \cup {"finish"}
         \/ at \in InDollars
<1>1. CASE End \/ Symbol \/ Ident \/ Placeholder \/ OpenNumber \/ OpenDollar \/ OpenLiteral
  BY <1>1 DEF End, Symbol, Ident, Placeholder, OpenNumber, OpenDollar, OpenLiteral
<1>2. CASE AnotherDigit \/ HexMark \/ DecimalPoint \/ Exponent \/ NumberEnd
  BY <1>2 DEF AnotherDigit, HexMark, DecimalPoint, Exponent, NumberEnd
<1>3. CASE HexPair \/ Bit \/ QuoteInString \/ Escape \/ StringByte \/ FinishLiteral
  BY <1>3 DEF HexPair, Bit, QuoteInString, Escape, StringByte, FinishLiteral, InLiteral
<1>4. CASE DollarMark \/ DollarByte \/ NotDollarQuoted \/ DollarUnterminated \/ DollarBody
  BY <1>4 DEF DollarMark, DollarByte, NotDollarQuoted, DollarUnterminated, DollarBody, InDollars
<1> QED
  BY <1>1, <1>2, <1>3, <1>4 DEF ScanNext

LEMMA NumberActions ==
  ASSUME ScanNext, at = "number"
  PROVE  AnotherDigit \/ HexMark \/ DecimalPoint \/ Exponent \/ NumberEnd
BY DEF ScanNext, SkipWhitespace, Comment, End, Symbol, Ident, Placeholder,
       OpenNumber, OpenDollar, OpenLiteral,
       HexPair, Bit, QuoteInString, Escape, StringByte, FinishLiteral,
       DollarMark, DollarByte, NotDollarQuoted, DollarUnterminated, DollarBody

LEMMA NumberEnds ==
  ASSUME ScanInv, NumberInv, NumberEnd
  PROVE  NumberInv'
<1> DEFINE s == Slice(start, pos)
           n == number
<1>1. /\ at = "number" /\ start = lval.pos /\ start \in Nat /\ pos \in 0..Len(in) /\ start < pos
      /\ in' = in /\ in \in Text /\ n \in [hex : BOOLEAN, decimal : BOOLEAN, exponent : BOOLEAN]
      /\ s = Part(in, start, pos) /\ pos \in Nat
      /\ ByteOf(in, pos) \notin IF n.hex THEN HexDigit ELSE Digit
  <2>1. at = "number" /\ in' = in /\ Peek \notin IF n.hex THEN HexDigit ELSE Digit
    BY DEF NumberEnd, numberRest
  <2>2. start = lval.pos /\ lval.pos < pos
    BY <2>1, Facts DEF Placed, Opened
  <2> QED
    BY <2>1, <2>2, Facts, PeekIs, NumberType
<1>2. NumberSoFar(in, start, pos, n)
  BY <1>1 DEF NumberInv
<1>3. IF n.decimal \/ n.exponent THEN Emit("FCONST", lval.pos, s, pos)
      ELSE IF n.hex /\ pos = start + 2 THEN Fail(pos)
      ELSE Emit("ICONST", lval.pos, IF n.hex THEN s ELSE StripZeros(s), pos)
  BY DEF NumberEnd
<1> HIDE DEF s, n
<1>4. CASE n.exponent
  <2>1. ~n.hex /\ \E x \in Nat, k \in {1, 2} : Powers(in, start, x, k, pos, n.decimal)
    BY <1>2, <1>4 DEF NumberSoFar
  <2>2. ByteOf(in, pos) \notin Digit
    BY <1>1, <2>1
  <2>3. IsFloat(s)
    BY <1>1, <2>1, <2>2, PowerFloat
  <2>4. NumberRight(in, [id |-> "FCONST", pos |-> lval.pos, str |-> s, end |-> pos])
    BY <1>1, <2>3 DEF NumberRight
  <2>5. Emit("FCONST", lval.pos, s, pos)
    BY <1>3, <1>4
  <2> QED
    BY <1>1, <2>4, <2>5, NumbersEmit
<1>5. CASE ~n.exponent /\ ~n.hex
  <2>1. Mantissa(in, start, pos, n.decimal) /\ HasDigit(in, start, pos + 1)
    BY <1>2, <1>5 DEF NumberSoFar
  <2>2. HasDigit(in, start, pos)
    <3>1. ByteOf(in, pos) \notin Digit /\ start <= pos
      BY <1>1, <1>5
    <3> QED
      BY <1>1, <2>1, <3>1, DigitsMore
  <2>3. CASE n.decimal
    <3>1. IsFloat(s)
      <4>1. Mantissa(in, start, pos, TRUE)
        BY <1>1, <2>1, <2>3
      <4> QED
        BY <1>1, <2>2, <4>1, PlainFloat
    <3>2. NumberRight(in, [id |-> "FCONST", pos |-> lval.pos, str |-> s, end |-> pos])
      BY <1>1, <3>1 DEF NumberRight
    <3>3. Emit("FCONST", lval.pos, s, pos)
      BY <1>3, <2>3
    <3> QED
      BY <1>1, <3>2, <3>3, NumbersEmit
  <2>4. CASE ~n.decimal
    <3>1. s \in Text /\ s # <<>> /\ AllIn(s, Digit)
      <4>1. /\ s \in Text /\ Len(s) = pos - start
            /\ \A i \in 1..Len(s) : start + i - 1 \in start..(pos - 1) /\ s[i] = ByteOf(in, start + i - 1)
        <5>1. start <= pos /\ pos <= pos
          BY <1>1
        <5>2. Part(in, start, pos) \in Text
          BY <1>1, PartFacts
        <5>3. start \in Nat /\ pos \in 0..Len(in) /\ in \in Text /\ start <= pos /\ s = Part(in, start, pos)
          BY <1>1, <5>1
        <5>4. /\ Len(Part(in, start, pos)) = pos - start
              /\ \A i \in 1..Len(Part(in, start, pos)) :
                    /\ start + i - 1 \in start..(pos - 1)
                    /\ Part(in, start, pos)[i] = ByteOf(in, start + i - 1)
          BY <5>3, PartOfBytes, Zenon
        <5> QED
          BY <5>2, <5>3, <5>4, Zenon
      <4>2. s # <<>>
        BY <1>1, <4>1
      <4>3. \A k \in start..(pos - 1) : ByteOf(in, k) \in Digit
        BY <2>1, <2>4, Zenon DEF Mantissa
      <4>4. AllIn(s, Digit)
        BY <4>1, <4>3, Zenon DEF AllIn
      <4> QED
        BY <4>1, <4>2, <4>4
    <3> DEFINE u == StripZeros(s)
               t == [id |-> "ICONST", pos |-> lval.pos, str |-> u, end |-> pos]
    <3>2. /\ DecimalInteger(u) /\ (u[1] = 48 => Len(u) = 1)
          /\ \E z \in 0..Len(s) : s = [k \in 1..z |-> 48] \o u
      BY <3>1, StrippedInteger
    <3>3. Emit("ICONST", lval.pos, u, pos)
      BY <1>3, <1>5, <2>4
    <3> HIDE DEF u
    <3>4. t.id = "ICONST" /\ t.str = u /\ Part(in, t.pos, t.end) = s
      BY <1>1
    <3> HIDE DEF t
    <3>5. NumberRight(in, t)
      BY <3>2, <3>4, Zenon DEF NumberRight
    <3> QED
      BY <1>1, <3>3, <3>5, NumbersEmit DEF t
  <2> QED
    BY <2>3, <2>4
<1>6. CASE ~n.exponent /\ n.hex
  <2>1. HexSoFar(in, start, pos) /\ ~n.decimal
    BY <1>2, <1>6 DEF NumberSoFar
  <2>2. CASE pos = start + 2
    <3>1. Emit("ERROR", lval.pos, <<>>, pos)
      BY <1>3, <1>6, <2>1, <2>2 DEF Fail
    <3> QED
      BY <1>1, <3>1, OtherEmit
  <2>3. CASE pos # start + 2
    <3> DEFINE t == [id |-> "ICONST", pos |-> lval.pos, str |-> s, end |-> pos]
    <3>1. /\ Len(s) > 2 /\ s[1] = 48 /\ s[2] \in {120, 88}
          /\ AllIn(SubSeq(s, 3, Len(s)), HexDigit)
      BY <1>1, <2>1, <2>3, HexInteger
    <3>2. Emit("ICONST", lval.pos, s, pos)
      BY <1>3, <1>6, <2>1, <2>3
    <3>3. t.id = "ICONST" /\ t.str = s /\ Part(in, t.pos, t.end) = s
      BY <1>1
    <3> HIDE DEF t
    <3>4. NumberRight(in, t)
      BY <3>1, <3>3, Zenon DEF NumberRight
    <3> QED
      BY <1>1, <3>2, <3>4, NumbersEmit DEF t
  <2> QED
    BY <2>2, <2>3
<1> QED
  BY <1>4, <1>5, <1>6

LEMMA NumbersStep ==
  ASSUME ScanInv, NumberInv, [Scan \/ ScanNext]_scanVars
  PROVE  NumberInv'
<1>1. CASE Scan
  <2>1. in' = in /\ tokens' = tokens /\ at' # "number"
    BY <1>1 DEF Scan
  <2> QED
    BY <2>1, NumbersMove
<1>2. CASE UNCHANGED scanVars
  <2>1. /\ in' = in /\ tokens' = tokens /\ pos' = pos /\ at' = at /\ start' = start /\ number' = number
    BY <1>2 DEF scanVars
  <2> QED
    BY <2>1, NumbersMove DEF NumberInv
<1>3. CASE ScanNext
  <2>1. CASE SkipWhitespace
    <3>1. in' = in /\ tokens' = tokens /\ at' # "number"
      BY <2>1 DEF SkipWhitespace
    <3> QED
      BY <3>1, NumbersMove
  <2>2. CASE Comment
    <3>1. in' = in /\ (Emit("ERROR", start, <<>>, pos) \/ (tokens' = tokens /\ at' # "number"))
      BY <2>2 DEF Comment
    <3> QED
      BY <3>1, OtherEmit, NumbersMove
  <2>3. CASE at = "token"
    <3>1. in' = in
      BY <1>3, <2>3, TokenSteps
    <3>2. ASSUME NEW id, NEW str, NEW q, Emit(id, pos, str, q), id \notin Constants PROVE NumberInv'
      BY <3>1, <3>2, OtherEmit DEF Constants
    <3>3. CASE OpenNumber
      BY <3>3, NumberOpens
    <3>4. CASE OpenDollar \/ OpenLiteral
      <4>1. tokens' = tokens /\ at' # "number"
        BY <3>4 DEF OpenDollar, OpenLiteral, Enter
      <4> QED
        BY <3>1, <4>1, NumbersMove
    <3> QED
      BY <1>3, <2>3, <3>2, <3>3, <3>4, TokenSteps, Zenon
  <2>4. CASE at = "number"
    <3>1. in' = in
      BY <1>3, <2>4, NumberSteps
    <3>2. CASE \E str, q : Emit("ERROR", lval.pos, str, q)
      BY <3>1, <3>2, OtherEmit
    <3>3. CASE NumberEnd
      BY <3>3, NumberEnds
    <3>4. CASE tokens' = tokens /\ at' = "number" /\ ~NumberEnd
      <4>1. AnotherDigit \/ HexMark \/ DecimalPoint \/ Exponent
        BY <1>3, <2>4, <3>4, NumberActions
      <4> QED
        BY <3>1, <3>4, <4>1, NumberGoesOn, NumbersMove
    <3> QED
      BY <1>3, <2>4, <3>2, <3>3, <3>4, NumberSteps, Zenon
  <2>5. CASE at \in InLiteral \cup {"finish"}
    <3>1. \A p \in InLiteral \cup {"finish"} : p # "number"
      BY DEF InLiteral
    <3>2. \A id \in Literals \cup {"ERROR"} : id \notin {"ICONST", "FCONST"}
      BY DEF Literals
    <3>3. /\ in' = in
          /\ \/ \E id \in Literals \cup {"ERROR"} : \E str, q : Emit(id, lval.pos, str, q)
             \/ tokens' = tokens /\ lval' = lval /\ at' \in InLiteral \cup {"finish"}
      BY <1>3, <2>5, LiteralSteps
    <3> QED
      BY <3>1, <3>2, <3>3, OtherEmit, NumbersMove
  <2>6. CASE at \in InDollars
    <3>1. \A p \in InDollars : p # "number"
      BY DEF InDollars
    <3>2. /\ in' = in
          /\ \/ \E id \in {"SCONST", "ERROR"} : \E str, q : Emit(id, lval.pos, str, q)
             \/ \E q : Emit("CHAR", lval.pos, <<Dollar>>, q)
             \/ tokens' = tokens /\ lval' = lval /\ at' \in InDollars
      BY <1>3, <2>6, DollarSteps
    <3>3. CASE \E id \in {"SCONST", "ERROR"} : \E str, q : Emit(id, lval.pos, str, q)
      BY <3>2, <3>3, OtherEmit
    <3>4. CASE \E q : Emit("CHAR", lval.pos, <<Dollar>>, q)
      BY <3>2, <3>4, OtherEmit
    <3> QED
      BY <3>1, <3>2, <3>3, <3>4, NumbersMove
  <2> QED
    BY <1>3, <2>1, <2>2, <2>3, <2>4, <2>5, <2>6, WhereNext
<1> QED
  BY <1>1, <1>2, <1>3

LEMMA NumbersBegin ==
  ASSUME NEW text \in Text, ScannerInit(text)
  PROVE  NumberInv
<1>1. at = "out" /\ tokens = <<>>
  BY DEF ScannerInit
<1>2. \A i \in 1..Len(tokens) : FALSE
  BY <1>1
<1>3. NumbersWellFormed
  BY <1>2, Zenon DEF NumbersWellFormed
<1> QED
  BY <1>1, <1>3 DEF NumberInv

(* For every text: what go/constant is given as an integer is decimal       *)
(* without leading zeros, or hexadecimal, and what it is given as a float   *)
(* is one; and both are the text but for those zeros (scanNumber,           *)
(* scan.go:618-704).                                                       *)
THEOREM NumbersAlwaysWellFormed ==
  ASSUME NEW text \in Text
  PROVE  ScannerSpec(text) => []NumbersWellFormed
<1>1. ScannerInit(text) => ScanInv /\ NumberInv
  BY TextsBegin, NumbersBegin
<1>2. ScanInv /\ NumberInv /\ [Scan \/ ScanNext]_scanVars => ScanInv' /\ NumberInv'
  BY TextsStep, NumbersStep
<1>3. NumberInv => NumbersWellFormed
  BY DEF NumberInv
<1> QED
  BY <1>1, <1>2, <1>3, PTL DEF ScannerSpec
-----------------------------------------------------------------------------
(* Strings in dollars, by the bytes of the text.  The opening tag is at d,  *)
(* with n bytes between its dollars.                                       *)

NoDollar(x, p, q) == \A k \in p..(q - 1) : ByteOf(x, k) # Dollar

TagAt(x, d, n) ==
    /\ ByteOf(x, d) = Dollar /\ ByteOf(x, d + n + 1) = Dollar
    /\ NoDollar(x, d + 1, d + n + 1)

(* The bytes from p to q - 1 are how the tag begins. *)
Meets(x, d, p, q) == \A k \in p..(q - 1) : ByteOf(x, k) = ByteOf(x, d + (k - p))

(* The tag is at p. *)
Again(x, d, n, p) == Meets(x, d, p, p + n + 2)

(* At q the tag was not met again, and m bytes after a dollar may be it. *)
NotAgain(x, d, n, q, m) ==
    /\ \A p \in (d + n + 2)..(q - 1) :
          (q - p <= n + 1 /\ Meets(x, d, p, q)) <=> m = q - p - 1
    /\ \A p \in (d + n + 2)..(q - n - 2) : ~Again(x, d, n, p)

LEMMA MeetsMore ==
  ASSUME NEW x, NEW d \in Nat, NEW p \in Nat, NEW q \in Nat, p <= q
  PROVE  Meets(x, d, p, q + 1) <=> Meets(x, d, p, q) /\ ByteOf(x, q) = ByteOf(x, d + (q - p))
BY UpTo, ZenonT(30) DEF Meets

LEMMA MeetsFirst ==
  ASSUME NEW x, NEW d \in Nat, NEW p \in Nat, NEW q \in Nat, p < q, Meets(x, d, p, q)
  PROVE  ByteOf(x, p) = ByteOf(x, d)
<1>1. p \in p..(q - 1) /\ d + (p - p) = d
  OBVIOUS
<1> QED
  BY <1>1, Zenon DEF Meets

(* After the tag nothing was met. *)
LEMMA NotAgainBegins ==
  ASSUME NEW x, NEW d \in Nat, NEW n \in Nat
  PROVE  NotAgain(x, d, n, d + n + 2, Eof)
<1>1. /\ \A p \in (d + n + 2)..((d + n + 2) - 1) : FALSE
      /\ \A p \in (d + n + 2)..((d + n + 2) - n - 2) : FALSE
  OBVIOUS
<1> QED
  BY <1>1, Zenon DEF NotAgain

(* Another byte, that is no dollar. *)
LEMMA ByteNotAgain ==
  ASSUME NEW x, NEW d \in Nat, NEW n \in Nat, NEW q \in Nat, NEW m \in {Eof} \cup 0..n,
         NEW r \in Int, TagAt(x, d, n), d + n + 2 <= q, NotAgain(x, d, n, q, m),
         ByteOf(x, q) # Dollar,
         r = IF m # Eof /\ m < n /\ ByteOf(x, q) = ByteOf(x, d + (m + 1)) THEN m + 1 ELSE Eof
  PROVE  NotAgain(x, d, n, q + 1, r)
<1>1. ASSUME NEW p \in (d + n + 2)..((q + 1) - 1)
      PROVE  ((q + 1) - p <= n + 1 /\ Meets(x, d, p, q + 1)) <=> r = (q + 1) - p - 1
  <2>1. p \in Nat /\ p <= q
    OBVIOUS
  <2>2. CASE p = q
    <3>1. ~Meets(x, d, p, q + 1)
      <4>1. q < q + 1 /\ q + 1 \in Nat
        OBVIOUS
      <4>2. Meets(x, d, q, q + 1) => ByteOf(x, q) = ByteOf(x, d)
        BY <4>1, MeetsFirst
      <4> QED
        BY <2>2, <4>2 DEF TagAt
    <3>2. r # 0
      BY DEF Eof
    <3> QED
      BY <2>2, <3>1, <3>2
  <2>3. CASE p # q
    <3>1. p \in (d + n + 2)..(q - 1)
      BY <2>1, <2>3
    <3>2. (q - p <= n + 1 /\ Meets(x, d, p, q)) <=> m = q - p - 1
      BY <3>1 DEF NotAgain
    <3>3. Meets(x, d, p, q + 1) <=> Meets(x, d, p, q) /\ ByteOf(x, q) = ByteOf(x, d + (q - p))
      BY <2>1, MeetsMore
    <3>4. m = q - p - 1 => d + (q - p) = d + (m + 1)
      BY <2>1 DEF Eof
    <3>5. CASE m = q - p - 1
      <4>1. d + (q - p) = d + (m + 1) /\ m # Eof
        BY <2>1, <2>3, <3>5 DEF Eof
      <4>2. (q + 1) - p <= n + 1 <=> m < n
        BY <2>1, <3>5 DEF Eof
      <4>3. (q + 1) - p - 1 = m + 1 /\ m + 1 # Eof
        BY <2>1, <3>5, <4>1 DEF Eof
      <4> QED
        BY <3>2, <3>3, <3>5, <4>1, <4>2, <4>3
    <3>6. CASE m # q - p - 1
      <4>1. (q + 1) - p <= n + 1 => q - p <= n + 1
        BY <2>1
      <4>2. r # (q + 1) - p - 1
        BY <2>1, <2>3, <3>6 DEF Eof
      <4> QED
        BY <3>2, <3>3, <3>6, <4>1, <4>2
    <3> QED
      BY <3>5, <3>6
  <2> QED
    BY <2>2, <2>3
<1>2. ASSUME NEW p \in (d + n + 2)..((q + 1) - n - 2) PROVE ~Again(x, d, n, p)
  <2>1. CASE p = (q + 1) - n - 2
    <3>1. p \in Nat /\ p + n + 2 = q + 1 /\ d + (q - p) = d + n + 1 /\ p <= q
      BY <2>1
    <3>2. Again(x, d, n, p) => ByteOf(x, q) = ByteOf(x, d + n + 1)
      BY <3>1, MeetsMore DEF Again
    <3> QED
      BY <3>2 DEF TagAt
  <2>2. CASE p # (q + 1) - n - 2
    <3>1. p \in (d + n + 2)..(q - n - 2)
      BY <2>2
    <3> QED
      BY <3>1 DEF NotAgain
  <2> QED
    BY <2>1, <2>2
<1> QED
  BY <1>1, <1>2 DEF NotAgain

(* A dollar that does not end the tag may begin it. *)
LEMMA MarkNotAgain ==
  ASSUME NEW x, NEW d \in Nat, NEW n \in Nat, NEW q \in Nat, NEW m \in {Eof} \cup 0..n,
         TagAt(x, d, n), d + n + 2 <= q, NotAgain(x, d, n, q, m), ByteOf(x, q) = Dollar, m # n
  PROVE  NotAgain(x, d, n, q + 1, 0)
<1>1. ASSUME NEW p \in (d + n + 2)..((q + 1) - 1)
      PROVE  ((q + 1) - p <= n + 1 /\ Meets(x, d, p, q + 1)) <=> 0 = (q + 1) - p - 1
  <2>1. p \in Nat /\ p <= q
    OBVIOUS
  <2>2. Meets(x, d, p, q + 1) <=> Meets(x, d, p, q) /\ ByteOf(x, q) = ByteOf(x, d + (q - p))
    BY <2>1, MeetsMore
  <2>3. CASE p = q
    <3>1. Meets(x, d, p, q)
      <4>1. \A k \in p..(q - 1) : FALSE
        BY <2>1, <2>3
      <4> QED
        BY <4>1, Zenon DEF Meets
    <3>2. d + (q - p) = d /\ (q + 1) - p <= n + 1 /\ 0 = (q + 1) - p - 1
      BY <2>3
    <3> QED
      BY <2>2, <3>1, <3>2 DEF TagAt
  <2>4. CASE p # q
    <3>1. (q + 1) - p <= n + 1 => d + (q - p) \in (d + 1)..((d + n + 1) - 1)
      BY <2>1, <2>4
    <3>2. (q + 1) - p <= n + 1 => ByteOf(x, d + (q - p)) # Dollar
      BY <3>1, Zenon DEF TagAt, NoDollar
    <3>3. 0 # (q + 1) - p - 1
      BY <2>1, <2>4
    <3> QED
      BY <2>2, <3>2, <3>3
  <2> QED
    BY <2>3, <2>4
<1>2. ASSUME NEW p \in (d + n + 2)..((q + 1) - n - 2) PROVE ~Again(x, d, n, p)
  <2>1. CASE p = (q + 1) - n - 2
    <3>1. p \in Nat /\ p + n + 2 = q + 1 /\ p <= q /\ p \in (d + n + 2)..(q - 1) /\ q - p <= n + 1
          /\ q - p - 1 = n
      BY <2>1
    <3>2. Again(x, d, n, p) => Meets(x, d, p, q)
      BY <3>1, MeetsMore DEF Again
    <3> QED
      BY <3>1, <3>2 DEF NotAgain
  <2>2. CASE p # (q + 1) - n - 2
    <3>1. p \in (d + n + 2)..(q - n - 2)
      BY <2>2
    <3> QED
      BY <3>1 DEF NotAgain
  <2> QED
    BY <2>1, <2>2
<1> QED
  BY <1>1, <1>2 DEF NotAgain

(* A dollar that ends it: this is where the tag is first met again. *)
LEMMA MarkAgain ==
  ASSUME NEW x, NEW d \in Nat, NEW n \in Nat, NEW q \in Nat,
         TagAt(x, d, n), d + 2 * n + 3 <= q, NotAgain(x, d, n, q, n), ByteOf(x, q) = Dollar
  PROVE  /\ Again(x, d, n, q - n - 1)
         /\ \A p \in (d + n + 2)..(q - n - 2) : ~Again(x, d, n, p)
<1> DEFINE p == q - n - 1
<1>1. p \in Nat /\ p + n + 2 = q + 1 /\ p <= q /\ p \in (d + n + 2)..(q - 1) /\ n = q - p - 1
      /\ d + (q - p) = d + n + 1
  OBVIOUS
<1>2. Meets(x, d, p, q)
  BY <1>1 DEF NotAgain
<1>3. Again(x, d, n, p)
  BY <1>1, <1>2, MeetsMore DEF Again, TagAt
<1> QED
  BY <1>3 DEF NotAgain

-----------------------------------------------------------------------------
(* What DollarEndsAtFirstTag says of one token of the text x.              *)

MarksOf(x, t)   == {p \in (t.pos + 1)..(t.end - 1) : ByteOf(x, p) = Dollar}
OpenOf(x, t)    == CHOOSE p \in MarksOf(x, t) : \A q \in MarksOf(x, t) : p <= q
QuotedOf(x, t)  == Part(x, t.pos, OpenOf(x, t) + 1)
Occurs(x, p, s) == p + Len(s) <= Len(x) /\ Part(x, p, p + Len(s)) = s
EndsOf(x, t)    == {p \in (OpenOf(x, t) + 1)..(Len(x) - Len(QuotedOf(x, t))) : Occurs(x, p, QuotedOf(x, t))}

DollarRight(x, t) ==
    ByteOf(x, t.pos) = Dollar /\ MarksOf(x, t) # {} =>
        /\ t.id = "SCONST" =>
             \E p \in EndsOf(x, t) : /\ \A q \in EndsOf(x, t) : p <= q
                                     /\ t.end = p + Len(QuotedOf(x, t))
                                     /\ t.str = Part(x, OpenOf(x, t) + 1, p)
        /\ t.id = "ERROR" =>
             \A p \in EndsOf(x, t) :
                (\A q \in EndsOf(x, t) : p <= q) => ~ValidUTF8(Part(x, OpenOf(x, t) + 1, p))

LEMMA DollarsAre == DollarEndsAtFirstTag <=> \A i \in 1..Len(tokens) : DollarRight(in, tokens[i])
BY Zenon DEF DollarEndsAtFirstTag, DollarRight, MarksOf, OpenOf, QuotedOf, EndsOf, Occurs,
             Has, Slice, Part, PeekAt, ByteOf

LEMMA DollarsAreNext ==
  DollarEndsAtFirstTag' <=> \A i \in 1..Len(tokens') : DollarRight(in', tokens'[i])
BY Zenon DEF DollarEndsAtFirstTag, DollarRight, MarksOf, OpenOf, QuotedOf, EndsOf, Occurs,
             Has, Slice, Part, PeekAt, ByteOf

LEMMA LeastIs ==
  ASSUME NEW S, S \subseteq Nat, NEW o \in S, \A q \in S : o <= q
  PROVE  (CHOOSE p \in S : \A q \in S : p <= q) = o
<1> DEFINE c == CHOOSE p \in S : \A q \in S : p <= q
<1>1. c \in S /\ \A q \in S : c <= q
  BY Zenon
<1> HIDE DEF c
<1>2. c <= o /\ o <= c /\ c \in Nat /\ o \in Nat
  BY <1>1
<1>3. c = o
  BY <1>2
<1> QED
  BY <1>3 DEF c

(* The tag at d is what DollarEndsAtFirstTag takes for it. *)
LEMMA TagOfToken ==
  ASSUME NEW x \in Text, NEW d \in Nat, NEW n \in Nat, TagAt(x, d, n),
         NEW t, t.pos = d, t.end \in 0..Len(x), d + n + 2 <= t.end
  PROVE  /\ OpenOf(x, t) = d + n + 1 /\ Len(QuotedOf(x, t)) = n + 2
         /\ \A p \in Nat : p \in EndsOf(x, t) <=> /\ d + n + 2 <= p /\ p + n + 2 <= Len(x)
                                                  /\ Again(x, d, n, p)
         /\ EndsOf(x, t) \subseteq Nat
<1> DEFINE e == t.end
           o == d + n + 1
           S == {p \in (d + 1)..(e - 1) : ByteOf(x, p) = Dollar}
           s == Part(x, d, o + 1)
<1>1. e \in Nat /\ Len(x) \in Nat /\ o \in Nat /\ e <= Len(x) /\ o + 1 \in 0..Len(x) /\ d <= o + 1
      /\ o + 1 = d + n + 2 /\ d + n + 2 <= e
  BY DEF Text
<1>2. MarksOf(x, t) = S
  BY DEF MarksOf
<1> HIDE DEF e
<1>3. S \subseteq Nat /\ o \in S
  BY <1>1 DEF TagAt
<1>4. ASSUME NEW q \in S PROVE o <= q
  <2>1. q \notin (d + 1)..((d + n + 1) - 1)
    BY DEF TagAt, NoDollar
  <2>2. q \in (d + 1)..(e - 1)
    OBVIOUS
  <2> QED
    BY <1>1, <2>1, <2>2
<1>5. OpenOf(x, t) = o
  <2> HIDE DEF S, o
  <2> QED
    BY <1>2, <1>3, <1>4, LeastIs DEF OpenOf
<1>6. QuotedOf(x, t) = s
  BY <1>5 DEF QuotedOf
<1>7. s \in Text /\ Len(s) = n + 2 /\ \A i \in 1..Len(s) : s[i] = ByteOf(x, d + i - 1)
  <2>1. Len(s) = (o + 1) - d /\ s \in Text /\ \A i \in 1..Len(s) : s[i] = ByteOf(x, d + i - 1)
    BY <1>1, PartFacts
  <2> QED
    BY <1>1, <2>1
<1> HIDE DEF s, S, o
<1>8. ASSUME NEW p \in Nat, p + n + 2 <= Len(x) PROVE Occurs(x, p, s) <=> Again(x, d, n, p)
  <2> DEFINE u == Part(x, p, p + Len(s))
  <2>1. p + Len(s) \in 0..Len(x) /\ p <= p + Len(s) /\ p + Len(s) = p + n + 2
    BY <1>1, <1>7, <1>8
  <2>2. u \in Text /\ Len(u) = (p + Len(s)) - p /\ \A i \in 1..Len(u) : u[i] = ByteOf(x, p + i - 1)
    BY <2>1, PartFacts
  <2> HIDE DEF u
  <2>3. Len(u) = Len(s)
    BY <1>7, <2>2
  <2>4. u = s <=> \A i \in 1..(n + 2) : ByteOf(x, p + i - 1) = ByteOf(x, d + i - 1)
    BY <1>7, <2>2, <2>3, TextEqual
  <2>5. (\A i \in 1..(n + 2) : ByteOf(x, p + i - 1) = ByteOf(x, d + i - 1)) <=> Again(x, d, n, p)
    <3>1. ASSUME NEW k \in p..(p + n + 2 - 1), \A i \in 1..(n + 2) : ByteOf(x, p + i - 1) = ByteOf(x, d + i - 1)
          PROVE  ByteOf(x, k) = ByteOf(x, d + (k - p))
      <4>1. k - p + 1 \in 1..(n + 2) /\ p + (k - p + 1) - 1 = k /\ d + (k - p + 1) - 1 = d + (k - p)
        OBVIOUS
      <4>2. ByteOf(x, p + (k - p + 1) - 1) = ByteOf(x, d + (k - p + 1) - 1)
        BY <3>1, <4>1, Zenon
      <4> QED
        BY <4>1, <4>2
    <3>2. ASSUME NEW i \in 1..(n + 2), Again(x, d, n, p)
          PROVE  ByteOf(x, p + i - 1) = ByteOf(x, d + i - 1)
      <4>1. p + i - 1 \in p..(p + n + 2 - 1) /\ d + ((p + i - 1) - p) = d + i - 1
        OBVIOUS
      <4>2. ByteOf(x, p + i - 1) = ByteOf(x, d + ((p + i - 1) - p))
        BY <3>2, <4>1 DEF Again, Meets
      <4> QED
        BY <4>1, <4>2
    <3>3. ASSUME \A i \in 1..(n + 2) : ByteOf(x, p + i - 1) = ByteOf(x, d + i - 1) PROVE Again(x, d, n, p)
      <4>1. \A k \in p..(p + n + 2 - 1) : ByteOf(x, k) = ByteOf(x, d + (k - p))
        BY <3>1, <3>3
      <4> QED
        BY <4>1 DEF Again, Meets
    <3>4. ASSUME Again(x, d, n, p)
          PROVE  \A i \in 1..(n + 2) : ByteOf(x, p + i - 1) = ByteOf(x, d + i - 1)
      BY <3>2, <3>4
    <3> QED
      BY <3>3, <3>4, Zenon
  <2>6. Occurs(x, p, s) <=> u = s
    BY <2>1 DEF Occurs, u
  <2> QED
    BY <2>4, <2>5, <2>6
<1>9. EndsOf(x, t) = {p \in (o + 1)..(Len(x) - Len(s)) : Occurs(x, p, s)}
  BY <1>5, <1>6 DEF EndsOf
<1>10. ASSUME NEW p \in Nat
       PROVE  p \in EndsOf(x, t) <=> /\ d + n + 2 <= p /\ p + n + 2 <= Len(x)
                                     /\ Again(x, d, n, p)
  <2>1. p \in (o + 1)..(Len(x) - Len(s)) <=> d + n + 2 <= p /\ p + n + 2 <= Len(x)
    BY <1>1, <1>7
  <2> QED
    BY <1>8, <1>9, <2>1, Zenon
<1>11. EndsOf(x, t) \subseteq Nat
  <2>1. (o + 1)..(Len(x) - Len(s)) \subseteq Nat
    BY <1>1, <1>7
  <2> QED
    BY <1>9, <2>1
<1> QED
  BY <1>5, <1>6, <1>7, <1>10, <1>11 DEF o

(* The tag is met again at p first: a token that ends with it. *)
LEMMA ClosedRight ==
  ASSUME NEW x \in Text, NEW d \in Nat, NEW n \in Nat, TagAt(x, d, n),
         NEW p \in Nat, d + n + 2 <= p, p + n + 2 <= Len(x),
         Again(x, d, n, p), \A r \in (d + n + 2)..(p - 1) : ~Again(x, d, n, r),
         NEW t, t.pos = d, t.end = p + n + 2,
         \/ t.id = "SCONST" /\ t.str = Part(x, d + n + 2, p)
         \/ t.id = "ERROR" /\ ~ValidUTF8(Part(x, d + n + 2, p))
  PROVE  DollarRight(x, t)
<1>1. t.end \in 0..Len(x) /\ d + n + 2 <= t.end
  BY DEF Text
<1>2. /\ OpenOf(x, t) = d + n + 1 /\ Len(QuotedOf(x, t)) = n + 2
      /\ \A r \in Nat : r \in EndsOf(x, t) <=> /\ d + n + 2 <= r /\ r + n + 2 <= Len(x)
                                               /\ Again(x, d, n, r)
      /\ EndsOf(x, t) \subseteq Nat
  BY <1>1, TagOfToken
<1>3. p \in EndsOf(x, t)
  BY <1>2
<1>4. ASSUME NEW r \in EndsOf(x, t) PROVE p <= r
  <2>1. r \in Nat /\ d + n + 2 <= r /\ Again(x, d, n, r)
    BY <1>2
  <2>2. r \notin (d + n + 2)..(p - 1)
    BY <2>1
  <2> QED
    BY <2>1, <2>2
<1>5. OpenOf(x, t) + 1 = d + n + 2 /\ t.end = p + Len(QuotedOf(x, t))
  BY <1>2
<1>6. \A r \in EndsOf(x, t) : (\A q \in EndsOf(x, t) : r <= q) => r = p
  BY <1>2, <1>3, <1>4
<1>7. CASE t.id = "SCONST" /\ t.str = Part(x, d + n + 2, p)
  <2>1. t.id # "ERROR"
    BY <1>7
  <2> QED
    BY <1>3, <1>4, <1>5, <1>7, <2>1, Zenon DEF DollarRight
<1>8. CASE t.id = "ERROR" /\ ~ValidUTF8(Part(x, d + n + 2, p))
  <2>1. t.id # "SCONST"
    BY <1>8
  <2> QED
    BY <1>5, <1>6, <1>8, <2>1, Zenon DEF DollarRight
<1> QED
  BY <1>7, <1>8

(* It never is: an error. *)
LEMMA OpenRight ==
  ASSUME NEW x \in Text, NEW d \in Nat, NEW n \in Nat, TagAt(x, d, n),
         d + n + 2 <= Len(x), \A r \in (d + n + 2)..(Len(x) - n - 2) : ~Again(x, d, n, r),
         NEW t, t.pos = d, t.end = Len(x), t.id = "ERROR"
  PROVE  DollarRight(x, t)
<1>1. t.end \in 0..Len(x) /\ d + n + 2 <= t.end
  BY DEF Text
<1>2. /\ \A r \in Nat : r \in EndsOf(x, t) <=> /\ d + n + 2 <= r /\ r + n + 2 <= Len(x)
                                               /\ Again(x, d, n, r)
      /\ EndsOf(x, t) \subseteq Nat
  BY <1>1, TagOfToken
<1>3. ASSUME NEW r \in EndsOf(x, t) PROVE FALSE
  <2>1. r \in Nat /\ d + n + 2 <= r /\ r + n + 2 <= Len(x) /\ Again(x, d, n, r)
    BY <1>2
  <2>2. r \in (d + n + 2)..(Len(x) - n - 2)
    BY <2>1 DEF Text
  <2> QED
    BY <2>1, <2>2
<1>4. t.id # "SCONST"
  OBVIOUS
<1> QED
  BY <1>3, <1>4, Zenon DEF DollarRight

-----------------------------------------------------------------------------
(* The first bytes of a buffer are what is read of it.                     *)

LEMMA WriteReads ==
  ASSUME NEW a \in Text, NEW c \in Text, NEW p \in Nat, p + Len(c) <= Len(a)
  PROVE  Bytes(Written(a, p, c), p, Len(c)) = c
<1> DEFINE w == Written(a, p, c)
           r == Part(w, p, p + Len(c))
<1>1. Len(a) \in Nat /\ Len(c) \in Nat
  BY DEF Text
<1>2. w \in Text /\ Len(w) = Len(a)
  <2>1. w \in Text
    BY WrittenText
  <2>2. DOMAIN w = 1..Len(a)
    BY DEF Written
  <2> QED
    BY <1>1, <2>1, <2>2 DEF Text
<1>3. \A i \in 1..Len(c) : p + i \in 1..Len(a) /\ w[p + i] = c[i]
  <2> TAKE i \in 1..Len(c)
  <2>1. p + i \in 1..Len(a) /\ p + i \in (p + 1)..(p + Len(c)) /\ (p + i) - p = i
    BY <1>1
  <2> QED
    BY <2>1 DEF Written
<1> HIDE DEF w
<1>4. p + Len(c) \in 0..Len(w) /\ p <= p + Len(c) /\ (p + Len(c)) - p = Len(c)
  BY <1>1, <1>2
<1>5. r \in Text /\ Len(r) = Len(c) /\ \A i \in 1..Len(r) : r[i] = ByteOf(w, p + i - 1)
  BY <1>2, <1>4, PartFacts
<1>6. \A i \in 1..Len(c) : ByteOf(w, p + i - 1) = c[i]
  <2> TAKE i \in 1..Len(c)
  <2>1. p + i - 1 < Len(w) /\ (p + i - 1) + 1 = p + i
    BY <1>1, <1>2, <1>3
  <2> QED
    BY <1>3, <2>1 DEF ByteOf
<1> HIDE DEF r
<1>7. r = c
  BY <1>5, <1>6, TextEqual
<1> QED
  BY <1>7 DEF r, w, Bytes, Part

LEMMA JoinReads ==
  ASSUME NEW c \in Text, NEW z \in Text
  PROVE  Bytes(<<>> \o c \o z, 0, Len(c)) = c
<1> DEFINE w == <<>> \o c \o z
           r == Part(w, 0, Len(c))
<1>1. Len(c) \in Nat /\ Len(z) \in Nat /\ w \in Text /\ Len(w) = Len(c) + Len(z)
      /\ \A i \in 1..Len(c) : w[i] = c[i]
  BY DEF Text
<1> HIDE DEF w
<1>2. Len(c) \in 0..Len(w) /\ Len(c) - 0 = Len(c) /\ 0 <= Len(c)
  BY <1>1
<1>3. r \in Text /\ Len(r) = Len(c) /\ \A i \in 1..Len(r) : r[i] = ByteOf(w, 0 + i - 1)
  BY <1>1, <1>2, PartFacts
<1>4. \A i \in 1..Len(c) : ByteOf(w, 0 + i - 1) = c[i]
  <2> TAKE i \in 1..Len(c)
  <2>1. 0 + i - 1 < Len(w) /\ (0 + i - 1) + 1 = i
    BY <1>1
  <2> QED
    BY <1>1, <2>1 DEF ByteOf
<1> HIDE DEF r
<1>5. r = c
  BY <1>3, <1>4, TextEqual
<1>6. 0 + Len(c) = Len(c)
  BY <1>1
<1> QED
  BY <1>5, <1>6 DEF r, w, Bytes, Part

(* What is appended to an empty buffer is what it holds. *)
LEMMA AppendReads ==
  ASSUME Buffers, buf.len = 0, NEW c \in Text, AppendBytes(c)
  PROVE  Read(buf)' = c
<1>1. /\ buf \in SliceType /\ buf.array <= Len(mem) /\ mem \in Seq(Text) /\ Len(mem) \in Nat
      /\ buf.array = 0 => buf.to = 0
      /\ buf.array > 0 => buf.to <= Len(mem[buf.array])
      /\ Len(c) \in Nat
  BY DEF Buffers, BuffersInv, Lies, Text
<1>2. CASE buf.from + buf.len + Len(c) <= buf.to
  <2>1. /\ mem' = IF buf.array = 0 THEN mem
                  ELSE [mem EXCEPT ![buf.array] = Written(@, buf.from + buf.len, c)]
        /\ buf' = [buf EXCEPT !.len = @ + Len(c)]
    BY <1>2 DEF AppendBytes
  <2>2. buf'.array = buf.array /\ buf'.from = buf.from /\ buf'.len = Len(c) /\ buf.from + buf.len = buf.from
        /\ buf.array \in Nat /\ buf.from \in Nat /\ buf.to \in Nat
    BY <1>1, <2>1 DEF SliceType
  <2>3. CASE buf.array = 0
    <3>1. Len(c) = 0
      BY <1>1, <1>2, <2>2, <2>3
    <3>2. c = <<>>
      BY <3>1, EmptySeq DEF Text
    <3> QED
      BY <2>2, <2>3, <3>2 DEF Read
  <2>4. CASE buf.array # 0
    <3>1. buf.array \in 1..Len(mem) /\ mem[buf.array] \in Text
      BY <1>1, <2>2, <2>4
    <3>2. Len(mem[buf.array]) \in Nat /\ buf.from + Len(c) <= Len(mem[buf.array])
      BY <1>1, <1>2, <2>2, <2>4, <3>1, SMTT(30) DEF Text
    <3>3. mem'[buf.array] = Written(mem[buf.array], buf.from, c)
      BY <1>1, <2>1, <2>2, <2>4, <3>1
    <3>4. Bytes(mem'[buf.array], buf.from, Len(c)) = c
      BY <2>2, <3>1, <3>2, <3>3, WriteReads
    <3> QED
      BY <2>2, <2>4, <3>4 DEF Read
  <2> QED
    BY <2>3, <2>4
<1>3. CASE ~(buf.from + buf.len + Len(c) <= buf.to)
  <2>1. PICK spare \in 0..Spare :
           /\ mem' = Append(mem, Read(buf) \o c \o Zeros(spare))
           /\ buf' = [array |-> Len(mem) + 1, from |-> 0, len |-> buf.len + Len(c), to |-> (buf.len + Len(c)) + spare]
    BY <1>3 DEF AppendBytes
  <2>2. Read(buf) = <<>>
    <3>1. buf.array = 0 => Read(buf) = <<>>
      BY DEF Read
    <3>2. CASE buf.array # 0
      <4>1. mem[buf.array] \in Text /\ buf.from \in Nat /\ Len(mem[buf.array]) \in Nat
            /\ buf.from + 0 \in 0..Len(mem[buf.array]) /\ buf.from + 0 <= buf.from
        <5>1. buf.array \in Nat /\ buf.from \in Nat /\ buf.to \in Nat /\ buf.from + buf.len <= buf.to
          BY <1>1 DEF SliceType, Buffers, BuffersInv, Lies
        <5>2. buf.array \in 1..Len(mem)
          BY <1>1, <3>2, <5>1
        <5>3. mem[buf.array] \in Text /\ Len(mem[buf.array]) \in Nat
          BY <1>1, <5>2 DEF Text
        <5> QED
          BY <1>1, <3>2, <5>1, <5>3
      <4>2. Part(mem[buf.array], buf.from, buf.from + 0) = <<>>
        BY <4>1, PartFacts
      <4> QED
        BY <3>2, <4>2 DEF Read, Bytes, Part
    <3> QED
      BY <3>1, <3>2
  <2>3. Zeros(spare) \in Text
    <3>1. spare \in Nat /\ 0 \in Byte
      BY <2>1, SpareAssumption, ByteIs DEF Between
    <3> QED
      BY <3>1 DEF Zeros, Text
  <2>4. buf'.array = Len(mem) + 1 /\ buf'.from = 0 /\ buf'.len = Len(c)
    BY <1>1, <2>1
  <2> DEFINE w == <<>> \o c \o Zeros(spare)
  <2>5. mem'[Len(mem) + 1] = w
    <3>1. mem' = Append(mem, w)
      BY <2>1, <2>2
    <3> HIDE DEF w
    <3>2. IsSeq(mem)
      BY <1>1, SeqIsSeq
    <3> QED
      BY <3>1, <3>2, AppendAny
  <2>6. Bytes(w, 0, Len(c)) = c
    BY <2>3, JoinReads
  <2> HIDE DEF w
  <2>7. buf'.array # 0
    BY <1>1, <2>4
  <2> QED
    BY <2>4, <2>5, <2>6, <2>7 DEF Read
<1> QED
  BY <1>2, <1>3

LEMMA TakenIsEmpty ==
  ASSUME Buffers, TakeBuffer
  PROVE  buf'.len = 0
BY DEF Buffers, BuffersInv, Lies, SliceType, TakeBuffer

-----------------------------------------------------------------------------
(* Strings in dollars, step by step.                                       *)

(* In the loop: no tag yet, or one that was not met again. *)
TagSoFar(x, d, q, tg) ==
    /\ ByteOf(x, d) = Dollar
    /\ tg.text = NoTag => NoDollar(x, d + 1, q)
    /\ tg.text # NoTag => /\ TagAt(x, d, Len(tg.text))
                          /\ tg.text = Part(x, d + 1, d + 1 + Len(tg.text))
                          /\ NotAgain(x, d, Len(tg.text), q, tg.matched)

(* After it: s is what the two tags enclose. *)
TagDone(x, d, q, n, s) ==
    /\ n \in Nat /\ TagAt(x, d, n)
    /\ \E p \in Nat : /\ d + n + 2 <= p /\ q = p + n + 2
                      /\ Again(x, d, n, p) /\ \A r \in (d + n + 2)..(p - 1) : ~Again(x, d, n, r)
                      /\ s = Part(x, d + n + 2, p)

DollarInv ==
    /\ DollarEndsAtFirstTag
    /\ at = "comment" => ByteOf(in, start) # Dollar
    /\ at \in Opened /\ at \notin InDollars => ByteOf(in, lval.pos) # Dollar
    /\ at = "dollar" => TagSoFar(in, lval.pos, pos, tag) /\ buf.len = 0
    /\ at = "body" => TagDone(in, lval.pos, pos, Len(tag.text), Read(buf))

LEMMA DollarsMove ==
  ASSUME DollarInv, in' = in, tokens' = tokens,
         at' = "comment" => ByteOf(in, start') # Dollar,
         at' \in Opened /\ at' \notin InDollars => ByteOf(in, lval'.pos) # Dollar,
         at' = "dollar" => TagSoFar(in, lval'.pos, pos', tag') /\ buf'.len = 0,
         at' = "body" => TagDone(in, lval'.pos, pos', Len(tag'.text), Read(buf)')
  PROVE  DollarInv'
<1>1. \A i \in 1..Len(tokens') : DollarRight(in', tokens'[i])
  BY DollarsAre DEF DollarInv
<1>2. DollarEndsAtFirstTag'
  BY <1>1, DollarsAreNext
<1> QED
  BY <1>2 DEF DollarInv, Opened, InDollars

LEMMA DollarsEmit ==
  ASSUME ScanInv, DollarInv, in' = in, NEW id, NEW p, NEW str, NEW q, Emit(id, p, str, q),
         DollarRight(in, [id |-> id, pos |-> p, str |-> str, end |-> q])
  PROVE  DollarInv'
<1>1. /\ at' = "out"
      /\ \A i \in 1..Len(tokens') :
            \/ tokens'[i] = [id |-> id, pos |-> p, str |-> str, end |-> q]
            \/ i \in 1..Len(tokens) /\ tokens'[i] = tokens[i]
  BY EmitTokens
<1>2. \A i \in 1..Len(tokens) : DollarRight(in, tokens[i])
  BY DollarsAre DEF DollarInv
<1>3. \A i \in 1..Len(tokens') : DollarRight(in', tokens'[i])
  BY <1>1, <1>2, Zenon
<1>4. DollarEndsAtFirstTag'
  BY <1>3, DollarsAreNext
<1> QED
  BY <1>1, <1>4 DEF DollarInv, Opened, InDollars

(* A token that is no string and no error, or begins with another byte. *)
LEMMA NoDollarsEmit ==
  ASSUME ScanInv, DollarInv, in' = in, NEW id, NEW p, NEW str, NEW q, Emit(id, p, str, q),
         id \notin {"SCONST", "ERROR"} \/ ByteOf(in, p) # Dollar
  PROVE  DollarInv'
<1> DEFINE t == [id |-> id, pos |-> p, str |-> str, end |-> q]
<1>1. t.id = id /\ t.pos = p
  OBVIOUS
<1> HIDE DEF t
<1>2. DollarRight(in, t)
  BY <1>1 DEF DollarRight
<1> QED
  BY <1>2, DollarsEmit DEF t

LEMMA DollarOpens ==
  ASSUME ScanInv, DollarInv, OpenDollar
  PROVE  DollarInv'
<1>1. /\ Peek = Dollar /\ in' = in /\ tokens' = tokens /\ pos' = pos + 1 /\ lval'.pos = pos
      /\ at' = "dollar" /\ tag'.text = NoTag /\ TakeBuffer
  BY DEF OpenDollar, Enter
<1>2. pos \in Nat /\ Peek = ByteOf(in, pos) /\ Buffers
  BY Facts, PeekIs
<1>3. NoDollar(in, pos + 1, pos + 1)
  <2>1. \A k \in (pos + 1)..((pos + 1) - 1) : FALSE
    BY <1>2
  <2> QED
    BY <2>1, Zenon DEF NoDollar
<1>4. TagSoFar(in, pos, pos + 1, tag')
  BY <1>1, <1>2, <1>3 DEF TagSoFar
<1>5. buf'.len = 0
  BY <1>1, <1>2, TakenIsEmpty
<1>6. at' \in InDollars /\ at' # "comment" /\ at' # "body"
  BY <1>1 DEF InDollars
<1>7. TagSoFar(in, lval'.pos, pos', tag')
  BY <1>1, <1>4
<1> QED
  BY <1>1, <1>5, <1>6, <1>7, DollarsMove

(* $ and digits: one dollar. *)
LEMMA PlaceholderDollars ==
  ASSUME ScanInv, DollarInv, Placeholder, NEW id, NEW str, NEW q, Emit(id, pos, str, q)
  PROVE  DollarInv'
<1> DEFINE t == [id |-> id, pos |-> pos, str |-> str, end |-> q]
<1>1. in' = in /\ PeekAt(pos + 1) \in Digit /\ pos' = SpanEnd(pos + 1, Digit)
  BY DEF Placeholder, Emit
<1>2. q = SpanEnd(pos + 1, Digit)
  BY <1>1 DEF Emit
<1>3. pos + 1 \in 0..Len(in) /\ in \in Text /\ pos \in Nat
  <2>1. PeekAt(pos + 1) # Eof
    BY <1>1, Classes, NotEof
  <2>2. pos \in Nat /\ Len(in) \in Nat /\ in \in Text
    BY Facts
  <2> QED
    BY <2>1, <2>2, PeekStep
<1>4. \A r \in (pos + 1)..(q - 1) : ByteOf(in, r) \in Digit
  BY <1>2, <1>3, SpanSpec
<1>5. t.pos = pos /\ t.end = q
  OBVIOUS
<1> HIDE DEF t
<1>6. Dollar \notin Digit
  BY SMT DEF Dollar, Digit
<1>7. MarksOf(in, t) = {}
  BY <1>4, <1>5, <1>6, Zenon DEF MarksOf
<1>8. DollarRight(in, t)
  BY <1>7, Zenon DEF DollarRight
<1> QED
  BY <1>1, <1>8, DollarsEmit DEF t

LEMMA DollarMarkStep ==
  ASSUME ScanInv, DollarInv, DollarMark
  PROVE  DollarInv'
<1> DEFINE n == Len(tag.text)
           d == lval.pos
           c == Slice(start + n + 1, pos - n - 1)
<1>1. /\ at = "dollar" /\ Peek = Dollar /\ pos' = pos + 1 /\ in' = in /\ lval' = lval /\ tokens' = tokens
      /\ \/ /\ tag.text = NoTag
            /\ tag' = [text |-> Slice(start, pos), matched |-> Eof]
            /\ UNCHANGED at /\ UNCHANGED bufferVars
         \/ /\ tag.text # NoTag /\ tag.matched = n
            /\ AppendBytes(c) /\ at' = "body" /\ tag' = tag
         \/ /\ tag.text # NoTag /\ tag.matched # n
            /\ tag' = [tag EXCEPT !.matched = 0]
            /\ UNCHANGED at /\ UNCHANGED bufferVars
  BY DEF DollarMark, dollarRest
<1>2. /\ TagFits /\ in \in Text /\ Len(in) \in Nat /\ pos \in 0..Len(in) /\ pos \in Nat
      /\ d \in Nat /\ start \in Nat /\ Buffers /\ n \in Nat
      /\ tag \in [text : Text \cup {NoTag}, matched : Int]
      /\ tag.matched \in {Eof} \cup 0..n
      /\ Eof \notin Nat /\ NoTag \notin Text
      /\ start = d + 1 /\ start <= pos
  BY <1>1, DollarFacts DEF TagFits
<1>3. /\ TagSoFar(in, d, pos, tag) /\ buf.len = 0 /\ ByteOf(in, pos) = Dollar
  BY <1>1, PeekIs DEF DollarInv
<1> HIDE DEF d, n, c
<1>4. CASE /\ tag.text = NoTag
           /\ tag' = [text |-> Slice(start, pos), matched |-> Eof]
           /\ UNCHANGED at /\ UNCHANGED bufferVars
  <2> DEFINE s == Part(in, d + 1, pos)
             m == Len(s)
  <2>1. tag'.text = s /\ tag'.matched = Eof /\ buf' = buf
    BY <1>2, <1>4, PeekIs DEF bufferVars
  <2>2. s \in Text /\ m = pos - (d + 1)
    BY <1>2, PartFacts
  <2> HIDE DEF s
  <2>3. m \in Nat /\ d + m + 1 = pos /\ d + 1 + m = pos /\ d + m + 2 = pos + 1 /\ s # NoTag
    BY <1>2, <2>2
  <2>4. TagAt(in, d, m)
    <3>1. NoDollar(in, d + 1, pos) /\ ByteOf(in, d) = Dollar
      BY <1>3, <1>4 DEF TagSoFar
    <3> QED
      BY <1>3, <2>3, <3>1 DEF TagAt
  <2>5. NotAgain(in, d, m, pos + 1, Eof)
    <3>1. NotAgain(in, d, m, d + m + 2, Eof)
      BY <1>2, <2>3, NotAgainBegins
    <3> QED
      BY <2>3, <3>1
  <2>6. TagSoFar(in, d, pos + 1, tag')
    <3>1. s = Part(in, d + 1, d + 1 + m)
      BY <2>3 DEF s
    <3>2. ByteOf(in, d) = Dollar
      BY <2>4 DEF TagAt
    <3> QED
      BY <2>1, <2>3, <2>4, <2>5, <3>1, <3>2 DEF TagSoFar
  <2>7. at' = "dollar" /\ at' \in InDollars
    BY <1>1, <1>4 DEF InDollars
  <2>8. TagSoFar(in, lval'.pos, pos', tag') /\ buf'.len = 0
    BY <1>1, <1>3, <2>1, <2>6 DEF d
  <2> QED
    BY <1>1, <2>7, <2>8, DollarsMove
<1>5. CASE /\ tag.text # NoTag /\ tag.matched = n
           /\ AppendBytes(c) /\ at' = "body" /\ tag' = tag
  <2>1. TagAt(in, d, n) /\ NotAgain(in, d, n, pos, n)
    BY <1>3, <1>5 DEF TagSoFar, n
  <2>2. d + 2 * n + 3 <= pos
    <3>1. tag.matched # Eof
      BY <1>2, <1>5
    <3>2. start + Len(tag.text) + tag.matched + 2 <= pos
      BY <1>2, <3>1 DEF TagFits
    <3>3. start + n + n + 2 <= pos
      BY <1>5, <3>2 DEF n
    <3> QED
      BY <1>2, <3>3
  <2>3. /\ Again(in, d, n, pos - n - 1)
        /\ \A r \in (d + n + 2)..(pos - n - 2) : ~Again(in, d, n, r)
    BY <1>2, <1>3, <2>1, <2>2, MarkAgain
  <2>4. PICK p \in Nat : p = pos - n - 1
    BY <1>2, <2>2
  <2>5. d + n + 2 <= p /\ pos + 1 = p + n + 2 /\ pos - n - 2 = p - 1 /\ start + n + 1 = d + n + 2
        /\ d + n + 2 \in Nat /\ p \in 0..Len(in)
    BY <1>2, <2>2, <2>4
  <2>6. c = Part(in, d + n + 2, p) /\ c \in Text
    <3>1. c = Part(in, d + n + 2, p)
      BY <2>4, <2>5, PeekIs DEF c
    <3> QED
      BY <1>2, <2>5, <3>1, PartFacts
  <2>7. Read(buf)' = c
    BY <1>2, <1>3, <1>5, <2>6, AppendReads
  <2>8. TagDone(in, d, pos + 1, n, c)
    BY <1>2, <2>1, <2>3, <2>4, <2>5, <2>6 DEF TagDone
  <2>9. TagDone(in, lval'.pos, pos', Len(tag'.text), Read(buf)')
    BY <1>1, <1>5, <2>7, <2>8 DEF d, n
  <2>10. at' = "body" /\ at' \in InDollars
    BY <1>5 DEF InDollars
  <2> QED
    BY <1>1, <2>9, <2>10, DollarsMove
<1>6. CASE /\ tag.text # NoTag /\ tag.matched # n
           /\ tag' = [tag EXCEPT !.matched = 0]
           /\ UNCHANGED at /\ UNCHANGED bufferVars
  <2>1. TagAt(in, d, n) /\ NotAgain(in, d, n, pos, tag.matched) /\ tag.text = Part(in, d + 1, d + 1 + n)
    BY <1>3, <1>6 DEF TagSoFar, n
  <2>2. d + n + 2 <= pos
    BY <1>2, <1>6 DEF TagFits, n
  <2>3. NotAgain(in, d, n, pos + 1, 0)
    BY <1>2, <1>3, <1>6, <2>1, <2>2, MarkNotAgain
  <2>4. tag'.text = tag.text /\ tag'.matched = 0 /\ buf' = buf
    BY <1>2, <1>6 DEF bufferVars
  <2>5. TagSoFar(in, d, pos + 1, tag')
    BY <1>6, <2>1, <2>3, <2>4 DEF TagSoFar, n, TagAt
  <2>6. at' = "dollar" /\ at' \in InDollars
    BY <1>1, <1>6 DEF InDollars
  <2>7. TagSoFar(in, lval'.pos, pos', tag') /\ buf'.len = 0
    BY <1>1, <1>3, <2>4, <2>5 DEF d
  <2> QED
    BY <1>1, <2>6, <2>7, DollarsMove
<1> QED
  BY <1>1, <1>4, <1>5, <1>6

LEMMA DollarByteStep ==
  ASSUME ScanInv, DollarInv, DollarByte
  PROVE  DollarInv'
<1> DEFINE n == Len(tag.text)
           d == lval.pos
<1>1. /\ at = "dollar" /\ at' = at /\ Peek \notin {Dollar, Eof} /\ pos' = pos + 1 /\ in' = in
      /\ lval' = lval /\ tokens' = tokens /\ buf' = buf
      /\ tag' = [tag EXCEPT !.matched =
                    IF @ = Eof \/ @ >= Len(tag.text) THEN Eof
                    ELSE IF Peek = tag.text[@ + 1] THEN @ + 1 ELSE Eof]
  BY DEF DollarByte, dollarRest
<1>2. /\ TagFits /\ in \in Text /\ Len(in) \in Nat /\ pos \in 0..Len(in) /\ pos \in Nat
      /\ d \in Nat /\ start \in Nat /\ n \in Nat
      /\ tag \in [text : Text \cup {NoTag}, matched : Int]
      /\ tag.matched \in {Eof} \cup 0..n
      /\ Eof \notin Nat /\ NoTag \notin Text
      /\ start = d + 1 /\ start <= pos
  BY <1>1, DollarFacts DEF TagFits
<1>3. /\ TagSoFar(in, d, pos, tag) /\ buf.len = 0 /\ Peek = ByteOf(in, pos) /\ ByteOf(in, pos) # Dollar
  BY <1>1, PeekIs DEF DollarInv
<1> HIDE DEF d, n
<1>4. CASE tag.text = NoTag
  <2>1. tag.matched = Eof
    BY <1>2, <1>4 DEF TagFits
  <2>2. tag'.text = NoTag
    BY <1>1, <1>2, <1>4
  <2>3. NoDollar(in, d + 1, pos) /\ ByteOf(in, d) = Dollar
    BY <1>3, <1>4 DEF TagSoFar
  <2>4. NoDollar(in, d + 1, pos + 1)
    <3>1. d + 1 \in Nat /\ d + 1 <= pos
      BY <1>2
    <3> QED
      BY <1>2, <1>3, <2>3, <3>1, UpTo, Zenon DEF NoDollar
  <2>5. TagSoFar(in, d, pos + 1, tag')
    BY <2>2, <2>3, <2>4 DEF TagSoFar
  <2>6. TagSoFar(in, lval'.pos, pos', tag')
    BY <1>1, <2>5 DEF d
  <2>7. at' = "dollar" /\ at' \in InDollars
    BY <1>1 DEF InDollars
  <2> QED
    BY <1>1, <1>3, <2>6, <2>7, DollarsMove
<1>5. CASE tag.text # NoTag
  <2> DEFINE m == tag.matched
             r == IF m # Eof /\ m < n /\ ByteOf(in, pos) = ByteOf(in, d + (m + 1)) THEN m + 1 ELSE Eof
  <2>1. TagAt(in, d, n) /\ NotAgain(in, d, n, pos, m) /\ tag.text = Part(in, d + 1, d + 1 + n)
    BY <1>3, <1>5 DEF TagSoFar, n
  <2>2. d + n + 2 <= pos
    BY <1>2, <1>5 DEF TagFits, n
  <2>3. m # Eof /\ m < n => tag.text[m + 1] = ByteOf(in, d + (m + 1))
    <3> SUFFICES ASSUME m # Eof, m < n PROVE tag.text[m + 1] = ByteOf(in, d + (m + 1))
      OBVIOUS
    <3>1. m + 1 \in 1..n /\ (d + 1) + (m + 1) - 1 = d + (m + 1)
      BY <1>2
    <3>2. d + 1 + n \in 0..Len(in) /\ d + 1 \in Nat
      BY <1>2, <2>2
    <3>3. \A i \in 1..Len(Part(in, d + 1, d + 1 + n)) :
             Part(in, d + 1, d + 1 + n)[i] = ByteOf(in, (d + 1) + i - 1)
      BY <1>2, <3>2, PartFacts
    <3>4. \A i \in 1..n : tag.text[i] = ByteOf(in, (d + 1) + i - 1)
      BY <2>1, <3>3 DEF n
    <3>5. tag.text[m + 1] = ByteOf(in, (d + 1) + (m + 1) - 1)
      BY <3>1, <3>4, Zenon
    <3> QED
      BY <3>1, <3>5
  <2>4. tag'.text = tag.text /\ tag'.matched = r
    <3>1. tag'.text = tag.text /\ tag'.matched = IF m = Eof \/ m >= n THEN Eof
                                                  ELSE IF ByteOf(in, pos) = tag.text[m + 1] THEN m + 1 ELSE Eof
      BY <1>1, <1>2, <1>3 DEF n
    <3> HIDE DEF m
    <3>2. m \in {Eof} \cup 0..n
      BY <1>2 DEF m
    <3>3. m # Eof => (m >= n <=> ~(m < n))
      BY <1>2, <3>2
    <3> QED
      BY <2>3, <3>1, <3>3
  <2>5. r \in Int
    BY <1>2 DEF Eof
  <2> HIDE DEF r
  <2>6. NotAgain(in, d, n, pos + 1, r)
    <3>1. r = IF m # Eof /\ m < n /\ ByteOf(in, pos) = ByteOf(in, d + (m + 1)) THEN m + 1 ELSE Eof
      BY DEF r
    <3> HIDE DEF m
    <3>2. m \in {Eof} \cup 0..n
      BY <1>2 DEF m
    <3> QED
      BY <1>2, <1>3, <2>1, <2>2, <2>5, <3>1, <3>2, ByteNotAgain
  <2>7. TagSoFar(in, d, pos + 1, tag')
    BY <1>5, <2>1, <2>4, <2>6 DEF TagSoFar, n, TagAt
  <2>8. TagSoFar(in, lval'.pos, pos', tag')
    BY <1>1, <2>7 DEF d
  <2>9. at' = "dollar" /\ at' \in InDollars
    BY <1>1 DEF InDollars
  <2> QED
    BY <1>1, <1>3, <2>8, <2>9, DollarsMove
<1> QED
  BY <1>4, <1>5

LEMMA DollarUnterminatedStep ==
  ASSUME ScanInv, DollarInv, DollarUnterminated
  PROVE  DollarInv'
<1> DEFINE n == Len(tag.text)
           d == lval.pos
           t == [id |-> "ERROR", pos |-> d, str |-> <<>>, end |-> pos]
<1>1. /\ at = "dollar" /\ tag.text # NoTag /\ Peek = Eof /\ in' = in /\ Emit("ERROR", d, <<>>, pos)
  BY DEF DollarUnterminated, Fail, dollarRest
<1>2. /\ TagFits /\ in \in Text /\ Len(in) \in Nat /\ pos \in 0..Len(in) /\ pos \in Nat
      /\ d \in Nat /\ n \in Nat
  BY <1>1, DollarFacts
<1>3. TagSoFar(in, d, pos, tag)
  BY <1>1 DEF DollarInv
<1>4. pos = Len(in)
  <2>1. ByteOf(in, pos) = Eof
    BY <1>1, PeekIs
  <2>2. ~(pos < Len(in))
    BY <1>2, <2>1, ByteFacts
  <2> QED
    BY <1>2, <2>2
<1>5. TagAt(in, d, n) /\ NotAgain(in, d, n, pos, tag.matched)
  BY <1>1, <1>3 DEF TagSoFar
<1>6. d + n + 2 <= Len(in)
  BY <1>1, <1>2, <1>4 DEF TagFits
<1>7. \A r \in (d + n + 2)..(Len(in) - n - 2) : ~Again(in, d, n, r)
  BY <1>4, <1>5 DEF NotAgain
<1>8. t.id = "ERROR" /\ t.pos = d /\ t.end = Len(in)
  BY <1>4
<1> HIDE DEF t, n, d
<1>9. DollarRight(in, t)
  BY <1>2, <1>5, <1>6, <1>7, <1>8, OpenRight
<1> QED
  BY <1>1, <1>9, DollarsEmit DEF t

LEMMA DollarBodyStep ==
  ASSUME ScanInv, DollarInv, DollarBody
  PROVE  DollarInv'
<1> DEFINE n == Len(tag.text)
           d == lval.pos
           s == Read(buf)
<1>1. /\ at = "body" /\ in' = in
      /\ \/ ValidUTF8(s) /\ Emit("SCONST", d, s, pos)
         \/ ~ValidUTF8(s) /\ Emit("ERROR", d, <<>>, pos)
  BY DEF DollarBody, Fail, dollarRest
<1>2. /\ in \in Text /\ Len(in) \in Nat /\ pos \in 0..Len(in) /\ d \in Nat
  BY Facts
<1>3. TagDone(in, d, pos, n, s)
  BY <1>1 DEF DollarInv
<1> HIDE DEF n, d, s
<1>4. PICK p \in Nat : /\ d + n + 2 <= p /\ pos = p + n + 2
                       /\ Again(in, d, n, p) /\ \A r \in (d + n + 2)..(p - 1) : ~Again(in, d, n, r)
                       /\ s = Part(in, d + n + 2, p)
  BY <1>3 DEF TagDone
<1>5. n \in Nat /\ TagAt(in, d, n)
  BY <1>3 DEF TagDone
<1>6. p + n + 2 <= Len(in)
  BY <1>2, <1>4
<1>7. ASSUME NEW id, NEW str, Emit(id, d, str, pos),
             \/ id = "SCONST" /\ str = s
             \/ id = "ERROR" /\ ~ValidUTF8(s)
      PROVE  DollarInv'
  <2> DEFINE t == [id |-> id, pos |-> d, str |-> str, end |-> pos]
  <2>1. t.id = id /\ t.pos = d /\ t.str = str /\ t.end = p + n + 2
    BY <1>4
  <2> HIDE DEF t
  <2>2. \/ t.id = "SCONST" /\ t.str = Part(in, d + n + 2, p)
        \/ t.id = "ERROR" /\ ~ValidUTF8(Part(in, d + n + 2, p))
    BY <1>4, <1>7, <2>1, Zenon
  <2>3. DollarRight(in, t)
    BY <1>2, <1>4, <1>5, <1>6, <2>1, <2>2, ClosedRight
  <2> QED
    BY <1>1, <1>7, <2>3, DollarsEmit DEF t
<1> QED
  BY <1>1, <1>7, Zenon

LEMMA DollarsStep ==
  ASSUME ScanInv, DollarInv, [Scan \/ ScanNext]_scanVars
  PROVE  DollarInv'
<1>1. CASE Scan
  <2>1. in' = in /\ tokens' = tokens /\ at' = "blanks"
    BY <1>1 DEF Scan
  <2>2. at' \notin Opened
    BY <2>1 DEF Opened
  <2> QED
    BY <2>1, <2>2, DollarsMove
<1>2. CASE UNCHANGED scanVars
  <2>1. /\ in' = in /\ tokens' = tokens /\ pos' = pos /\ at' = at /\ start' = start /\ lval' = lval
        /\ tag' = tag /\ buf' = buf /\ mem' = mem
    BY <1>2 DEF scanVars
  <2>2. Read(buf)' = Read(buf)
    BY <2>1 DEF Read
  <2> QED
    BY <2>1, <2>2, DollarsMove DEF DollarInv
<1>3. CASE ScanNext
  <2>1. CASE SkipWhitespace
    <3>1. /\ in' = in /\ tokens' = tokens /\ at' \in {"blanks", "comment", "token"}
          /\ at' = "comment" => PeekAt(start') = Slash
      BY <2>1 DEF SkipWhitespace
    <3>2. at' = "comment" => ByteOf(in, start') # Dollar
      BY <3>1, PeekIs DEF Slash, Dollar
    <3>3. at' \notin Opened
      BY <3>1 DEF Opened
    <3>4. at' # "dollar" /\ at' # "body"
      BY <3>1
    <3> QED
      BY <3>1, <3>2, <3>3, <3>4, DollarsMove
  <2>2. CASE Comment
    <3>1. /\ in' = in /\ at = "comment" /\ start' = start
          /\ \/ Emit("ERROR", start, <<>>, pos)
             \/ tokens' = tokens /\ at' \in {"blanks", "comment"}
      BY <2>2 DEF Comment
    <3>2. ByteOf(in, start) # Dollar
      BY <3>1 DEF DollarInv
    <3>3. CASE Emit("ERROR", start, <<>>, pos)
      BY <3>1, <3>2, <3>3, NoDollarsEmit
    <3>4. CASE tokens' = tokens /\ at' \in {"blanks", "comment"}
      <4>1. at' \notin Opened /\ at' # "dollar" /\ at' # "body"
        BY <3>4 DEF Opened
      <4> QED
        BY <3>1, <3>2, <3>4, <4>1, DollarsMove
    <3> QED
      BY <3>1, <3>3, <3>4
  <2>3. CASE at = "token"
    <3>1. in' = in
      BY <1>3, <2>3, TokenSteps
    <3>2. ASSUME NEW id, NEW str, NEW q, Emit(id, pos, str, q), id \notin Constants,
                 id = "ERROR" => Placeholder
          PROVE DollarInv'
      <4>1. CASE id = "ERROR"
        BY <3>2, <4>1, PlaceholderDollars
      <4>2. CASE id # "ERROR"
        BY <3>1, <3>2, <4>2, NoDollarsEmit DEF Constants
      <4> QED
        BY <4>1, <4>2
    <3>3. CASE OpenDollar
      BY <3>3, DollarOpens
    <3>4. CASE OpenNumber \/ OpenLiteral
      <4>1. tokens' = tokens /\ at' \in {"number", "bits", "hex", "string"} /\ lval'.pos = pos
        BY <3>4 DEF OpenNumber, OpenLiteral, Enter
      <4>2. Peek # Dollar
        <5>1. \A b \in Digit : b # Dollar
          BY SMT DEF Digit, Dollar
        <5>2. Dot # Dollar
          BY DEF Dot, Dollar
        <5>3. OpenNumber => Peek \in Digit \/ Peek = Dot
          BY DEF OpenNumber, NumberStarts
        <5>4. OpenLiteral => Peek \in {Quote, DoubleQuote, 98, 101, 69, 66, 120, 88}
          BY DEF OpenLiteral, Opens
        <5>5. Dollar \notin {Quote, DoubleQuote, 98, 101, 69, 66, 120, 88}
          BY DEF Dollar, Quote, DoubleQuote
        <5> QED
          BY <3>4, <5>1, <5>2, <5>3, <5>4, <5>5
      <4>3. ByteOf(in, lval'.pos) # Dollar
        BY <4>1, <4>2, PeekIs
      <4>4. at' # "comment" /\ at' # "dollar" /\ at' # "body"
        BY <4>1
      <4> QED
        BY <3>1, <4>1, <4>3, <4>4, DollarsMove
    <3> QED
      BY <1>3, <2>3, <3>2, <3>3, <3>4, TokenSteps, Zenon
  <2>4. CASE at \in {"number", "finish"} \cup InLiteral
    <3>1. at \in Opened /\ at \notin InDollars
      BY <2>4 DEF Opened, InDollars, InLiteral
    <3>2. ByteOf(in, lval.pos) # Dollar
      BY <3>1 DEF DollarInv
    <3>3. /\ in' = in
          /\ \/ \E id, str, q : Emit(id, lval.pos, str, q)
             \/ tokens' = tokens /\ lval' = lval /\ at' \in {"number", "finish"} \cup InLiteral
      <4>1. CASE at = "number"
        BY <1>3, <4>1, NumberSteps, Zenon
      <4>2. CASE at \in InLiteral \cup {"finish"}
        <5>1. \A p \in InLiteral \cup {"finish"} : p \in {"number", "finish"} \cup InLiteral
          OBVIOUS
        <5> QED
          BY <1>3, <4>2, <5>1, LiteralSteps, Zenon
      <4> QED
        BY <2>4, <4>1, <4>2
    <3>4. CASE \E id, str, q : Emit(id, lval.pos, str, q)
      BY <3>2, <3>3, <3>4, NoDollarsEmit
    <3>5. CASE tokens' = tokens /\ lval' = lval /\ at' \in {"number", "finish"} \cup InLiteral
      <4>1. at' # "comment" /\ at' # "dollar" /\ at' # "body"
        BY <3>5 DEF InLiteral
      <4> QED
        BY <3>2, <3>3, <3>5, <4>1, DollarsMove
    <3> QED
      BY <3>3, <3>4, <3>5
  <2>5. CASE at \in InDollars
    <3>1. CASE NotDollarQuoted
      <4>1. in' = in /\ \E q : Emit("CHAR", lval.pos, <<Dollar>>, q)
        BY <3>1, Zenon DEF NotDollarQuoted, dollarRest
      <4> QED
        BY <4>1, NoDollarsEmit
    <3>2. DollarMark \/ DollarByte \/ NotDollarQuoted \/ DollarUnterminated \/ DollarBody
      BY <1>3, <2>5 DEF ScanNext, SkipWhitespace, Comment, End, Symbol, Ident, Placeholder,
             OpenNumber, OpenDollar, OpenLiteral,
             AnotherDigit, HexMark, DecimalPoint, Exponent, NumberEnd,
             HexPair, Bit, QuoteInString, Escape, StringByte, FinishLiteral, InDollars
    <3> QED
      BY <3>1, <3>2, DollarMarkStep, DollarByteStep, DollarUnterminatedStep, DollarBodyStep
  <2> QED
    BY <1>3, <2>1, <2>2, <2>3, <2>4, <2>5, WhereNext
<1> QED
  BY <1>1, <1>2, <1>3

LEMMA DollarsBegin ==
  ASSUME NEW text \in Text, ScannerInit(text)
  PROVE  DollarInv
<1>1. at = "out" /\ tokens = <<>>
  BY DEF ScannerInit
<1>2. \A i \in 1..Len(tokens) : FALSE
  BY <1>1
<1>3. DollarEndsAtFirstTag
  BY <1>2, DollarsAre
<1> QED
  BY <1>1, <1>3 DEF DollarInv, Opened

(* For every text: a string in dollars ends where its tag is first met      *)
(* again, whatever parts of the tag come before, and is unterminated only   *)
(* when it never is (scanDollarQuotedString, scan.go:930-1003).              *)
THEOREM DollarsAlwaysEndAtFirstTag ==
  ASSUME NEW text \in Text
  PROVE  ScannerSpec(text) => []DollarEndsAtFirstTag
<1>1. ScannerInit(text) => ScanInv /\ DollarInv
  BY TextsBegin, DollarsBegin
<1>2. ScanInv /\ DollarInv /\ [Scan \/ ScanNext]_scanVars => ScanInv' /\ DollarInv'
  BY TextsStep, DollarsStep
<1>3. DollarInv => DollarEndsAtFirstTag
  BY DEF DollarInv
<1> QED
  BY <1>1, <1>2, <1>3, PTL DEF ScannerSpec

-----------------------------------------------------------------------------
(* The quotes of a literal of the text x that begins at d.                 *)

QuoteOf(x, d) == IF ByteOf(x, d) = DoubleQuote THEN DoubleQuote ELSE Quote
QuotesIn(x, d, e) == {p \in d..(e - 1) : ByteOf(x, p) = QuoteOf(x, d)}

(* The last quote before e closes what another opened. *)
Even(x, d, e) == Cardinality(QuotesIn(x, d, e)) % 2 = 0

BlankFrom(x, p, r) == \A k \in (p + 1)..(r - 1) : ByteOf(x, k) \in Blank
LineFrom(x, p, r)  == \E k \in (p + 1)..(r - 1) : ByteOf(x, k) = Newline

(* Up to e: what reopened the literal after a quote is on another line. *)
LinesApart(x, d, e) ==
    \A p, r \in QuotesIn(x, d, e) :
        Even(x, d, p + 1) /\ p + 1 < r /\ BlankFrom(x, p, r) => LineFrom(x, p, r)

LEMMA OddOrEven ==
  \A n \in Nat : n % 2 \in {0, 1} /\ ((n + 1) % 2 = 0 <=> n % 2 # 0)
OBVIOUS

LEMMA QuotesFinite ==
  ASSUME NEW x, NEW d \in Nat, NEW e \in Nat
  PROVE  IsFiniteSet(QuotesIn(x, d, e)) /\ Cardinality(QuotesIn(x, d, e)) \in Nat
<1>1. IsFiniteSet(d..(e - 1))
  BY FS_Interval
<1>2. QuotesIn(x, d, e) \in SUBSET (d..(e - 1))
  BY DEF QuotesIn
<1>3. IsFiniteSet(QuotesIn(x, d, e))
  BY <1>1, <1>2, FS_Subset
<1> QED
  BY <1>3, FS_CardinalityType

(* Bytes that are no quotes add none. *)
LEMMA NoQuotes ==
  ASSUME NEW x, NEW d \in Nat, NEW e \in Nat, NEW f \in Nat, d <= e, e <= f,
         \A k \in e..(f - 1) : ByteOf(x, k) # QuoteOf(x, d)
  PROVE  /\ QuotesIn(x, d, f) = QuotesIn(x, d, e)
         /\ Even(x, d, f) <=> Even(x, d, e)
         /\ LinesApart(x, d, f) <=> LinesApart(x, d, e)
<1>1. \A k : k \in d..(f - 1) <=> k \in d..(e - 1) \/ k \in e..(f - 1)
  OBVIOUS
<1>2. QuotesIn(x, d, f) = QuotesIn(x, d, e)
  BY <1>1, Zenon DEF QuotesIn
<1> QED
  BY <1>2, Zenon DEF Even, LinesApart

(* A quote adds one. *)
LEMMA OneQuote ==
  ASSUME NEW x, NEW d \in Nat, NEW e \in Nat, d <= e, ByteOf(x, e) = QuoteOf(x, d)
  PROVE  /\ QuotesIn(x, d, e + 1) = QuotesIn(x, d, e) \cup {e}
         /\ Even(x, d, e + 1) <=> ~Even(x, d, e)
<1>1. \A k : k \in d..((e + 1) - 1) <=> k \in d..(e - 1) \/ k = e
  OBVIOUS
<1>2. QuotesIn(x, d, e + 1) = QuotesIn(x, d, e) \cup {e}
  BY <1>1, Zenon DEF QuotesIn
<1>3. e \notin QuotesIn(x, d, e)
  BY DEF QuotesIn
<1>4. IsFiniteSet(QuotesIn(x, d, e)) /\ Cardinality(QuotesIn(x, d, e)) \in Nat
  BY QuotesFinite
<1>5. Cardinality(QuotesIn(x, d, e) \cup {e}) = Cardinality(QuotesIn(x, d, e)) + 1
  BY <1>3, <1>4, FS_AddElement
<1> QED
  BY <1>2, <1>4, <1>5, OddOrEven, Zenon DEF Even

LEMMA BlankIsNoQuote == \A x, d : QuoteOf(x, d) \notin Blank
BY SMT DEF QuoteOf, Quote, DoubleQuote, Blank

(* The quote that opens a literal. *)
LEMMA FirstQuote ==
  ASSUME NEW x, NEW d \in Nat, NEW e \in Nat, d <= e, ByteOf(x, e) = QuoteOf(x, d),
         \A k \in d..(e - 1) : ByteOf(x, k) # QuoteOf(x, d)
  PROVE  ~Even(x, d, e + 1) /\ LinesApart(x, d, e + 1)
<1>1. QuotesIn(x, d, e) = {}
  BY Zenon DEF QuotesIn
<1>2. Even(x, d, e)
  BY <1>1, FS_EmptySet DEF Even
<1>3. QuotesIn(x, d, e + 1) = {e} /\ ~Even(x, d, e + 1)
  BY <1>1, <1>2, OneQuote
<1>4. ~(e + 1 < e)
  OBVIOUS
<1> QED
  BY <1>3, <1>4 DEF LinesApart

(* One that closes it: it was open, so no quote and blanks precede. *)
LEMMA ClosingQuote ==
  ASSUME NEW x, NEW d \in Nat, NEW e \in Nat, d <= e, ByteOf(x, e) = QuoteOf(x, d),
         ~Even(x, d, e), LinesApart(x, d, e)
  PROVE  Even(x, d, e + 1) /\ LinesApart(x, d, e + 1)
<1>1. QuotesIn(x, d, e + 1) = QuotesIn(x, d, e) \cup {e} /\ Even(x, d, e + 1)
  BY OneQuote
<1>2. ASSUME NEW p \in QuotesIn(x, d, e + 1), NEW r \in QuotesIn(x, d, e + 1),
             Even(x, d, p + 1), p + 1 < r, BlankFrom(x, p, r)
      PROVE  LineFrom(x, p, r)
  <2>1. p \in Nat /\ r \in Nat /\ d <= p /\ r <= e
    BY DEF QuotesIn
  <2>2. p # e /\ p \in QuotesIn(x, d, e)
    BY <1>1, <1>2, <2>1
  <2>3. CASE r = e
    <3>1. \A k \in (p + 1)..(e - 1) : ByteOf(x, k) # QuoteOf(x, d)
      BY <1>2, <2>3, BlankIsNoQuote, Zenon DEF BlankFrom
    <3>2. d <= p + 1 /\ p + 1 <= e /\ p + 1 \in Nat
      BY <1>2, <2>1, <2>3
    <3>3. Even(x, d, e)
      BY <1>2, <3>1, <3>2, NoQuotes
    <3> QED
      BY <3>3
  <2>4. CASE r # e
    <3>1. r \in QuotesIn(x, d, e)
      BY <1>1, <2>4
    <3> QED
      BY <1>2, <2>2, <3>1 DEF LinesApart
  <2> QED
    BY <2>3, <2>4
<1> QED
  BY <1>1, <1>2 DEF LinesApart

(* One that opens it again, after the one at c. *)
LEMMA ReopeningQuote ==
  ASSUME NEW x, NEW d \in Nat, NEW c \in Nat, NEW e \in Nat, d <= c, c < e,
         ByteOf(x, c) = QuoteOf(x, d), ByteOf(x, e) = QuoteOf(x, d), BlankFrom(x, c, e),
         e = c + 1 \/ LineFrom(x, c, e),
         Even(x, d, e), LinesApart(x, d, e)
  PROVE  ~Even(x, d, e + 1) /\ LinesApart(x, d, e + 1)
<1>1. QuotesIn(x, d, e + 1) = QuotesIn(x, d, e) \cup {e} /\ ~Even(x, d, e + 1)
  BY OneQuote
<1>2. ASSUME NEW p \in QuotesIn(x, d, e + 1), NEW r \in QuotesIn(x, d, e + 1),
             Even(x, d, p + 1), p + 1 < r, BlankFrom(x, p, r)
      PROVE  LineFrom(x, p, r)
  <2>1. p \in Nat /\ r \in Nat /\ d <= p /\ r <= e /\ p < e
    BY <1>2 DEF QuotesIn
  <2>2. p \in QuotesIn(x, d, e) /\ ByteOf(x, p) = QuoteOf(x, d)
    BY <1>1, <2>1 DEF QuotesIn
  <2>3. CASE r = e
    <3>1. p = c
      <4>1. CASE p < c
        <5>1. c \in (p + 1)..(r - 1)
          BY <2>1, <2>3, <4>1
        <5> QED
          BY <1>2, <5>1, BlankIsNoQuote DEF BlankFrom
      <4>2. CASE c < p
        <5>1. p \in (c + 1)..(e - 1)
          BY <2>1, <4>2
        <5> QED
          BY <2>2, <5>1, BlankIsNoQuote DEF BlankFrom
      <4> QED
        BY <2>1, <4>1, <4>2
    <3>2. e # c + 1
      BY <1>2, <2>3, <3>1
    <3> QED
      BY <2>3, <3>1, <3>2
  <2>4. CASE r # e
    <3>1. r \in QuotesIn(x, d, e)
      BY <1>1, <2>4
    <3> QED
      BY <1>2, <2>2, <3>1 DEF LinesApart
  <2> QED
    BY <2>3, <2>4
<1> QED
  BY <1>1, <1>2 DEF LinesApart

-----------------------------------------------------------------------------
(* What JoinedAcrossLines says of one token of the text x.                 *)

NoEscape(x, d, e) == \A p \in d..e : ByteOf(x, p) # Backslash
QuotesTo(x, t, p) == {r \in QuotesIn(x, t.pos, t.end) : r <= p}

JoinRight(x, t) ==
    /\ t.id \in Literals /\ QuotesIn(x, t.pos, t.end) # {} /\ ByteOf(x, t.pos) # Dollar
    /\ NoEscape(x, t.pos, t.end)
    => /\ \A p, r \in QuotesIn(x, t.pos, t.end) :
             Cardinality(QuotesTo(x, t, p)) % 2 = 0 /\ p + 1 < r /\ BlankFrom(x, p, r) => LineFrom(x, p, r)
       /\ ByteOf(x, t.end) = QuoteOf(x, t.pos) =>
             \A p \in QuotesIn(x, t.pos, t.end) : BlankFrom(x, p, t.end) => ~LineFrom(x, p, t.end)

LEMMA JoinsAre == JoinedAcrossLines <=> \A i \in 1..Len(tokens) : JoinRight(in, tokens[i])
BY Zenon DEF JoinedAcrossLines, JoinRight, QuotesIn, QuotesTo, QuoteOf, NoEscape, BlankFrom, LineFrom,
             PeekAt, ByteOf

LEMMA JoinsAreNext ==
  JoinedAcrossLines' <=> \A i \in 1..Len(tokens') : JoinRight(in', tokens'[i])
BY Zenon DEF JoinedAcrossLines, JoinRight, QuotesIn, QuotesTo, QuoteOf, NoEscape, BlankFrom, LineFrom,
             PeekAt, ByteOf

(* Inside a literal, before e. *)
LiteralOpen(x, d, e) ==
    NoEscape(x, d, e) => ~Even(x, d, e) /\ LinesApart(x, d, e)

(* After it: blanks follow its last quote. *)
LiteralClosed(x, d, e) ==
    NoEscape(x, d, e) =>
        /\ LinesApart(x, d, e)
        /\ \E c \in QuotesIn(x, d, e) :
              /\ BlankFrom(x, c, e)
              /\ ByteOf(x, e) = QuoteOf(x, d) => ~LineFrom(x, c, e)

LEMMA ClosedJoins ==
  ASSUME NEW x, NEW t, t.pos \in Nat, t.end \in Nat, LiteralClosed(x, t.pos, t.end)
  PROVE  JoinRight(x, t)
<1> DEFINE d == t.pos
           e == t.end
           Q == QuotesIn(x, d, e)
<1> SUFFICES ASSUME NoEscape(x, d, e)
             PROVE  /\ \A p, r \in Q :
                          Cardinality(QuotesTo(x, t, p)) % 2 = 0 /\ p + 1 < r /\ BlankFrom(x, p, r)
                          => LineFrom(x, p, r)
                    /\ ByteOf(x, e) = QuoteOf(x, d) => \A p \in Q : BlankFrom(x, p, e) => ~LineFrom(x, p, e)
  BY DEF JoinRight
<1>1. ASSUME NEW p \in Q, NEW r \in Q, Cardinality(QuotesTo(x, t, p)) % 2 = 0, p + 1 < r, BlankFrom(x, p, r)
      PROVE  LineFrom(x, p, r)
  <2>1. p \in Nat /\ d <= p /\ p < e
    BY DEF QuotesIn
  <2>2. \A k : k \in d..(e - 1) /\ k <= p <=> k \in d..((p + 1) - 1)
    BY <2>1
  <2>3. QuotesTo(x, t, p) = QuotesIn(x, d, p + 1)
    BY <2>2, Zenon DEF QuotesTo, QuotesIn
  <2>4. Even(x, d, p + 1)
    BY <1>1, <2>3 DEF Even
  <2> QED
    BY <1>1, <2>4 DEF LiteralClosed, LinesApart
<1>2. ASSUME ByteOf(x, e) = QuoteOf(x, d), NEW p \in Q, BlankFrom(x, p, e)
      PROVE  ~LineFrom(x, p, e)
  <2>1. PICK c \in Q : BlankFrom(x, c, e) /\ ~LineFrom(x, c, e)
    BY <1>2 DEF LiteralClosed
  <2>2. /\ p \in Nat /\ p < e /\ ByteOf(x, p) = QuoteOf(x, d)
        /\ c \in Nat /\ c < e /\ ByteOf(x, c) = QuoteOf(x, d)
    BY DEF QuotesIn
  <2>3. CASE c < p
    <3>1. p \in (c + 1)..(e - 1)
      BY <2>2, <2>3
    <3> QED
      BY <2>1, <2>2, <3>1, BlankIsNoQuote DEF BlankFrom
  <2>4. CASE p < c
    <3>1. c \in (p + 1)..(e - 1)
      BY <2>2, <2>4
    <3> QED
      BY <1>2, <2>2, <3>1, BlankIsNoQuote DEF BlankFrom
  <2>5. CASE p = c
    BY <2>1, <2>5
  <2> QED
    BY <2>2, <2>3, <2>4, <2>5
<1> QED
  BY <1>1, <1>2

LEMMA LessEscape ==
  ASSUME NEW x, NEW d \in Nat, NEW e \in Nat, NEW f \in Nat, e <= f, NoEscape(x, d, f)
  PROVE  NoEscape(x, d, e)
<1>1. \A k \in d..e : k \in d..f
  OBVIOUS
<1> QED
  BY <1>1 DEF NoEscape

(* In a literal, byte by byte.                                             *)
LEMMA OtherByte ==
  ASSUME NEW x, NEW d \in Nat, NEW e \in Nat, d <= e, LiteralOpen(x, d, e),
         ByteOf(x, e) # QuoteOf(x, d)
  PROVE  LiteralOpen(x, d, e + 1)
<1>1. \A k \in e..((e + 1) - 1) : ByteOf(x, k) # QuoteOf(x, d)
  OBVIOUS
<1>2. e + 1 \in Nat /\ e <= e + 1
  OBVIOUS
<1>3. /\ Even(x, d, e + 1) <=> Even(x, d, e)
      /\ LinesApart(x, d, e + 1) <=> LinesApart(x, d, e)
  BY <1>1, <1>2, NoQuotes
<1> QED
  BY <1>2, <1>3, LessEscape DEF LiteralOpen

LEMMA QuoteThenBlanks ==
  ASSUME NEW x, NEW d \in Nat, NEW c \in Nat, NEW e \in Nat, d <= c, c < e, LiteralOpen(x, d, c),
         ByteOf(x, c) = QuoteOf(x, d), BlankFrom(x, c, e), NoEscape(x, d, e)
  PROVE  Even(x, d, e) /\ LinesApart(x, d, e) /\ c \in QuotesIn(x, d, e)
<1>1. NoEscape(x, d, c)
  BY LessEscape
<1>2. Even(x, d, c + 1) /\ LinesApart(x, d, c + 1)
  BY <1>1, ClosingQuote DEF LiteralOpen
<1>3. \A k \in (c + 1)..(e - 1) : ByteOf(x, k) # QuoteOf(x, d)
  BY BlankIsNoQuote, Zenon DEF BlankFrom
<1>4. c + 1 \in Nat /\ d <= c + 1 /\ c + 1 <= e /\ c \in d..(e - 1)
  OBVIOUS
<1>5. Even(x, d, e) /\ LinesApart(x, d, e)
  BY <1>2, <1>3, <1>4, NoQuotes
<1> QED
  BY <1>4, <1>5 DEF QuotesIn

LEMMA LiteralCloses ==
  ASSUME NEW x, NEW d \in Nat, NEW c \in Nat, NEW e \in Nat, d <= c, c < e, LiteralOpen(x, d, c),
         ByteOf(x, c) = QuoteOf(x, d), BlankFrom(x, c, e),
         ByteOf(x, e) = QuoteOf(x, d) => ~LineFrom(x, c, e)
  PROVE  LiteralClosed(x, d, e)
BY QuoteThenBlanks DEF LiteralClosed

LEMMA LiteralReopens ==
  ASSUME NEW x, NEW d \in Nat, NEW c \in Nat, NEW e \in Nat, d <= c, c < e, LiteralOpen(x, d, c),
         ByteOf(x, c) = QuoteOf(x, d), ByteOf(x, e) = QuoteOf(x, d), BlankFrom(x, c, e),
         e = c + 1 \/ LineFrom(x, c, e)
  PROVE  LiteralOpen(x, d, e + 1)
<1> SUFFICES ASSUME NoEscape(x, d, e + 1)
             PROVE  ~Even(x, d, e + 1) /\ LinesApart(x, d, e + 1)
  BY DEF LiteralOpen
<1>1. e + 1 \in Nat /\ e <= e + 1
  OBVIOUS
<1>2. NoEscape(x, d, e)
  BY <1>1, LessEscape
<1>3. Even(x, d, e) /\ LinesApart(x, d, e)
  BY <1>2, QuoteThenBlanks
<1> QED
  BY <1>3, ReopeningQuote

LEMMA LiteralBegins ==
  ASSUME NEW x, NEW d \in Nat, NEW e \in Nat, d <= e, ByteOf(x, e) = QuoteOf(x, d),
         \A k \in d..(e - 1) : ByteOf(x, k) # QuoteOf(x, d)
  PROVE  LiteralOpen(x, d, e + 1)
BY FirstQuote DEF LiteralOpen

-----------------------------------------------------------------------------
(* Literals, step by step.                                                 *)

JoinInv ==
    /\ JoinedAcrossLines
    /\ at \in InLiteral => /\ lit.quote = QuoteOf(in, lval.pos)
                           /\ at # "string" => lit.quote = Quote
                           /\ LiteralOpen(in, lval.pos, pos)
    /\ at = "finish" => LiteralClosed(in, lval.pos, pos)

LEMMA JoinsMove ==
  ASSUME JoinInv, in' = in, tokens' = tokens,
         at' \in InLiteral => /\ lit'.quote = QuoteOf(in, lval'.pos)
                              /\ at' # "string" => lit'.quote = Quote
                              /\ LiteralOpen(in, lval'.pos, pos'),
         at' = "finish" => LiteralClosed(in, lval'.pos, pos')
  PROVE  JoinInv'
<1>1. \A i \in 1..Len(tokens') : JoinRight(in', tokens'[i])
  BY JoinsAre DEF JoinInv
<1>2. JoinedAcrossLines'
  BY <1>1, JoinsAreNext
<1> QED
  BY <1>2 DEF JoinInv, InLiteral

LEMMA JoinsEmit ==
  ASSUME ScanInv, JoinInv, in' = in, NEW id, NEW p, NEW str, NEW q, Emit(id, p, str, q),
         JoinRight(in, [id |-> id, pos |-> p, str |-> str, end |-> q])
  PROVE  JoinInv'
<1>1. /\ at' = "out"
      /\ \A i \in 1..Len(tokens') :
            \/ tokens'[i] = [id |-> id, pos |-> p, str |-> str, end |-> q]
            \/ i \in 1..Len(tokens) /\ tokens'[i] = tokens[i]
  BY EmitTokens
<1>2. \A i \in 1..Len(tokens) : JoinRight(in, tokens[i])
  BY JoinsAre DEF JoinInv
<1>3. \A i \in 1..Len(tokens') : JoinRight(in', tokens'[i])
  BY <1>1, <1>2, Zenon
<1>4. JoinedAcrossLines'
  BY <1>3, JoinsAreNext
<1> QED
  BY <1>1, <1>4 DEF JoinInv, InLiteral

(* A token that is no literal, or one in dollars. *)
LEMMA NoJoinsEmit ==
  ASSUME ScanInv, JoinInv, in' = in, NEW id, NEW p, NEW str, NEW q, Emit(id, p, str, q),
         id \notin Literals \/ ByteOf(in, p) = Dollar
  PROVE  JoinInv'
<1> DEFINE t == [id |-> id, pos |-> p, str |-> str, end |-> q]
<1>1. t.id = id /\ t.pos = p
  OBVIOUS
<1> HIDE DEF t
<1>2. JoinRight(in, t)
  BY <1>1 DEF JoinRight
<1> QED
  BY <1>2, JoinsEmit DEF t

(* A name has no quotes. *)
LEMMA IdentJoins ==
  ASSUME ScanInv, JoinInv, Ident, NEW id, NEW str, NEW q, Emit(id, pos, str, q)
  PROVE  JoinInv'
<1> DEFINE t == [id |-> id, pos |-> pos, str |-> str, end |-> q]
<1>1. /\ in' = in
      /\ \E i, s : Emit(i, pos, s, SpanEnd(pos, IdentMiddle))
  BY Zenon DEF Ident
<1>2. q = SpanEnd(pos, IdentMiddle)
  BY <1>1 DEF Emit
<1>3. \A r \in pos..(q - 1) : ByteOf(in, r) \in IdentMiddle
  BY <1>2, Facts, SpanSpec
<1>4. QuoteOf(in, pos) \notin IdentMiddle
  BY SMT DEF QuoteOf, Quote, DoubleQuote, IdentMiddle, IdentStart, Upper, Lower, High, Digit,
             Underscore, Dollar
<1>5. t.pos = pos /\ t.end = q
  OBVIOUS
<1> HIDE DEF t
<1>6. QuotesIn(in, t.pos, t.end) = {}
  BY <1>3, <1>4, <1>5, Zenon DEF QuotesIn
<1>7. JoinRight(in, t)
  BY <1>6, Zenon DEF JoinRight
<1> QED
  BY <1>1, <1>7, JoinsEmit DEF t

LEMMA OpenLiteralJoins ==
  ASSUME ScanInv, JoinInv, OpenLiteral
  PROVE  JoinInv'
<1>1. PICK n \in 1..2 :
         /\ Opens(n)
         /\ Enter(IF Peek = 66 THEN "bits" ELSE IF Peek \in {120, 88} THEN "hex" ELSE "string", n)
  BY DEF OpenLiteral
<1>2. /\ in' = in /\ tokens' = tokens /\ pos' = pos + n /\ lval'.pos = pos
      /\ at' = (IF Peek = 66 THEN "bits" ELSE IF Peek \in {120, 88} THEN "hex" ELSE "string")
      /\ lit'.quote = IF Peek = DoubleQuote THEN DoubleQuote ELSE Quote
  BY <1>1 DEF OpenLiteral, Enter
<1>3. pos \in Nat /\ Peek = ByteOf(in, pos) /\ PeekAt(pos + 1) = ByteOf(in, pos + 1)
  BY Facts, PeekIs
<1>4. lit'.quote = QuoteOf(in, pos)
  BY <1>2, <1>3 DEF QuoteOf
<1>5. at' # "string" => lit'.quote = Quote
  <2>1. 66 # DoubleQuote /\ DoubleQuote \notin {120, 88}
    BY DEF DoubleQuote
  <2> QED
    BY <1>2, <2>1
<1>6. LiteralOpen(in, pos, pos + n)
  <2>1. CASE Peek \in {Quote, DoubleQuote}
    <3>1. n = 1
      BY <1>1, <2>1 DEF Opens, Quote, DoubleQuote
    <3>2. ByteOf(in, pos) = QuoteOf(in, pos)
      BY <1>3, <2>1 DEF QuoteOf
    <3>3. \A k \in pos..(pos - 1) : FALSE
      BY <1>3
    <3> QED
      BY <1>3, <3>1, <3>2, <3>3, LiteralBegins
  <2>2. CASE Peek \notin {Quote, DoubleQuote}
    <3>1. n = 2 /\ PeekAt(pos + 1) = Quote
      BY <1>1, <2>2 DEF Opens
    <3>2. QuoteOf(in, pos) = Quote /\ ByteOf(in, pos) # Quote
      BY <1>3, <2>2 DEF QuoteOf
    <3>3. \A k \in pos..((pos + 1) - 1) : k = pos
      BY <1>3
    <3>4. LiteralOpen(in, pos, (pos + 1) + 1)
      BY <1>3, <3>1, <3>2, <3>3, LiteralBegins
    <3>5. (pos + 1) + 1 = pos + n
      BY <1>3, <3>1
    <3> QED
      BY <3>4, <3>5
  <2> QED
    BY <2>1, <2>2
<1>7. at' # "finish"
  BY <1>2
<1> QED
  BY <1>2, <1>4, <1>5, <1>6, <1>7, JoinsMove

(* The closing quote: a newline decides whether the literal goes on. *)
LEMMA CloseQuoteJoins ==
  ASSUME ScanInv, JoinInv, at \in InLiteral, Peek = lit.quote, NEW c, CloseQuote(c)
  PROVE  JoinInv'
<1> DEFINE p == SpanEnd(pos + 1, Blank)
           d == lval.pos
<1>1. /\ in' = in /\ lit' = lit /\ lval' = lval /\ tokens' = tokens
      /\ \/ Joins(pos + 1) /\ pos' = p + 1 /\ at' = at
         \/ ~Joins(pos + 1) /\ pos' = p /\ at' = "finish"
  BY DEF CloseQuote, literalRest
<1>2. /\ in \in Text /\ Len(in) \in Nat /\ pos \in Nat /\ d \in Nat /\ d < pos /\ Locals
  BY LiteralFacts
<1>3. /\ lit.quote = QuoteOf(in, d) /\ (at # "string" => lit.quote = Quote)
      /\ LiteralOpen(in, d, pos)
  BY DEF JoinInv
<1>4. pos + 1 \in 0..Len(in)
  <2>1. lit.quote # Eof
    BY <1>2 DEF Locals, Quote, DoubleQuote, Eof
  <2> QED
    BY <2>1, PeekStep
<1>5. p \in (pos + 1)..Len(in) /\ \A r \in (pos + 1)..(p - 1) : ByteOf(in, r) \in Blank
  BY <1>2, <1>4, SpanSpec
<1>6. Joins(pos + 1) <=> ByteOf(in, p) = QuoteOf(in, d) /\ LineFrom(in, pos, p)
  BY <1>3, PeekIs, Zenon DEF Joins, LineFrom
<1> HIDE DEF p, d
<1>7. p \in Nat /\ pos < p /\ d <= pos /\ BlankFrom(in, pos, p) /\ ByteOf(in, pos) = QuoteOf(in, d)
  BY <1>2, <1>3, <1>5, PeekIs DEF BlankFrom
<1>8. CASE Joins(pos + 1)
  <2>1. LiteralOpen(in, d, p + 1)
    BY <1>2, <1>3, <1>6, <1>7, <1>8, LiteralReopens
  <2>2. pos' = p + 1 /\ at' = at /\ at' # "finish"
    BY <1>1, <1>8 DEF InLiteral
  <2> QED
    BY <1>1, <1>3, <2>1, <2>2, JoinsMove DEF d
<1>9. CASE ~Joins(pos + 1)
  <2>1. LiteralClosed(in, d, p)
    BY <1>2, <1>3, <1>6, <1>7, <1>9, LiteralCloses
  <2>2. pos' = p /\ at' = "finish" /\ at' \notin InLiteral
    BY <1>1, <1>9 DEF InLiteral
  <2> QED
    BY <1>1, <2>1, <2>2, JoinsMove DEF d
<1> QED
  BY <1>8, <1>9

(* The loop goes on. *)
LEMMA ContinueJoins ==
  ASSUME JoinInv, at \in InLiteral, in' = in, tokens' = tokens, lval' = lval, lit' = lit, at' = at,
         LiteralOpen(in, lval.pos, pos')
  PROVE  JoinInv'
<1>1. at' # "finish"
  BY DEF InLiteral
<1> QED
  BY <1>1, JoinsMove DEF JoinInv

(* The literal is refused. *)
LEMMA RefuseJoins ==
  ASSUME ScanInv, JoinInv, NEW q, Refuse(q)
  PROVE  JoinInv'
<1>1. in' = in /\ Emit("ERROR", lval.pos, <<>>, q)
  BY DEF Refuse, Fail, literalRest
<1>2. "ERROR" \notin Literals
  BY DEF Literals
<1> QED
  BY <1>1, <1>2, NoJoinsEmit

LEMMA HexPairJoins ==
  ASSUME ScanInv, JoinInv, HexPair
  PROVE  JoinInv'
<1>1. /\ at = "hex" /\ at \in InLiteral /\ lit.quote = Quote /\ Quote = QuoteOf(in, lval.pos)
      /\ LiteralOpen(in, lval.pos, pos)
  BY DEF HexPair, InLiteral, JoinInv
<1>2. CASE Peek = Quote /\ CloseQuote(<<>>)
  BY <1>1, <1>2, CloseQuoteJoins
<1>3. CASE Peek \in HexDigit /\ pos' = pos + 1 /\ UNCHANGED <<lval, at, start, tokens, literalRest>>
  <2>1. Quote \notin HexDigit
    BY SMT DEF Quote, HexDigit, Digit
  <2>2. /\ pos \in Nat /\ lval.pos \in Nat /\ lval.pos <= pos /\ Peek = ByteOf(in, pos)
    BY <1>1, LiteralFacts, PeekIs
  <2>3. LiteralOpen(in, lval.pos, pos + 1)
    BY <1>1, <1>3, <2>1, <2>2, OtherByte
  <2>4. in' = in /\ lit' = lit
    BY <1>3 DEF literalRest
  <2> QED
    BY <1>1, <1>3, <2>3, <2>4, ContinueJoins
<1>4. CASE \E q : Refuse(q)
  BY <1>4, RefuseJoins
<1> QED
  BY <1>2, <1>3, <1>4, Zenon DEF HexPair

LEMMA BitJoins ==
  ASSUME ScanInv, JoinInv, Bit
  PROVE  JoinInv'
<1>1. /\ at = "bits" /\ at \in InLiteral /\ lit.quote = Quote /\ Quote = QuoteOf(in, lval.pos)
      /\ LiteralOpen(in, lval.pos, pos)
  BY DEF Bit, InLiteral, JoinInv
<1>2. CASE Peek = Quote /\ CloseQuote(<<>>)
  BY <1>1, <1>2, CloseQuoteJoins
<1>3. CASE Peek \in {48, 49} /\ Continue(pos + 1, start)
  <2>1. Quote \notin {48, 49}
    BY DEF Quote
  <2>2. /\ pos \in Nat /\ lval.pos \in Nat /\ lval.pos <= pos /\ Peek = ByteOf(in, pos)
    BY <1>1, LiteralFacts, PeekIs
  <2>3. LiteralOpen(in, lval.pos, pos + 1)
    BY <1>1, <1>3, <2>1, <2>2, OtherByte
  <2>4. pos' = pos + 1 /\ lval' = lval /\ at' = at /\ tokens' = tokens /\ in' = in /\ lit' = lit
    BY <1>3 DEF Continue, literalRest
  <2> QED
    BY <1>1, <2>3, <2>4, ContinueJoins
<1>4. CASE \E q : Refuse(q)
  BY <1>4, RefuseJoins
<1> QED
  BY <1>2, <1>3, <1>4, Zenon DEF Bit

LEMMA QuoteInStringJoins ==
  ASSUME ScanInv, JoinInv, QuoteInString
  PROVE  JoinInv'
<1>1. /\ at = "string" /\ at \in InLiteral /\ lit.quote = QuoteOf(in, lval.pos)
      /\ LiteralOpen(in, lval.pos, pos) /\ Peek = lit.quote
  BY DEF QuoteInString, InLiteral, JoinInv
<1>2. CASE \E c : CloseQuote(c)
  BY <1>1, <1>2, CloseQuoteJoins
<1>3. CASE PeekAt(pos + 1) = lit.quote /\ Continue(pos + 2, pos + 1)
  <2>1. /\ pos \in Nat /\ lval.pos \in Nat /\ lval.pos <= pos
        /\ Peek = ByteOf(in, pos) /\ PeekAt(pos + 1) = ByteOf(in, pos + 1)
    BY <1>1, LiteralFacts, PeekIs
  <2>2. \A k \in (pos + 1)..((pos + 1) - 1) : FALSE
    BY <2>1
  <2>3. BlankFrom(in, pos, pos + 1)
    BY <2>2, Zenon DEF BlankFrom
  <2>4. (pos + 1) + 1 = pos + 2 /\ pos + 1 \in Nat /\ pos < pos + 1
    BY <2>1
  <2>5. LiteralOpen(in, lval.pos, (pos + 1) + 1)
    BY <1>1, <1>3, <2>1, <2>3, <2>4, LiteralReopens
  <2>6. pos' = pos + 2 /\ lval' = lval /\ at' = at /\ tokens' = tokens /\ in' = in /\ lit' = lit
    BY <1>3 DEF Continue, literalRest
  <2> QED
    BY <1>1, <2>4, <2>5, <2>6, ContinueJoins
<1> QED
  BY <1>2, <1>3, Zenon DEF QuoteInString

(* A backslash: nothing is said of a text with escapes. *)
LEMMA EscapeJoins ==
  ASSUME ScanInv, JoinInv, Escape
  PROVE  JoinInv'
<1>1. /\ at = "string" /\ at \in InLiteral /\ Peek = Backslash
  BY DEF Escape, InLiteral
<1>2. /\ pos \in Nat /\ lval.pos \in Nat /\ lval.pos <= pos /\ ByteOf(in, pos) = Backslash
  BY <1>1, LiteralFacts, PeekIs
<1>3. ASSUME NEW q \in Nat, pos <= q, NEW first, Continue(q, first)
      PROVE  JoinInv'
  <2>1. pos \in lval.pos..q
    BY <1>2, <1>3
  <2>2. LiteralOpen(in, lval.pos, q)
    BY <1>2, <2>1 DEF LiteralOpen, NoEscape
  <2>3. pos' = q /\ lval' = lval /\ at' = at /\ tokens' = tokens /\ in' = in /\ lit' = lit
    BY <1>3 DEF Continue, literalRest
  <2> QED
    BY <1>1, <2>2, <2>3, ContinueJoins
<1>4. CASE \E q : Refuse(q)
  BY <1>4, RefuseJoins
<1>5. CASE Continue(pos + 2, pos + 1) \/ Continue(pos + 1, pos + 1)
  BY <1>2, <1>3, <1>5
<1>6. CASE LET n == Unescape(pos + 1).len IN Continue(pos + 1 + n, pos + 1 + n)
  <2>1. in \in Text /\ pos + 1 \in 0..Len(in)
    BY <1>1, Facts, NotEof, PeekStep
  <2>2. Unescape(pos + 1).len \in Nat
    BY <2>1, UnescapeIn
  <2> QED
    BY <1>2, <1>3, <1>6, <2>2
<1> QED
  BY <1>4, <1>5, <1>6, Zenon DEF Escape

LEMMA StringByteJoins ==
  ASSUME ScanInv, JoinInv, StringByte
  PROVE  JoinInv'
<1>1. /\ at = "string" /\ at \in InLiteral /\ lit.quote = QuoteOf(in, lval.pos)
      /\ LiteralOpen(in, lval.pos, pos) /\ Peek # lit.quote
  BY DEF StringByte, InLiteral, JoinInv
<1>2. CASE Refuse(pos)
  BY <1>2, RefuseJoins
<1>3. CASE Continue(pos + 1, start)
  <2>1. /\ pos \in Nat /\ lval.pos \in Nat /\ lval.pos <= pos /\ Peek = ByteOf(in, pos)
    BY <1>1, LiteralFacts, PeekIs
  <2>2. LiteralOpen(in, lval.pos, pos + 1)
    BY <1>1, <2>1, OtherByte
  <2>3. pos' = pos + 1 /\ lval' = lval /\ at' = at /\ tokens' = tokens /\ in' = in /\ lit' = lit
    BY <1>3 DEF Continue, literalRest
  <2> QED
    BY <1>1, <2>2, <2>3, ContinueJoins
<1> QED
  BY <1>2, <1>3, Zenon DEF StringByte

LEMMA FinishLiteralJoins ==
  ASSUME ScanInv, JoinInv, FinishLiteral
  PROVE  JoinInv'
<1>1. /\ at = "finish" /\ LiteralClosed(in, lval.pos, pos) /\ pos \in Nat /\ lval.pos \in Nat
  BY LiteralFacts DEF FinishLiteral, JoinInv
<1>2. CASE Refuse(pos)
  BY <1>2, RefuseJoins
<1>3. CASE Emit(LiteralKind, lval.pos, LiteralValue, pos) /\ UNCHANGED <<start, half, literalRest>>
  <2> DEFINE t == [id |-> LiteralKind, pos |-> lval.pos, str |-> LiteralValue, end |-> pos]
  <2>1. t.pos = lval.pos /\ t.end = pos /\ in' = in
    BY <1>3 DEF literalRest
  <2> HIDE DEF t
  <2>2. JoinRight(in, t)
    BY <1>1, <2>1, ClosedJoins
  <2> QED
    BY <1>3, <2>1, <2>2, JoinsEmit DEF t
<1> QED
  BY <1>2, <1>3, Zenon DEF FinishLiteral

LEMMA JoinsStep ==
  ASSUME ScanInv, DollarInv, JoinInv, [Scan \/ ScanNext]_scanVars
  PROVE  JoinInv'
<1>0. \A p : p \in InLiteral => p \notin {"blanks", "comment", "token", "number", "dollar", "body", "out"}
  BY DEF InLiteral
<1>1. CASE Scan
  <2>1. in' = in /\ tokens' = tokens /\ at' = "blanks"
    BY <1>1 DEF Scan
  <2> QED
    BY <1>0, <2>1, JoinsMove
<1>2. CASE UNCHANGED scanVars
  <2>1. /\ in' = in /\ tokens' = tokens /\ pos' = pos /\ at' = at /\ lit' = lit /\ lval' = lval
    BY <1>2 DEF scanVars
  <2> QED
    BY <2>1, JoinsMove DEF JoinInv
<1>3. CASE ScanNext
  <2>1. CASE SkipWhitespace
    <3>1. in' = in /\ tokens' = tokens /\ at' \in {"blanks", "comment", "token"}
      BY <2>1 DEF SkipWhitespace
    <3> QED
      BY <1>0, <3>1, JoinsMove
  <2>2. CASE Comment
    <3>1. /\ in' = in
          /\ \/ Emit("ERROR", start, <<>>, pos)
             \/ tokens' = tokens /\ at' \in {"blanks", "comment"}
      BY <2>2 DEF Comment
    <3>2. "ERROR" \notin Literals
      BY DEF Literals
    <3> QED
      BY <1>0, <3>1, <3>2, JoinsMove, NoJoinsEmit
  <2>3. CASE at = "token"
    <3>1. in' = in
      BY <1>3, <2>3, TokenSteps
    <3>2. ASSUME NEW id, NEW str, NEW q, Emit(id, pos, str, q), id \notin Constants, id = "IDENT" => Ident
          PROVE  JoinInv'
      <4>1. CASE id = "IDENT"
        BY <3>2, <4>1, IdentJoins
      <4>2. CASE id # "IDENT"
        BY <3>1, <3>2, <4>2, NoJoinsEmit DEF Constants, Literals
      <4> QED
        BY <4>1, <4>2
    <3>3. CASE OpenLiteral
      BY <3>3, OpenLiteralJoins
    <3>4. CASE OpenNumber \/ OpenDollar
      <4>1. tokens' = tokens /\ at' \in {"number", "dollar"}
        BY <3>4 DEF OpenNumber, OpenDollar, Enter
      <4> QED
        BY <1>0, <3>1, <4>1, JoinsMove
    <3> QED
      BY <1>3, <2>3, <3>2, <3>3, <3>4, TokenSteps, Zenon
  <2>4. CASE at = "number"
    <3>1. \A id \in {"ERROR", "ICONST", "FCONST"} : id \notin Literals
      BY DEF Literals
    <3>2. /\ in' = in
          /\ \/ \E id \in {"ERROR", "ICONST", "FCONST"} : \E str, q : Emit(id, lval.pos, str, q)
             \/ tokens' = tokens /\ at' = "number"
      <4>1. \A id \in {"ICONST", "FCONST"} : id \in {"ERROR", "ICONST", "FCONST"}
        OBVIOUS
      <4>2. "ERROR" \in {"ERROR", "ICONST", "FCONST"}
        OBVIOUS
      <4> QED
        BY <1>3, <2>4, <4>1, <4>2, NumberSteps, Zenon
    <3> QED
      BY <1>0, <3>1, <3>2, JoinsMove, NoJoinsEmit
  <2>5. CASE at \in InLiteral \cup {"finish"}
    <3>1. HexPair \/ Bit \/ QuoteInString \/ Escape \/ StringByte \/ FinishLiteral
      BY <1>3, <2>5 DEF ScanNext, SkipWhitespace, Comment, End, Symbol, Ident, Placeholder,
             OpenNumber, OpenDollar, OpenLiteral,
             AnotherDigit, HexMark, DecimalPoint, Exponent, NumberEnd,
             DollarMark, DollarByte, NotDollarQuoted, DollarUnterminated, DollarBody, InLiteral
    <3> QED
      BY <3>1, HexPairJoins, BitJoins, QuoteInStringJoins, EscapeJoins, StringByteJoins, FinishLiteralJoins
  <2>6. CASE at \in InDollars
    <3>1. ByteOf(in, lval.pos) = Dollar
      BY <2>6 DEF InDollars, DollarInv, TagSoFar, TagDone, TagAt
    <3>2. /\ in' = in
          /\ \/ \E id, str, q : Emit(id, lval.pos, str, q)
             \/ tokens' = tokens /\ at' \in InDollars
      BY <1>3, <2>6, DollarSteps, Zenon
    <3>3. \A p \in InDollars : p \notin InLiteral /\ p # "finish"
      BY DEF InDollars, InLiteral
    <3> QED
      BY <3>1, <3>2, <3>3, JoinsMove, NoJoinsEmit
  <2> QED
    BY <1>3, <2>1, <2>2, <2>3, <2>4, <2>5, <2>6, WhereNext
<1> QED
  BY <1>1, <1>2, <1>3

LEMMA JoinsBegin ==
  ASSUME NEW text \in Text, ScannerInit(text)
  PROVE  JoinInv
<1>1. at = "out" /\ tokens = <<>>
  BY DEF ScannerInit
<1>2. \A i \in 1..Len(tokens) : FALSE
  BY <1>1
<1>3. JoinedAcrossLines
  BY <1>2, JoinsAre
<1> QED
  BY <1>1, <1>3 DEF JoinInv, InLiteral

(* For every text: two literals are one exactly when a newline is among the *)
(* blanks between them, in all three loops that decide it (scanHexString,   *)
(* scanBitString and scanString, scan.go:706-931).                          *)
THEOREM LiteralsAlwaysJoinAcrossLines ==
  ASSUME NEW text \in Text
  PROVE  ScannerSpec(text) => []JoinedAcrossLines
<1>1. ScannerInit(text) => ScanInv /\ DollarInv /\ JoinInv
  BY TextsBegin, DollarsBegin, JoinsBegin
<1>2. ScanInv /\ DollarInv /\ JoinInv /\ [Scan \/ ScanNext]_scanVars => ScanInv' /\ DollarInv' /\ JoinInv'
  BY TextsStep, DollarsStep, JoinsStep
<1>3. JoinInv => JoinedAcrossLines
  BY DEF JoinInv
<1> QED
  BY <1>1, <1>2, <1>3, PTL DEF ScannerSpec
=============================================================================
