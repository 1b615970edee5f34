--------------------------- MODULE TokenBuffers ---------------------------
(***************************************************************************)
(* The memory of the scanner's strings (sql/scanner/scan.go): allocBytes,  *)
(* buffer, append, finishString and returnBuffer.                          *)
(*                                                                         *)
(* Strings that cannot be slices of the text are built in one array that   *)
(* Init makes, each taking what the one before left, and are handed out    *)
(* without a copy (unsafe.Pointer).  A Go string must never change, so no  *)
(* byte of one may be written again.                                       *)
(***************************************************************************)
EXTENDS Characters

CONSTANT Spare       \* append allocates this many bytes more than needed, at most

ASSUME SpareAssumption == Spare \in Nat

VARIABLES
    mem,         \* the arrays
    free,        \* bytesPrealloc
    buf,         \* the buffer a string is being built in
    handed       \* the strings handed out: where they are, what they said

bufferVars == <<mem, free, buf, handed>>

(* Bytes from+1 to from+len of an array, the capacity ending at to. *)
NilSlice == [array |-> 0, from |-> 0, len |-> 0, to |-> 0]

Room(s) == s.to - s.from

(* s[n : n + len], which keeps the capacity of s. *)
After(s, n, len) == [array |-> s.array, from |-> s.from + n, len |-> len, to |-> s.to]

Zeros(n) == [i \in 1..n |-> 0]

(* The bytes of array a with those of c from position p on. *)
Written(a, p, c) == [i \in 1..Len(a) |-> IF i \in (p + 1)..(p + Len(c)) THEN c[i - p] ELSE a[i]]

Bytes(a, from, n) == SubSeq(a, from + 1, from + n)

Read(s) == IF s.array = 0 THEN <<>> ELSE Bytes(mem[s.array], s.from, s.len)

BuffersInit(n) ==
    /\ mem = <<Zeros(n)>>
    /\ free = [array |-> 1, from |-> 0, len |-> n, to |-> n]
    /\ buf = NilSlice
    /\ handed = {}

(* allocBytes(Len(c)), filled with c and cast to a string. *)
AllocBytes(c) ==
    LET fits == free.len >= Len(c)
        res  == IF fits
                THEN [array |-> free.array, from |-> free.from,
                      len |-> Len(c), to |-> free.from + Len(c)]
                ELSE [array |-> Len(mem) + 1, from |-> 0, len |-> Len(c), to |-> Len(c)]
    IN  /\ mem' = IF fits
                  THEN IF free.array = 0 THEN mem
                       ELSE [mem EXCEPT ![free.array] = Written(@, free.from, c)]
                  ELSE Append(mem, c)
        /\ free' = IF fits THEN After(free, Len(c), free.len - Len(c)) ELSE free
        /\ handed' = handed \cup {[at |-> res, said |-> c]}
        /\ UNCHANGED buf

(* buffer *)
TakeBuffer ==
    /\ buf' = [free EXCEPT !.len = 0]
    /\ free' = NilSlice
    /\ UNCHANGED <<mem, handed>>

(* append(buf, c...): in place when it fits, else in a new array. *)
AppendBytes(c) ==
    IF buf.from + buf.len + Len(c) <= buf.to
    THEN /\ mem' = IF buf.array = 0 THEN mem
                   ELSE [mem EXCEPT ![buf.array] = Written(@, buf.from + buf.len, c)]
         /\ buf' = [buf EXCEPT !.len = @ + Len(c)]
         /\ UNCHANGED <<free, handed>>
    ELSE \E spare \in 0..Spare :
            LET n == buf.len + Len(c)
            IN  /\ mem' = Append(mem, Read(buf) \o c \o Zeros(spare))
                /\ buf' = [array |-> Len(mem) + 1, from |-> 0, len |-> n, to |-> n + spare]
                /\ UNCHANGED <<free, handed>>

(* Bug: the unused portion starts one byte early. *)
ReturnedBug(b) ==
    IF b.len < Room(b) /\ b.len > 0
    THEN After(b, b.len - 1, 0)
    ELSE free

(* returnBuffer: what bytesPrealloc is afterwards.  buf[len(buf):] has the  *)
(* capacity that is left but no length: buffer takes it, allocBytes never. *)
Returned(b) ==
    IF b.len < Room(b)
    THEN After(b, b.len, 0)
    ELSE free

(* finishString *)
FinishString ==
    /\ handed' = handed \cup {[at |-> buf, said |-> Read(buf)]}
    /\ free' = Returned(buf)
    /\ buf' = NilSlice
    /\ UNCHANGED mem

(* A literal that is refused: its buffer is never returned. *)
DropBuffer ==
    /\ buf' = NilSlice
    /\ UNCHANGED <<mem, free, handed>>

BuffersNext ==
    \/ \E c \in Text : AllocBytes(c)
    \/ \E c \in Text : AppendBytes(c)
    \/ TakeBuffer
    \/ FinishString
    \/ DropBuffer

BuffersSpec(n) == BuffersInit(n) /\ [][BuffersNext]_bufferVars

-----------------------------------------------------------------------------
(* A string that was handed out says what it said: no later token writes   *)
(* into its bytes (finishString and allocBytes hand out the memory that    *)
(* bytesPrealloc owned, scan.go:70-104, and nothing copies it).            *)
StringsKept == \A h \in handed : Read(h.at) = h.said
===========================================================================
