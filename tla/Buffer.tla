------------------------------- MODULE Buffer -------------------------------
(***************************************************************************)
(* The buffer library (Runtime/lib/buffer.c) and the module methods that   *)
(* reach it (Runtime/modules/buffer.h): byte arrays with a size, a         *)
(* capacity and memory that grows.  A method is one step, except that the  *)
(* reserve loop of push and append runs one iteration per step (Grow).     *)
(* Any program is covered: any method may be called with any arguments     *)
(* that pass CT_MODCALL_OBJECT_TYPE_CHECK.  An error that a method raises  *)
(* is final: from MOD_CALL the interpreter then falls through handlers     *)
(* that call no module, so only deletions may follow.                      *)
(***************************************************************************)
EXTENDS Naturals, FiniteSets

CONSTANTS
  Buf,       \* buffer objects
  Gone,      \* what an object that does not exist is
  NoMem,     \* the NULL data pointer
  Raw,       \* the content of a byte that was never written
  Idle,      \* no push or append runs
  Byte,      \* bytes; 0 is one
  Word,      \* a uint32_t counts modulo this: 2^32 scaled down
  MaxBytes,  \* CT_LIB_BUFFER_MAX_SIZE, INT32_MAX: Word \div 2 - 1
  MinCap,    \* the least capacity of a new buffer: 16 scaled down
  Failing    \* whether malloc and realloc may fail

UInt   == 0 .. Word - 1
Memory == UNION {[0 .. n - 1 -> Byte \cup {Raw}] : n \in 1 .. MaxBytes}

(* CtLibBuffer, and a call of push or append whose reserve loop runs.      *)
Record == [size : UInt, cap : 0 .. MaxBytes, mem : Memory \cup {NoMem}]
Call   == [to : Buf, op : {"push", "append"}, at : UInt, count : UInt,
           bytes : Memory \cup {NoMem}, old : Record]

ASSUME BufferAssumption ==
  /\ 0 \in Byte /\ Raw \notin Byte /\ Word \in Nat \ {0}
  /\ MaxBytes \in Nat /\ 2 * MaxBytes < Word
  /\ MinCap \in 2 .. MaxBytes
  /\ Failing \in BOOLEAN
  /\ NoMem \notin Memory /\ Gone \notin Record /\ Idle \notin Call

VARIABLES
  buf,     \* size, cap(acity) and mem(ory) of each buffer, or Gone
  grow,    \* the push or append whose reserve loop runs, or Idle
  fault,   \* the access outside a buffer's memory: at, count, null
  status   \* "running", "error" or "fault" (undefined behaviour)

vars == <<buf, grow, fault, status>>

NoFault == [at |-> 0, count |-> 0, null |-> FALSE]

-----------------------------------------------------------------------------
(* Wrong versions of operators defined below: each is a slip the code could *)
(* make, and some property must notice it.                                 *)
TooLargeNever(n)     == FALSE
FitsExactly(r)       == r.size <= r.cap
ReallocAnew(m, n)    == [i \in 0 .. n - 1 |-> Raw]
ReservedCapOnly(r, n) == IF n <= r.cap THEN r ELSE [r EXCEPT !.cap = n - 1]
NextCapQuarter(c)    == c + c \div 4
AppendAtNewEnd(r, n) == r.size + n

-----------------------------------------------------------------------------
TooLarge(n) == n > MaxBytes

(* The test that ends the loop of _ct_lib_buffer_reserve_if_required, and  *)
(* the capacity it asks for otherwise.                                     *)
Fits(r)    == r.size < r.cap
NextCap(c) == c + c \div 2

(* Where push_bytes puts n bytes: at the size before the call.             *)
AppendAt(r, n) == r.size

Realloc(m, n) ==
  [i \in 0 .. n - 1 |-> IF m # NoMem /\ i \in DOMAIN m THEN m[i] ELSE Raw]

(* Memory m with the n bytes from index i of src put at index at, or set   *)
(* to byte v.                                                              *)
Put(m, at, src, i, n) ==
  [k \in DOMAIN m |-> IF k \in at .. at + n - 1 THEN src[i + (k - at)] ELSE m[k]]
Set(m, at, n, v) ==
  [k \in DOMAIN m |-> IF k \in at .. at + n - 1 THEN v ELSE m[k]]

(* An access to the n bytes from index i of r's memory stays inside it.    *)
Inside(r, i, n) == n = 0 \/ (r.mem # NoMem /\ i + n <= r.cap)

Raise == status' = "error" /\ UNCHANGED <<buf, grow, fault>>

Crash(i, n, isNull) ==
  /\ status' = "fault"
  /\ fault' = [at |-> i, count |-> n, null |-> isNull]
  /\ UNCHANGED <<buf, grow>>

Update(b, r) ==
  /\ buf' = [buf EXCEPT ![b] = r]
  /\ UNCHANGED <<grow, fault, status>>

Ready   == status = "running" /\ grow = Idle
Live(b) == Ready /\ buf[b] # Gone

(* ct_lib_buffer_new: only the bytes below size are set to 0.              *)
Blank(n) ==
  LET c == IF n < MinCap THEN MinCap ELSE n IN
  [size |-> n, cap |-> c,
   mem  |-> [i \in 0 .. c - 1 |-> IF i < n THEN 0 ELSE Raw]]

New(b, n) ==
  /\ Ready /\ buf[b] = Gone
  /\ \/ (TooLarge(n) \/ Failing) /\ Raise
     \/ ~TooLarge(n) /\ Update(b, Blank(n))

(* ct_lib_buffer_del; references may still be dropped after an error.      *)
Delete(b) ==
  /\ status \in {"running", "error"} /\ grow = Idle /\ buf[b] # Gone
  /\ Update(b, Gone)

-----------------------------------------------------------------------------
(* Size and capacity                                                       *)

(* ct_lib_buffer_reserve: what becomes of r, and when it may fail.         *)
Reserved(r, n) ==
  IF n <= r.cap THEN r ELSE [r EXCEPT !.cap = n, !.mem = Realloc(r.mem, n)]
MayFail(r, n) == TooLarge(n) \/ (n > r.cap /\ Failing)

Reserve(b, n) ==
  /\ Live(b)
  /\ \/ MayFail(buf[b], n) /\ Raise
     \/ ~TooLarge(n) /\ Update(b, Reserved(buf[b], n))

(* Growing within the capacity does not clear the bytes gained.            *)
Resize(b, n) ==
  LET r == buf[b]  s == Reserved(r, n) IN
  /\ Live(b) /\ n # r.size
  /\ \/ MayFail(r, n) /\ Raise
     \/ n < r.cap /\ Update(b, [r EXCEPT !.size = n])
     \/ /\ n >= r.cap /\ ~TooLarge(n)
        /\ \/ s.mem = NoMem /\ Crash(r.size, n - r.size, TRUE)
           \/ /\ s.mem # NoMem
              /\ Update(b, [s EXCEPT !.size = n, !.mem = Set(@, r.size, n - r.size, 0)])

(* The result of realloc is not checked; for size 0 it is NULL.            *)
Truncate(b) ==
  LET r == buf[b] IN
  /\ Live(b)
  /\ \/ /\ r.size = 0 \/ Failing
        /\ Update(b, [r EXCEPT !.cap = r.size, !.mem = NoMem])
     \/ /\ r.size # 0
        /\ Update(b, [r EXCEPT !.cap = r.size, !.mem = Realloc(@, r.size)])

-----------------------------------------------------------------------------
(* Bytes                                                                   *)

GetByte(b, i) ==
  /\ Live(b)
  /\ \/ i >= buf[b].size /\ Raise
     \/ /\ i < buf[b].size /\ ~Inside(buf[b], i, 1)
        /\ Crash(i, 1, buf[b].mem = NoMem)

SetByte(b, i, v) ==
  LET r == buf[b] IN
  /\ Live(b)
  /\ \/ i >= r.size /\ Raise
     \/ i < r.size /\ ~Inside(r, i, 1) /\ Crash(i, 1, r.mem = NoMem)
     \/ i < r.size /\ Inside(r, i, 1) /\ Update(b, [r EXCEPT !.mem = Set(@, i, 1, v)])

(* set_bytes computes its last index in 32 bits.                           *)
SetBuffer(b, i, o) ==
  LET r == buf[b]  src == buf[o]  n == src.size
      fine == (i + n + Word - 1) % Word < r.size
      isNull == r.mem = NoMem \/ src.mem = NoMem
      safe == Inside(r, i, n) /\ Inside(src, 0, n)
  IN
  /\ Live(b) /\ Live(o)
  /\ \/ ~fine /\ Raise
     \/ fine /\ ~safe /\ Crash(i, n, isNull)
     \/ fine /\ safe /\ n > 0 /\ Update(b, [r EXCEPT !.mem = Put(@, i, src.mem, 0, n)])

Fill(b, v) ==
  LET r == buf[b] IN
  /\ Live(b) /\ r.size > 0
  /\ \/ r.mem = NoMem /\ Crash(0, r.size, TRUE)
     \/ r.mem # NoMem /\ Update(b, [r EXCEPT !.mem = Set(@, 0, r.size, v)])

Clear(b) == Fill(b, 0)

-----------------------------------------------------------------------------
(* Push and append                                                         *)

(* The size grows first; the bytes are written once the capacity fits it.  *)
(* old is the buffer before the call.                                      *)
StartGrow(b, op, at, bytes, n) ==
  /\ buf' = [buf EXCEPT ![b].size = @ + n]
  /\ grow' = [to |-> b, op |-> op, at |-> at, bytes |-> bytes, count |-> n,
              old |-> buf[b]]
  /\ UNCHANGED <<fault, status>>

(* push_byte writes at the size after the call.                            *)
PushByte(b, v) ==
  /\ Live(b)
  /\ StartGrow(b, "push", buf[b].size + 1, [i \in {0} |-> v], 1)

Append(b, o) ==
  /\ Live(b) /\ Live(o)
  /\ \/ b = o /\ Raise
     \/ /\ b # o
        /\ StartGrow(b, "append", AppendAt(buf[b], buf[o].size),
                     buf[o].mem, buf[o].size)

(* One iteration, or the write after the last one.  A capacity of 0 or 1   *)
(* does not grow: the loop then never ends.                                *)
Grow ==
  LET b == grow.to  r == buf[b]  n == NextCap(r.cap)
      isNull == r.mem = NoMem \/ grow.bytes = NoMem
      safe == Inside(r, grow.at, grow.count) /\ (grow.count = 0 \/ ~isNull)
  IN
  /\ status = "running" /\ grow # Idle
  /\ \/ /\ ~Fits(r) /\ MayFail(r, n)
        /\ status' = "error" /\ grow' = Idle /\ UNCHANGED <<buf, fault>>
     \/ ~Fits(r) /\ ~TooLarge(n) /\ Update(b, Reserved(r, n))
     \/ Fits(r) /\ ~safe /\ Crash(grow.at, grow.count, isNull)
     \/ /\ Fits(r) /\ safe
        /\ buf' = IF grow.count = 0 THEN buf
                  ELSE [buf EXCEPT ![b].mem = Put(@, grow.at, grow.bytes, 0, grow.count)]
        /\ grow' = Idle /\ UNCHANGED <<fault, status>>

-----------------------------------------------------------------------------
(* New buffers from old ones, searches                                     *)

(* slice uses the new buffer without asking whether there is one.          *)
Slice(b, i, n, p) ==
  LET r == buf[b]  new == Blank(n)
      fine == (i + n) % Word <= r.size
  IN
  /\ Live(b) /\ buf[p] = Gone
  /\ \/ ~fine /\ Raise
     \/ fine /\ (TooLarge(n) \/ Failing) /\ Crash(i, n, TRUE)
     \/ fine /\ ~TooLarge(n) /\ ~Inside(r, i, n) /\ Crash(i, n, r.mem = NoMem)
     \/ /\ fine /\ ~TooLarge(n) /\ Inside(r, i, n)
        /\ Update(p, IF n = 0 THEN new
                     ELSE [new EXCEPT !.mem = Put(@, 0, r.mem, i, n)])

Copy(b, p) ==
  LET r == buf[b]  new == Blank(r.size) IN
  /\ Live(b) /\ buf[p] = Gone
  /\ \/ Failing /\ Raise
     \/ ~Inside(r, 0, r.size) /\ Crash(0, r.size, r.mem = NoMem)
     \/ /\ Inside(r, 0, r.size)
        /\ Update(p, IF r.size = 0 THEN new
                     ELSE [new EXCEPT !.mem = Put(@, 0, r.mem, 0, r.size)])

FindByte(b, i) ==
  /\ Live(b)
  /\ \/ i >= buf[b].size /\ Raise
     \/ i < buf[b].size /\ buf[b].mem = NoMem /\ Crash(i, 1, TRUE)

(* find_bytes reads data[start_idx] first, unless its loop is empty.       *)
FindBuffer(b, i, o) ==
  LET r == buf[b]  src == buf[o]  n == src.size IN
  /\ Live(b) /\ Live(o)
  /\ \/ (i + n) % Word >= r.size /\ Raise
     \/ /\ (i + n) % Word < r.size /\ n > 0 /\ (i + n - 1) % Word < r.size
        /\ ~(Inside(r, i, 1) /\ Inside(src, 0, n))
        /\ Crash(i, n, r.mem = NoMem \/ src.mem = NoMem)

Equals(b, o) ==
  LET n == buf[b].size IN
  /\ Live(b) /\ Live(o) /\ b # o /\ n = buf[o].size
  /\ ~(Inside(buf[b], 0, n) /\ Inside(buf[o], 0, n))
  /\ Crash(0, n, buf[b].mem = NoMem \/ buf[o].mem = NoMem)

-----------------------------------------------------------------------------
Init ==
  /\ buf = [b \in Buf |-> Gone]
  /\ grow = Idle /\ fault = NoFault /\ status = "running"

Next ==
  \/ \E b \in Buf, n \in UInt : New(b, n) \/ Resize(b, n) \/ Reserve(b, n)
  \/ \E b \in Buf : Delete(b) \/ Truncate(b) \/ Clear(b)
  \/ \E b \in Buf, v \in Byte : PushByte(b, v) \/ Fill(b, v)
  \/ \E b \in Buf, i \in UInt : GetByte(b, i) \/ FindByte(b, i)
  \/ \E b \in Buf, i \in UInt, v \in Byte : SetByte(b, i, v)
  \/ \E b, o \in Buf : Append(b, o) \/ Equals(b, o) \/ Copy(b, o)
  \/ \E b, o \in Buf, i \in UInt : SetBuffer(b, i, o) \/ FindBuffer(b, i, o)
  \/ \E b, p \in Buf, i, n \in UInt : Slice(b, i, n, p)
  \/ Grow

Spec == Init /\ [][Next]_vars

(* The thread that runs the reserve loop goes on with it.                  *)
FairSpec == Spec /\ WF_vars(Grow)

-----------------------------------------------------------------------------
(* A buffer's memory has as many bytes as its capacity says, at most 2 GB; *)
(* what a failed push or append adds to the size still fits a uint32_t.    *)
TypeOK ==
  /\ \A b \in Buf : buf[b] # Gone =>
       /\ buf[b].size \in UInt /\ buf[b].cap \in 0 .. MaxBytes
       /\ buf[b].mem # NoMem =>
            buf[b].mem \in Memory /\ DOMAIN buf[b].mem = 0 .. buf[b].cap - 1
  /\ grow # Idle => /\ grow.to \in Buf /\ grow.at \in UInt /\ grow.count \in UInt
                    /\ buf[grow.to] # Gone
  /\ fault \in [at : UInt, count : UInt, null : BOOLEAN]
  /\ status \in {"running", "error", "fault"}

(* Between two calls the size of a buffer never exceeds its capacity.      *)
SizeFits ==
  Ready => \A b \in Buf : buf[b] # Gone => buf[b].size <= buf[b].cap

(* A method leaves a buffer's memory only where index plus length does not  *)
(* fit 32 bits, or where there is no memory because an allocation failed.  *)
InBounds ==
  status = "fault" => fault.null \/ fault.at + fault.count >= Word

(* A change of size or capacity, however many reallocations it takes,      *)
(* keeps the bytes that lie below both the old and the new size.           *)
BytesKept(b) ==
  LET r == buf[b]  s == buf'[b] IN
  /\ r # Gone /\ s # Gone
  /\ <<r.size, r.cap>> # <<s.size, s.cap>>
  /\ r.mem # NoMem /\ s.mem # NoMem
  => \A i \in DOMAIN r.mem : i < r.size /\ i < s.size =>
       i \in DOMAIN s.mem /\ s.mem[i] = r.mem[i]

OldBytesKept == [][\A b \in Buf : BytesKept(b)]_vars

(* The bytes of r followed by the n bytes at src.                          *)
Joined(r, src, n) ==
  [i \in 0 .. r.size + n - 1 |-> IF i < r.size THEN r.mem[i] ELSE src[i - r.size]]

(* In the step that ends call op, its buffer becomes what it was before    *)
(* the call with the new bytes behind.                                     *)
Appends(op) ==
  grow # Idle /\ grow' = Idle /\ status' = "running" /\ grow.op = op
  => LET r == buf'[grow.to] IN
       /\ r.size = grow.old.size + grow.count
       /\ grow.old.mem # NoMem /\ grow.bytes # NoMem =>
            \A i \in 0 .. r.size - 1 :
              r.mem[i] = Joined(grow.old, grow.bytes, grow.count)[i]

(* append concatenates, whatever the reserve loop did on the way.          *)
AppendConcatenates == [][Appends("append")]_vars

(* The reserve loop ends if the buffer has a capacity of 2 or more.        *)
GrowthEnds ==
  (grow # Idle /\ buf[grow.to].cap >= 2) ~> (grow = Idle \/ status = "fault")

-----------------------------------------------------------------------------
(* What the documentation says and the code does not keep                  *)

(* The reserve loop reserves until the size fits: it ends.                 *)
CallsEnd == grow # Idle ~> (grow = Idle \/ status = "fault")
=============================================================================
