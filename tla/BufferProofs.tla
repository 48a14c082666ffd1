---------------------------- MODULE BufferProofs ----------------------------
(***************************************************************************)
(* Proofs about Buffer, for any number of buffers, any word size and       *)
(* limit, and with malloc and realloc failing or not: which accesses stay  *)
(* in a buffer's memory, and what its bytes are after it grew.             *)
(***************************************************************************)
EXTENDS Buffer, TLAPS

Cell == Byte \cup {Raw}

-----------------------------------------------------------------------------
(* Words                                                                   *)

(* A number below the word size is its own remainder.                      *)
LEMMA ModSmall ==
  ASSUME NEW x \in Nat, x < Word
  PROVE  x % Word = x
BY BufferAssumption

(* A word's worth more makes no difference.                                *)
LEMMA ModWrap ==
  ASSUME NEW x \in Nat, x < Word
  PROVE  (x + Word) % Word = x
BY BufferAssumption

(* A sum reduced as in uint32_t is a uint32_t.                             *)
LEMMA ModRange ==
  ASSUME NEW x \in Nat
  PROVE  x % Word \in UInt
BY BufferAssumption DEF UInt

(* The next capacity the reserve loop asks for is no smaller.              *)
LEMMA NextCapType ==
  ASSUME NEW c \in Nat
  PROVE  NextCap(c) \in Nat /\ NextCap(c) >= c
BY DEF NextCap

-----------------------------------------------------------------------------
(* Buffers                                                                 *)

(* Memory, if there is any, has as many bytes as the capacity says.        *)
Sound(r) ==
  /\ r \in Record
  /\ r.mem # NoMem => r.cap >= 1 /\ r.mem \in [0 .. r.cap - 1 -> Cell]

(* A buffer as it is between two calls.                                    *)
Whole(r) == Sound(r) /\ r.size <= r.cap

(* An allocation of n bytes is a memory, and not the NULL pointer.         *)
LEMMA MemoryHas ==
  ASSUME NEW n \in 1 .. MaxBytes, NEW m \in [0 .. n - 1 -> Cell]
  PROVE  m \in Memory /\ m # NoMem
BY BufferAssumption DEF Memory, Cell

(* What makes a record with an allocation sound.                           *)
LEMMA SoundIs ==
  ASSUME NEW s \in UInt, NEW c \in 1 .. MaxBytes, NEW m \in [0 .. c - 1 -> Cell],
         NEW r, r = [size |-> s, cap |-> c, mem |-> m]
  PROVE  Sound(r)
BY MemoryHas DEF Sound, Record

(* What a sound record holds.                                              *)
LEMMA SoundHas ==
  ASSUME NEW r, Sound(r)
  PROVE  /\ r = [size |-> r.size, cap |-> r.cap, mem |-> r.mem]
         /\ r.size \in Nat /\ r.size < Word /\ r.cap \in Nat /\ r.cap <= MaxBytes
         /\ r.mem = NoMem \/ (r.cap >= 1 /\ r.mem \in [0 .. r.cap - 1 -> Cell])
         /\ r # Gone
BY BufferAssumption DEF Sound, Record, UInt

(* A new size for the same memory.                                         *)
LEMMA ResizedIsSound ==
  ASSUME NEW r, Sound(r), NEW n \in UInt
  PROVE  Sound([r EXCEPT !.size = n])
BY DEF Sound, Record

(* The fields of an updated buffer.                                        *)
LEMMA RecordUpdates ==
  ASSUME NEW r, Sound(r), NEW n, NEW c, NEW m
  PROVE  /\ [r EXCEPT !.cap = c, !.mem = m] = [size |-> r.size, cap |-> c, mem |-> m]
         /\ [r EXCEPT !.size = n, !.mem = m] = [size |-> n, cap |-> r.cap, mem |-> m]
<1> DEFINE q == [r EXCEPT !.cap = c]
           t == [r EXCEPT !.size = n]
<1>1. /\ [r EXCEPT !.cap = c, !.mem = m] = [q EXCEPT !.mem = m]
      /\ [r EXCEPT !.size = n, !.mem = m] = [t EXCEPT !.mem = m]
  OBVIOUS
<1>2. r = [size |-> r.size, cap |-> r.cap, mem |-> r.mem]
  BY SoundHas
<1>3. /\ q = [size |-> r.size, cap |-> c, mem |-> r.mem]
      /\ t = [size |-> n, cap |-> r.cap, mem |-> r.mem]
  BY <1>2
<1> HIDE DEF q, t
<1>4. /\ [q EXCEPT !.mem = m] = [size |-> r.size, cap |-> c, mem |-> m]
      /\ [t EXCEPT !.mem = m] = [size |-> n, cap |-> r.cap, mem |-> m]
  BY <1>3
<1> QED
  BY <1>1, <1>4

(* New bytes in the same memory.                                           *)
LEMMA WrittenIsSound ==
  ASSUME NEW r, Sound(r), r.mem # NoMem, NEW m \in [0 .. r.cap - 1 -> Cell]
  PROVE  Sound([r EXCEPT !.mem = m])
<1>1. r.cap \in 1 .. MaxBytes
  BY SoundHas
<1>2. m \in Memory /\ m # NoMem
  BY <1>1, MemoryHas
<1> QED
  BY <1>2 DEF Sound, Record

(* More memory.                                                            *)
LEMMA ReallocType ==
  ASSUME NEW n \in Nat, NEW c \in Nat, NEW m, m = NoMem \/ m \in [0 .. c - 1 -> Cell]
  PROVE  /\ Realloc(m, n) \in [0 .. n - 1 -> Cell]
         /\ m # NoMem => \A i \in 0 .. n - 1 : i < c => Realloc(m, n)[i] = m[i]
BY DEF Realloc, Cell

(* ct_lib_buffer_reserve keeps the size and the bytes, and never shrinks.  *)
LEMMA ReservedIsSound ==
  ASSUME NEW r, Sound(r), NEW n \in Nat, n <= MaxBytes
  PROVE  /\ Sound(Reserved(r, n))
         /\ Reserved(r, n).size = r.size
         /\ Reserved(r, n).cap = IF n <= r.cap THEN r.cap ELSE n
         /\ r.mem # NoMem =>
              /\ Reserved(r, n).mem # NoMem
              /\ \A i \in 0 .. r.cap - 1 : Reserved(r, n).mem[i] = r.mem[i]
<1>1. CASE n <= r.cap
  BY <1>1 DEF Reserved
<1>2. CASE ~(n <= r.cap)
  <2> DEFINE m == Realloc(r.mem, n)
  <2>1. /\ r = [size |-> r.size, cap |-> r.cap, mem |-> r.mem]
        /\ r.size \in UInt /\ r.cap \in Nat /\ r.size < Word
        /\ r.mem = NoMem \/ r.mem \in [0 .. r.cap - 1 -> Cell]
    BY SoundHas, BufferAssumption DEF UInt
  <2>2. n \in 1 .. MaxBytes
    BY <1>2, <2>1
  <2>3. /\ m \in [0 .. n - 1 -> Cell]
        /\ r.mem # NoMem => \A i \in 0 .. n - 1 : i < r.cap => m[i] = r.mem[i]
    BY <2>1, ReallocType
  <2>4. m # NoMem
    BY <2>2, <2>3, MemoryHas
  <2> HIDE DEF m
  <2>5. Reserved(r, n) = [size |-> r.size, cap |-> n, mem |-> m]
    BY <1>2, <2>1 DEF Reserved, m
  <2>6. Sound(Reserved(r, n))
    BY <2>1, <2>2, <2>3, <2>5, SoundIs
  <2> QED
    BY <1>2, <2>1, <2>2, <2>3, <2>4, <2>5, <2>6
<1> QED
  BY <1>1, <1>2

(* ct_lib_buffer_new makes a whole buffer of the size asked for.           *)
LEMMA BlankIsWhole ==
  ASSUME NEW n \in Nat, n <= MaxBytes
  PROVE  /\ Whole(Blank(n)) /\ Blank(n).mem # NoMem
         /\ Blank(n).size = n /\ n <= Blank(n).cap
<1> DEFINE c == IF n < MinCap THEN MinCap ELSE n
           m == [i \in 0 .. c - 1 |-> IF i < n THEN 0 ELSE Raw]
<1>1. /\ n \in UInt /\ c \in 1 .. MaxBytes /\ n <= c
      /\ m \in [0 .. c - 1 -> Cell]
  BY BufferAssumption DEF UInt, Cell
<1>2. Blank(n) = [size |-> n, cap |-> c, mem |-> m]
  BY DEF Blank
<1> HIDE DEF c, m
<1>3. m # NoMem
  BY <1>1, MemoryHas
<1>4. Sound(Blank(n))
  BY <1>1, <1>2, SoundIs
<1> QED
  BY <1>1, <1>2, <1>3, <1>4 DEF Whole

(* Writing bytes that are inside both memories.                            *)
LEMMA PutType ==
  ASSUME NEW c \in Nat, NEW m \in [0 .. c - 1 -> Cell], NEW at \in Nat, NEW n \in Nat,
         NEW d \in Nat, NEW src \in [0 .. d - 1 -> Cell], NEW i \in Nat, i + n <= d
  PROVE  /\ Put(m, at, src, i, n) \in [0 .. c - 1 -> Cell]
         /\ \A k \in 0 .. c - 1 : Put(m, at, src, i, n)[k] =
              IF at <= k /\ k < at + n THEN src[i + (k - at)] ELSE m[k]
<1>1. DOMAIN m = 0 .. c - 1
  OBVIOUS
<1>2. ASSUME NEW k \in 0 .. c - 1
      PROVE  /\ k \in at .. at + n - 1 <=> at <= k /\ k < at + n
             /\ at <= k /\ k < at + n => i + (k - at) \in 0 .. d - 1
  OBVIOUS
<1> QED
  BY <1>1, <1>2 DEF Put

(* A memset inside an allocation leaves the bytes in front of it alone.    *)
LEMMA SetType ==
  ASSUME NEW c \in Nat, NEW m \in [0 .. c - 1 -> Cell], NEW at \in Nat, NEW n \in Nat,
         NEW v \in Cell
  PROVE  /\ Set(m, at, n, v) \in [0 .. c - 1 -> Cell]
         /\ \A k \in 0 .. c - 1 : k < at => Set(m, at, n, v)[k] = m[k]
BY DEF Set

-----------------------------------------------------------------------------
(* The inductive invariant                                                 *)

(* What a push or append that runs knows: its buffer has the new size      *)
(* already, the bytes before it are those of the old buffer, and it writes *)
(* behind them as many bytes as the source has.                            *)
GrowSound ==
  /\ grow \in Call /\ buf[grow.to] # Gone
  /\ Whole(grow.old) /\ grow.count <= MaxBytes
  /\ buf[grow.to].size = grow.old.size + grow.count
  /\ grow.op = "append" => grow.at = grow.old.size
  /\ grow.op = "push" => grow.at = grow.old.size + 1 /\ grow.count = 1
  /\ grow.bytes # NoMem =>
       \E d \in Nat : grow.count <= d /\ grow.bytes \in [0 .. d - 1 -> Cell]
  /\ grow.old.mem # NoMem =>
       /\ buf[grow.to].mem # NoMem /\ grow.old.size <= buf[grow.to].cap
       /\ \A i \in 0 .. grow.old.size - 1 : buf[grow.to].mem[i] = grow.old.mem[i]

Inv ==
  /\ buf \in [Buf -> Record \cup {Gone}]
  /\ \A b \in Buf : buf[b] # Gone => Sound(buf[b])
  /\ status = "running" =>
       \A b \in Buf : buf[b] # Gone /\ (grow = Idle \/ grow.to # b) =>
         buf[b].size <= buf[b].cap
  /\ grow # Idle => GrowSound
  /\ fault \in [at : UInt, count : UInt, null : BOOLEAN]
  /\ status \in {"running", "error", "fault"}
  /\ InBounds

(* The bytes of r below both sizes are those of s, if a step that changed  *)
(* the size or the capacity made s of it.                                  *)
Kept(r, s) ==
  r.size # s.size \/ r.cap # s.cap =>
    (r.mem # NoMem /\ s.mem # NoMem =>
       \A i \in DOMAIN r.mem : i < r.size /\ i < s.size =>
         i \in DOMAIN s.mem /\ s.mem[i] = r.mem[i])

(* What every step does: it keeps the invariant and the bytes.             *)
StepSound ==
  /\ Inv'
  /\ \A b \in Buf : buf[b] # Gone /\ buf'[b] # Gone => Kept(buf[b], buf'[b])

(* A buffer that does not change keeps its bytes.                          *)
LEMMA KeptSame == \A r : Kept(r, r)
BY DEF Kept

(* What suffices for a buffer to have kept its bytes.                      *)
LEMMA KeptIf ==
  ASSUME NEW r, Sound(r), NEW s, Sound(s),
         r.mem # NoMem /\ s.mem # NoMem =>
           \A i \in 0 .. r.cap - 1 : i < r.size /\ i < s.size =>
             i < s.cap /\ s.mem[i] = r.mem[i]
  PROVE  Kept(r, s)
<1> SUFFICES ASSUME r.mem # NoMem, s.mem # NoMem,
                    NEW i \in DOMAIN r.mem, i < r.size, i < s.size
             PROVE  i \in DOMAIN s.mem /\ s.mem[i] = r.mem[i]
  BY DEF Kept
<1>1. /\ DOMAIN r.mem = 0 .. r.cap - 1 /\ DOMAIN s.mem = 0 .. s.cap - 1
      /\ r.cap \in Nat /\ s.cap \in Nat
  BY SoundHas
<1> QED
  BY <1>1

(* The buffer a method is called on is whole.                              *)
LEMMA LiveIsWhole ==
  ASSUME Inv, NEW b \in Buf, Live(b)
  PROVE  Whole(buf[b]) /\ buf[b] # Gone /\ grow = Idle /\ status = "running"
BY DEF Inv, Live, Ready, Whole

(* The four ways a method ends.                                            *)
LEMMA UpdateIsSound ==
  ASSUME Inv, grow = Idle, status # "fault", NEW b \in Buf, NEW r, Update(b, r),
         r = Gone \/ Whole(r), buf[b] # Gone /\ r # Gone => Kept(buf[b], r)
  PROVE  StepSound
<1>1. r \in Record \cup {Gone} /\ (r # Gone => Sound(r) /\ r.size <= r.cap)
  BY DEF Whole, Sound
<1>2. /\ buf' = [buf EXCEPT ![b] = r] /\ grow' = grow /\ fault' = fault
      /\ status' = status
  BY DEF Update
<1>3. buf' \in [Buf -> Record \cup {Gone}]
  BY <1>1, <1>2 DEF Inv
<1>4. \A c \in Buf : buf'[c] # Gone => Sound(buf'[c])
  BY <1>1, <1>2 DEF Inv
<1>5. status' = "running" =>
        \A c \in Buf : buf'[c] # Gone => buf'[c].size <= buf'[c].cap
  BY <1>1, <1>2 DEF Inv
<1>6. Inv'
  BY <1>2, <1>3, <1>4, <1>5 DEF Inv, InBounds
<1>7. \A c \in Buf : buf[c] # Gone /\ buf'[c] # Gone => Kept(buf[c], buf'[c])
  BY <1>2, KeptSame DEF Inv
<1> QED
  BY <1>6, <1>7 DEF StepSound

(* A method that raises an error changes nothing.                          *)
LEMMA RaiseIsSound ==
  ASSUME Inv, Ready, Raise
  PROVE  StepSound
BY KeptSame DEF StepSound, Inv, Ready, Raise, InBounds, GrowSound

(* A method that touches what lies outside ends the behaviour.             *)
LEMMA CrashIsSound ==
  ASSUME Inv, NEW i \in UInt, NEW n \in UInt, NEW z \in BOOLEAN, Crash(i, n, z),
         z \/ i + n >= Word
  PROVE  StepSound
<1>1. /\ status' = "fault" /\ fault' = [at |-> i, count |-> n, null |-> z]
      /\ buf' = buf /\ grow' = grow
  BY DEF Crash
<1>2. GrowSound => GrowSound'
  BY <1>1 DEF GrowSound
<1>3. InBounds'
  BY <1>1 DEF InBounds
<1>4. Inv'
  BY <1>1, <1>2, <1>3 DEF Inv
<1> QED
  BY <1>1, <1>4, KeptSame DEF StepSound

(* push and append begin by enlarging the size.                            *)
LEMMA StartGrowIsSound ==
  ASSUME Inv, NEW b \in Buf, Live(b), NEW op \in {"push", "append"}, NEW n \in Nat,
         n <= MaxBytes, NEW at, NEW bytes, StartGrow(b, op, at, bytes, n),
         op = "append" => at = buf[b].size,
         op = "push" => at = buf[b].size + 1 /\ n = 1,
         bytes \in Memory \cup {NoMem},
         bytes # NoMem => \E d \in Nat : n <= d /\ bytes \in [0 .. d - 1 -> Cell]
  PROVE  StepSound
<1> DEFINE r == buf[b]
           s == [r EXCEPT !.size = r.size + n]
           g == [to |-> b, op |-> op, at |-> at, bytes |-> bytes, count |-> n, old |-> r]
<1>1. Whole(r) /\ r # Gone /\ grow = Idle /\ status = "running"
  BY LiveIsWhole
<1>2. /\ r.size \in Nat /\ r.size <= MaxBytes
      /\ r.size + n \in UInt /\ r.size + 1 \in UInt /\ n \in UInt /\ r.size \in UInt
  BY <1>1, SoundHas, BufferAssumption DEF Whole, UInt
<1>3. /\ buf' = [buf EXCEPT ![b] = s] /\ grow' = g
      /\ fault' = fault /\ status' = status
  BY DEF StartGrow
<1>4. /\ Sound(s) /\ s # Gone /\ s.size = r.size + n /\ s.mem = r.mem /\ s.cap = r.cap
  <2>1. Sound(s)
    BY <1>1, <1>2, ResizedIsSound DEF Whole
  <2> QED
    BY <1>1, <2>1, SoundHas DEF Whole
<1>5. buf' \in [Buf -> Record \cup {Gone}] /\ buf'[b] = s
      /\ \A c \in Buf : c # b => buf'[c] = buf[c]
  BY <1>3, <1>4 DEF Inv, Sound
<1>6. grow' \in Call
  BY <1>1, <1>2, <1>3 DEF Call, Whole, Sound
<1>7. /\ grow'.to = b /\ grow'.op = op /\ grow'.at = at /\ grow'.bytes = bytes
      /\ grow'.count = n /\ grow'.old = r
  BY <1>3
<1>8. r.size <= r.cap
  BY <1>1 DEF Whole
<1> HIDE DEF s, g
<1>9. GrowSound'
  <2>1. op = "append" => at = r.size
    OBVIOUS
  <2>2. op = "push" => at = r.size + 1 /\ n = 1
    OBVIOUS
  <2> HIDE DEF r
  <2> QED
    BY <1>1, <1>4, <1>5, <1>6, <1>7, <1>8, <2>1, <2>2 DEF GrowSound
<1>10. \A c \in Buf : buf'[c] # Gone => Sound(buf'[c])
  BY <1>4, <1>5 DEF Inv
<1>11. \A c \in Buf : buf'[c] # Gone /\ grow'.to # c => buf'[c].size <= buf'[c].cap
  BY <1>1, <1>5, <1>7 DEF Inv
<1>12. grow' # Idle
  BY <1>6, BufferAssumption
<1>13. Inv'
  BY <1>1, <1>3, <1>5, <1>9, <1>10, <1>11, <1>12 DEF Inv, InBounds
<1>14. Kept(r, s)
  BY <1>1, <1>4, SoundHas DEF Kept, Whole
<1>15. \A c \in Buf : buf[c] # Gone /\ buf'[c] # Gone => Kept(buf[c], buf'[c])
  BY <1>5, <1>14, KeptSame
<1> QED
  BY <1>13, <1>15 DEF StepSound

-----------------------------------------------------------------------------
(* The methods                                                             *)

(* A new buffer has as many bytes as its capacity, or none, and an error.  *)
LEMMA NewIsSound ==
  ASSUME Inv, NEW b \in Buf, NEW n \in UInt, New(b, n)
  PROVE  StepSound
<1>1. Ready /\ buf[b] = Gone
  BY DEF New
<1>2. CASE Raise
  BY <1>1, <1>2, RaiseIsSound
<1>3. CASE ~TooLarge(n) /\ Update(b, Blank(n))
  <2>1. n \in Nat /\ n <= MaxBytes
    BY <1>3, BufferAssumption DEF TooLarge, UInt
  <2>2. Whole(Blank(n))
    BY <2>1, BlankIsWhole
  <2> QED
    BY <1>1, <1>3, <2>2, UpdateIsSound DEF Ready
<1> QED
  BY <1>2, <1>3 DEF New

(* ct_lib_buffer_del.                                                      *)
LEMMA DeleteIsSound ==
  ASSUME Inv, NEW b \in Buf, Delete(b)
  PROVE  StepSound
BY UpdateIsSound DEF Delete

(* ct_lib_buffer_reserve.                                                  *)
LEMMA ReserveIsSound ==
  ASSUME Inv, NEW b \in Buf, NEW n \in UInt, Reserve(b, n)
  PROVE  StepSound
<1> DEFINE r == buf[b]
           s == Reserved(r, n)
<1>1. Whole(r) /\ r # Gone /\ grow = Idle /\ status = "running" /\ Ready
  BY LiveIsWhole DEF Reserve, Live
<1>2. CASE Raise
  BY <1>1, <1>2, RaiseIsSound
<1>3. CASE ~TooLarge(n) /\ Update(b, s)
  <2>1. n \in Nat /\ n <= MaxBytes
    BY <1>3, BufferAssumption DEF TooLarge, UInt
  <2>2. /\ Sound(s) /\ s.size = r.size
        /\ s.cap = IF n <= r.cap THEN r.cap ELSE n
        /\ r.mem # NoMem => \A i \in 0 .. r.cap - 1 : s.mem[i] = r.mem[i]
    BY <1>1, <2>1, ReservedIsSound DEF Whole
  <2> HIDE DEF s
  <2>3. r.size \in Nat /\ r.cap \in Nat /\ r.size <= r.cap
    BY <1>1, SoundHas DEF Whole
  <2>4. Whole(s)
    BY <2>1, <2>2, <2>3 DEF Whole
  <2>5. Kept(r, s)
    <3>1. r.mem # NoMem => r.mem \in [0 .. r.cap - 1 -> Cell]
      BY <1>1, SoundHas DEF Whole
    <3>2. s.mem # NoMem => s.mem \in [0 .. s.cap - 1 -> Cell]
      BY <2>2, SoundHas
    <3> HIDE DEF r
    <3>3. \A i \in 0 .. r.cap - 1 : i \in 0 .. s.cap - 1
      BY <2>1, <2>2, <2>3
    <3>4. /\ r.mem # NoMem => DOMAIN r.mem = 0 .. r.cap - 1
          /\ s.mem # NoMem => DOMAIN s.mem = 0 .. s.cap - 1
      BY <3>1, <3>2
    <3> QED
      BY <2>2, <3>3, <3>4 DEF Kept
  <2> QED
    BY <1>1, <1>3, <2>4, <2>5, UpdateIsSound
<1> QED
  BY <1>2, <1>3 DEF Reserve

(* Every byte that a resize beyond the capacity gains is cleared, and none *)
(* that was there.                                                         *)
LEMMA ResizeIsSound ==
  ASSUME Inv, NEW b \in Buf, NEW n \in UInt, Resize(b, n)
  PROVE  StepSound
<1> DEFINE r == buf[b]
           s == Reserved(r, n)
           m == Set(s.mem, r.size, n - r.size, 0)
           t == [s EXCEPT !.size = n, !.mem = m]
<1>1. Whole(r) /\ r # Gone /\ grow = Idle /\ status = "running" /\ Ready
  BY LiveIsWhole DEF Resize, Live
<1>2. /\ r.size \in Nat /\ r.cap \in Nat /\ r.size <= r.cap /\ r.cap <= MaxBytes
      /\ r.mem # NoMem => r.mem \in [0 .. r.cap - 1 -> Cell]
      /\ n \in Nat /\ n < Word
  BY <1>1, SoundHas, BufferAssumption DEF Whole, UInt
<1>3. CASE Raise
  BY <1>1, <1>3, RaiseIsSound
<1>4. CASE n < r.cap /\ Update(b, [r EXCEPT !.size = n])
  <2>1. Sound([r EXCEPT !.size = n])
    BY <1>1, ResizedIsSound DEF Whole
  <2>2. Whole([r EXCEPT !.size = n])
    BY <1>2, <1>4, <2>1 DEF Whole
  <2>3. Kept(r, [r EXCEPT !.size = n])
    BY <1>2 DEF Kept
  <2> QED
    BY <1>1, <1>4, <2>2, <2>3, UpdateIsSound
<1>5. CASE n >= r.cap /\ ~TooLarge(n) /\ s.mem = NoMem /\ Crash(r.size, n - r.size, TRUE)
  <2>1. r.size \in UInt /\ n - r.size \in UInt
    BY <1>2, <1>5, BufferAssumption DEF UInt
  <2> QED
    BY <1>5, <2>1, CrashIsSound
<1>6. CASE n >= r.cap /\ ~TooLarge(n) /\ s.mem # NoMem /\ Update(b, t)
  <2>1. n <= MaxBytes
    BY <1>2, <1>6, BufferAssumption DEF TooLarge
  <2>2. /\ Sound(s) /\ s.cap = n
        /\ r.mem # NoMem => \A i \in 0 .. r.cap - 1 : s.mem[i] = r.mem[i]
    BY <1>1, <1>2, <1>6, <2>1, ReservedIsSound DEF Whole
  <2>3. n >= 1 /\ s.mem \in [0 .. n - 1 -> Cell]
    BY <1>6, <2>2, SoundHas
  <2>4. /\ m \in [0 .. n - 1 -> Cell]
        /\ \A k \in 0 .. n - 1 : k < r.size => m[k] = s.mem[k]
    <3>1. n - r.size \in Nat /\ 0 \in Cell
      BY <1>2, <1>6, BufferAssumption DEF Cell
    <3> HIDE DEF s, r
    <3> QED
      BY <1>2, <2>3, <3>1, SetType
  <2> HIDE DEF s, m
  <2>5. t = [size |-> n, cap |-> n, mem |-> m]
    <3> HIDE DEF r
    <3> QED
      BY <2>2, RecordUpdates
  <2> HIDE DEF t
  <2>6. Sound(t)
    <3>1. n \in 1 .. MaxBytes
      BY <1>2, <2>1, <2>3, BufferAssumption
    <3> QED
      BY <2>4, <2>5, <3>1, SoundIs
  <2>7. Whole(t)
    BY <1>2, <2>5, <2>6 DEF Whole
  <2>8. Kept(r, t)
    <3>1. t.mem = m /\ t.cap = n /\ t.size = n
      BY <2>5
    <3> HIDE DEF r
    <3> QED
      BY <1>1, <1>2, <1>6, <2>2, <2>4, <2>6, <3>1, KeptIf DEF Whole
  <2> QED
    BY <1>1, <1>6, <2>7, <2>8, UpdateIsSound
<1> QED
  BY <1>3, <1>4, <1>5, <1>6 DEF Resize

(* ct_lib_buffer_truncate, whose realloc may return NULL.                  *)
LEMMA TruncateIsSound ==
  ASSUME Inv, NEW b \in Buf, Truncate(b)
  PROVE  StepSound
<1> DEFINE r == buf[b]
<1>1. Whole(r) /\ r # Gone /\ grow = Idle /\ status = "running"
  BY LiveIsWhole DEF Truncate
<1>2. /\ r.size \in Nat /\ r.cap \in Nat /\ r.size <= r.cap /\ r.cap <= MaxBytes
      /\ r.mem = NoMem \/ r.mem \in [0 .. r.cap - 1 -> Cell]
      /\ r.size \in UInt
  BY <1>1, SoundHas, BufferAssumption DEF Whole, UInt
<1>3. CASE Update(b, [r EXCEPT !.cap = r.size, !.mem = NoMem])
  <2> DEFINE t == [r EXCEPT !.cap = r.size, !.mem = NoMem]
  <2>1. t = [size |-> r.size, cap |-> r.size, mem |-> NoMem]
    <3>1. Sound(r)
      BY <1>1 DEF Whole
    <3> HIDE DEF r
    <3> QED
      BY <3>1, RecordUpdates
  <2>2. Sound(t) /\ t.mem = NoMem
    <3>1. r.size \in UInt /\ r.size \in 0 .. MaxBytes
      BY <1>2, BufferAssumption
    <3>2. t.mem = NoMem
      BY <2>1
    <3> HIDE DEF r
    <3>3. t \in Record
      BY <2>1, <3>1 DEF Record
    <3> QED
      BY <3>2, <3>3 DEF Sound
  <2>3. Whole(t) /\ Kept(r, t)
    BY <1>2, <2>1, <2>2 DEF Whole, Kept
  <2> HIDE DEF t
  <2>4. Update(b, t)
    BY <1>3 DEF t
  <2> QED
    BY <1>1, <2>3, <2>4, UpdateIsSound
<1>4. CASE r.size # 0 /\ Update(b, [r EXCEPT !.cap = r.size, !.mem = Realloc(r.mem, r.size)])
  <2> DEFINE m == Realloc(r.mem, r.size)
             t == [r EXCEPT !.cap = r.size, !.mem = m]
  <2>1. /\ m \in [0 .. r.size - 1 -> Cell]
        /\ r.mem # NoMem => \A i \in 0 .. r.size - 1 : i < r.cap => m[i] = r.mem[i]
    BY <1>2, ReallocType
  <2> HIDE DEF m
  <2>2. t = [size |-> r.size, cap |-> r.size, mem |-> m]
    <3>1. Sound(r)
      BY <1>1 DEF Whole
    <3> HIDE DEF r
    <3> QED
      BY <3>1, RecordUpdates
  <2> HIDE DEF t
  <2>3. Sound(t)
    <3>1. r.size \in 1 .. MaxBytes
      BY <1>2, <1>4, BufferAssumption
    <3> QED
      BY <1>2, <2>1, <2>2, <3>1, SoundIs
  <2>4. Whole(t)
    BY <1>2, <2>2, <2>3 DEF Whole
  <2>5. Kept(r, t)
    <3>1. t.mem = m /\ t.cap = r.size /\ t.size = r.size
      BY <2>2
    <3> HIDE DEF r
    <3> QED
      BY <1>1, <1>2, <2>1, <2>3, <3>1, KeptIf DEF Whole
  <2>6. Update(b, t)
    BY <1>4 DEF t, m
  <2> QED
    BY <1>1, <2>4, <2>5, <2>6, UpdateIsSound
<1> QED
  BY <1>3, <1>4 DEF Truncate

(* Reading a byte below the size is an access outside the memory only if   *)
(* there is none.                                                          *)
LEMMA OneByteInside ==
  ASSUME NEW r, Whole(r), NEW i \in Nat, i < r.size, ~Inside(r, i, 1)
  PROVE  r.mem = NoMem
BY SoundHas DEF Whole, Inside

(* ct_lib_buffer_get_byte.                                                 *)
LEMMA GetByteIsSound ==
  ASSUME Inv, NEW b \in Buf, NEW i \in UInt, GetByte(b, i)
  PROVE  StepSound
<1>1. Whole(buf[b]) /\ Ready
  BY LiveIsWhole DEF GetByte, Live
<1>2. i \in Nat /\ 1 \in UInt
  BY BufferAssumption DEF UInt
<1>3. CASE Raise
  BY <1>1, <1>3, RaiseIsSound
<1>4. CASE i < buf[b].size /\ ~Inside(buf[b], i, 1) /\ Crash(i, 1, buf[b].mem = NoMem)
  BY <1>1, <1>2, <1>4, OneByteInside, CrashIsSound
<1> QED
  BY <1>3, <1>4 DEF GetByte

(* ct_lib_buffer_find_byte.                                                *)
LEMMA FindByteIsSound ==
  ASSUME Inv, NEW b \in Buf, NEW i \in UInt, FindByte(b, i)
  PROVE  StepSound
<1>1. Ready /\ 1 \in UInt
  BY BufferAssumption DEF FindByte, Live, UInt
<1>2. CASE Raise
  BY <1>1, <1>2, RaiseIsSound
<1>3. CASE Crash(i, 1, TRUE)
  BY <1>1, <1>3, CrashIsSound
<1> QED
  BY <1>2, <1>3 DEF FindByte

(* Writing into a buffer's memory without changing its size or capacity.   *)
LEMMA WriteIsSound ==
  ASSUME Inv, NEW b \in Buf, Live(b), buf[b].mem # NoMem,
         NEW m \in [0 .. buf[b].cap - 1 -> Cell],
         Update(b, [buf[b] EXCEPT !.mem = m])
  PROVE  StepSound
<1> DEFINE r == buf[b]
           s == [r EXCEPT !.mem = m]
<1>1. Whole(r) /\ grow = Idle /\ status = "running"
  BY LiveIsWhole
<1>2. Sound(s)
  BY <1>1, WrittenIsSound DEF Whole
<1>3. s.size = r.size /\ s.cap = r.cap
  BY <1>1, SoundHas DEF Whole
<1>4. Whole(s) /\ Kept(r, s)
  BY <1>1, <1>2, <1>3 DEF Whole, Kept
<1> HIDE DEF s
<1>5. Update(b, s)
  BY DEF s
<1> QED
  BY <1>1, <1>4, <1>5, UpdateIsSound

(* ct_lib_buffer_set_byte.                                                 *)
LEMMA SetByteIsSound ==
  ASSUME Inv, NEW b \in Buf, NEW i \in UInt, NEW v \in Byte, SetByte(b, i, v)
  PROVE  StepSound
<1> DEFINE r == buf[b]
<1>1. Whole(r) /\ Ready /\ Live(b)
  BY LiveIsWhole DEF SetByte, Live
<1>2. i \in Nat /\ 1 \in UInt
  BY BufferAssumption DEF UInt
<1>3. CASE Raise
  BY <1>1, <1>3, RaiseIsSound
<1>4. CASE i < r.size /\ ~Inside(r, i, 1) /\ Crash(i, 1, r.mem = NoMem)
  BY <1>1, <1>2, <1>4, OneByteInside, CrashIsSound
<1>5. CASE Inside(r, i, 1) /\ Update(b, [r EXCEPT !.mem = Set(r.mem, i, 1, v)])
  <2>1. r.mem # NoMem
    BY <1>5 DEF Inside
  <2>2. r.cap \in Nat /\ r.mem \in [0 .. r.cap - 1 -> Cell]
    BY <1>1, <2>1, SoundHas DEF Whole
  <2>3. Set(r.mem, i, 1, v) \in [0 .. r.cap - 1 -> Cell]
    <3> HIDE DEF r
    <3> QED
      BY <1>2, <2>2, SetType DEF Cell
  <2> QED
    BY <1>1, <1>5, <2>1, <2>3, WriteIsSound
<1> QED
  BY <1>3, <1>4, <1>5 DEF SetByte

(* ct_lib_buffer_fill.                                                     *)
LEMMA FillIsSound ==
  ASSUME Inv, NEW b \in Buf, NEW v \in Byte, Fill(b, v)
  PROVE  StepSound
<1> DEFINE r == buf[b]
<1>1. Whole(r) /\ Live(b)
  BY LiveIsWhole DEF Fill
<1>2. r.size \in UInt /\ r.size \in Nat /\ 0 \in UInt
  BY <1>1, SoundHas, BufferAssumption DEF Whole, UInt
<1>3. CASE Crash(0, r.size, TRUE)
  BY <1>2, <1>3, CrashIsSound
<1>4. CASE r.mem # NoMem /\ Update(b, [r EXCEPT !.mem = Set(r.mem, 0, r.size, v)])
  <2>1. r.cap \in Nat /\ r.mem \in [0 .. r.cap - 1 -> Cell]
    BY <1>1, <1>4, SoundHas DEF Whole
  <2>2. Set(r.mem, 0, r.size, v) \in [0 .. r.cap - 1 -> Cell]
    <3> HIDE DEF r
    <3> QED
      BY <1>2, <2>1, SetType DEF Cell
  <2> QED
    BY <1>1, <1>4, <2>2, WriteIsSound
<1> QED
  BY <1>3, <1>4 DEF Fill

(* set_bytes passes its check in 32 bits and yet writes outside only where *)
(* index plus length does not fit 32 bits.                                 *)
LEMMA SetBufferIsSound ==
  ASSUME Inv, NEW b \in Buf, NEW i \in UInt, NEW o \in Buf, SetBuffer(b, i, o)
  PROVE  StepSound
<1> DEFINE r == buf[b]
           src == buf[o]
           n == src.size
           z == r.mem = NoMem \/ src.mem = NoMem
           fine == (i + n + Word - 1) % Word < r.size
           safe == Inside(r, i, n) /\ Inside(src, 0, n)
<1>1. Whole(r) /\ Whole(src) /\ Live(b) /\ Ready
  BY LiveIsWhole DEF SetBuffer, Live
<1>2. /\ i \in Nat /\ i < Word /\ n \in Nat /\ n \in UInt /\ n <= src.cap
      /\ src.cap \in Nat
      /\ r.size \in Nat /\ r.size <= r.cap /\ r.cap \in Nat
  BY <1>1, SoundHas, BufferAssumption DEF Whole, UInt
<1>3. CASE Raise
  BY <1>1, <1>3, RaiseIsSound
<1>4. CASE fine /\ ~safe /\ Crash(i, n, z)
  <2>1. ASSUME ~z
        PROVE  i + n >= Word
    <3>1. n # 0 /\ i + n > r.cap
      BY <1>2, <1>4, <2>1 DEF Inside
    <3>2. ASSUME i + n < Word
          PROVE  FALSE
      <4>1. i + n - 1 \in Nat /\ i + n - 1 < Word /\ i + n + Word - 1 = (i + n - 1) + Word
        BY <1>2, <3>1, <3>2, BufferAssumption
      <4>2. (i + n + Word - 1) % Word = i + n - 1
        BY <4>1, ModWrap
      <4> QED
        BY <1>2, <1>4, <3>1, <4>2
    <3> QED
      BY <1>2, <3>2, BufferAssumption
  <2> QED
    BY <1>2, <1>4, <2>1, CrashIsSound
<1>5. CASE safe /\ n > 0 /\ Update(b, [r EXCEPT !.mem = Put(r.mem, i, src.mem, 0, n)])
  <2>1. r.mem # NoMem /\ src.mem # NoMem /\ n <= src.cap
    BY <1>2, <1>5 DEF Inside
  <2>2. r.mem \in [0 .. r.cap - 1 -> Cell] /\ src.mem \in [0 .. src.cap - 1 -> Cell]
    BY <1>1, <2>1, SoundHas DEF Whole
  <2>3. Put(r.mem, i, src.mem, 0, n) \in [0 .. r.cap - 1 -> Cell]
    <3>1. 0 \in Nat /\ 0 + n <= src.cap
      BY <1>2
    <3> HIDE DEF r, src, n
    <3> QED
      BY <1>2, <2>2, <3>1, PutType
  <2> QED
    BY <1>1, <1>5, <2>1, <2>3, WriteIsSound
<1> QED
  BY <1>3, <1>4, <1>5 DEF SetBuffer

(* slice leaves the memory it reads only where index plus length does not  *)
(* fit 32 bits; the new buffer may be missing.                             *)
LEMMA SliceIsSound ==
  ASSUME Inv, NEW b \in Buf, NEW i \in UInt, NEW n \in UInt, NEW p \in Buf,
         Slice(b, i, n, p)
  PROVE  StepSound
<1> DEFINE r == buf[b]
           fine == (i + n) % Word <= r.size
           new == Blank(n)
           m == Put(new.mem, 0, r.mem, i, n)
<1>1. Whole(r) /\ Ready /\ buf[p] = Gone
  BY LiveIsWhole DEF Slice, Live
<1>2. /\ i \in Nat /\ n \in Nat
      /\ r.size \in Nat /\ r.size <= r.cap /\ r.cap \in Nat
  BY <1>1, SoundHas, BufferAssumption DEF Whole, UInt
<1>3. CASE Raise
  BY <1>1, <1>3, RaiseIsSound
<1>4. CASE Crash(i, n, TRUE)
  BY <1>4, CrashIsSound
<1>5. CASE fine /\ ~Inside(r, i, n) /\ Crash(i, n, r.mem = NoMem)
  <2>1. ASSUME r.mem # NoMem, i + n < Word
        PROVE  FALSE
    BY <1>2, <1>5, <2>1, ModSmall DEF Inside
  <2>2. r.mem = NoMem \/ i + n >= Word
    BY <1>2, <2>1, BufferAssumption
  <2> QED
    BY <1>5, <2>2, CrashIsSound
<1>6. CASE /\ ~TooLarge(n) /\ Inside(r, i, n)
           /\ Update(p, IF n = 0 THEN new ELSE [new EXCEPT !.mem = m])
  <2>1. Whole(new) /\ new.mem # NoMem /\ n <= new.cap /\ new.size = n
    BY <1>2, <1>6, BlankIsWhole, BufferAssumption DEF TooLarge
  <2> HIDE DEF new
  <2>2. CASE n = 0
    BY <1>1, <1>6, <2>1, <2>2, UpdateIsSound DEF Ready
  <2>3. CASE n # 0
    <3>1. r.mem # NoMem /\ i + n <= r.cap
      BY <1>6, <2>3 DEF Inside
    <3>2. /\ r.mem \in [0 .. r.cap - 1 -> Cell] /\ new.cap \in Nat
          /\ new.mem \in [0 .. new.cap - 1 -> Cell]
      BY <1>1, <2>1, <3>1, SoundHas DEF Whole
    <3>3. m \in [0 .. new.cap - 1 -> Cell]
      <4>1. 0 \in Nat
        OBVIOUS
      <4> HIDE DEF r
      <4> QED
        BY <1>2, <3>1, <3>2, <4>1, PutType
    <3> HIDE DEF m
    <3>4. Whole([new EXCEPT !.mem = m])
      BY <2>1, <3>3, WrittenIsSound, SoundHas DEF Whole
    <3>5. Update(p, [new EXCEPT !.mem = m])
      BY <1>6, <2>3 DEF m
    <3> QED
      BY <1>1, <3>4, <3>5, UpdateIsSound DEF Ready
  <2> QED
    BY <2>2, <2>3
<1> QED
  BY <1>3, <1>4, <1>5, <1>6 DEF Slice

(* ct_lib_buffer_copy.                                                     *)
LEMMA CopyIsSound ==
  ASSUME Inv, NEW b \in Buf, NEW p \in Buf, Copy(b, p)
  PROVE  StepSound
<1> DEFINE r == buf[b]
           new == Blank(r.size)
           m == Put(new.mem, 0, r.mem, 0, r.size)
<1>1. Whole(r) /\ Ready /\ buf[p] = Gone
  BY LiveIsWhole DEF Copy, Live
<1>2. /\ r.size \in UInt /\ r.size \in Nat /\ r.cap \in Nat
      /\ r.size <= r.cap /\ r.size <= MaxBytes /\ 0 \in UInt
  BY <1>1, SoundHas, BufferAssumption DEF Whole, UInt
<1>3. CASE Raise
  BY <1>1, <1>3, RaiseIsSound
<1>4. CASE ~Inside(r, 0, r.size) /\ Crash(0, r.size, r.mem = NoMem)
  <2>1. r.mem = NoMem
    BY <1>2, <1>4 DEF Inside
  <2> QED
    BY <1>2, <1>4, <2>1, CrashIsSound
<1>5. CASE /\ Inside(r, 0, r.size)
           /\ Update(p, IF r.size = 0 THEN new ELSE [new EXCEPT !.mem = m])
  <2>1. /\ Whole(new) /\ new.mem # NoMem /\ r.size <= new.cap
        /\ new.size = r.size
    BY <1>2, BlankIsWhole
  <2> HIDE DEF new
  <2>2. CASE r.size = 0
    BY <1>1, <1>5, <2>1, <2>2, UpdateIsSound DEF Ready
  <2>3. CASE r.size # 0
    <3>1. r.mem # NoMem
      BY <1>5, <2>3 DEF Inside
    <3>2. /\ r.mem \in [0 .. r.cap - 1 -> Cell] /\ new.cap \in Nat
          /\ new.mem \in [0 .. new.cap - 1 -> Cell]
      BY <1>1, <2>1, <3>1, SoundHas DEF Whole
    <3>3. m \in [0 .. new.cap - 1 -> Cell]
      <4>1. 0 \in Nat /\ 0 + r.size <= r.cap
        BY <1>2
      <4> HIDE DEF r
      <4> QED
        BY <1>2, <3>2, <4>1, PutType
    <3> HIDE DEF m
    <3>4. Whole([new EXCEPT !.mem = m])
      BY <2>1, <3>3, WrittenIsSound, SoundHas DEF Whole
    <3>5. Update(p, [new EXCEPT !.mem = m])
      BY <1>5, <2>3 DEF m
    <3> QED
      BY <1>1, <3>4, <3>5, UpdateIsSound DEF Ready
  <2> QED
    BY <2>2, <2>3
<1> QED
  BY <1>3, <1>4, <1>5 DEF Copy

(* find_bytes reads outside only where index plus length wraps.            *)
LEMMA FindBufferIsSound ==
  ASSUME Inv, NEW b \in Buf, NEW i \in UInt, NEW o \in Buf, FindBuffer(b, i, o)
  PROVE  StepSound
<1> DEFINE r == buf[b]
           src == buf[o]
           n == src.size
           z == r.mem = NoMem \/ src.mem = NoMem
<1>1. Whole(r) /\ Whole(src) /\ Ready
  BY LiveIsWhole DEF FindBuffer, Live
<1>2. /\ i \in Nat /\ n \in Nat /\ n \in UInt /\ n <= src.cap /\ src.cap \in Nat
      /\ r.size \in Nat /\ r.size <= r.cap /\ r.cap \in Nat
  BY <1>1, SoundHas, BufferAssumption DEF Whole, UInt
<1>3. CASE Raise
  BY <1>1, <1>3, RaiseIsSound
<1>4. CASE /\ (i + n) % Word < r.size /\ n > 0
           /\ ~(Inside(r, i, 1) /\ Inside(src, 0, n))
           /\ Crash(i, n, z)
  <2>1. ASSUME ~z, i + n < Word
        PROVE  FALSE
    <3>1. i + n < r.size
      BY <1>2, <1>4, <2>1, ModSmall
    <3> QED
      BY <1>2, <1>4, <2>1, <3>1 DEF Inside
  <2>2. z \/ i + n >= Word
    BY <1>2, <2>1, BufferAssumption
  <2> QED
    BY <1>2, <1>4, <2>2, CrashIsSound
<1> QED
  BY <1>3, <1>4 DEF FindBuffer

(* ct_lib_buffer_equals.                                                   *)
LEMMA EqualsIsSound ==
  ASSUME Inv, NEW b \in Buf, NEW o \in Buf, Equals(b, o)
  PROVE  StepSound
<1> DEFINE r == buf[b]
           src == buf[o]
           n == r.size
           z == r.mem = NoMem \/ src.mem = NoMem
<1>1. Whole(r) /\ Whole(src)
  BY LiveIsWhole DEF Equals
<1>2. /\ n \in Nat /\ n \in UInt /\ n <= r.cap /\ n = src.size /\ n <= src.cap
      /\ r.cap \in Nat /\ src.cap \in Nat /\ 0 \in UInt
  BY <1>1, SoundHas, BufferAssumption DEF Whole, UInt, Equals
<1>3. ~(Inside(r, 0, n) /\ Inside(src, 0, n)) /\ Crash(0, n, z)
  BY DEF Equals
<1>4. z
  BY <1>2, <1>3 DEF Inside
<1> QED
  BY <1>2, <1>3, <1>4, CrashIsSound

-----------------------------------------------------------------------------
(* Push and append                                                         *)

(* ct_lib_buffer_push, up to its reserve loop.                             *)
LEMMA PushByteIsSound ==
  ASSUME Inv, NEW b \in Buf, NEW v \in Byte, PushByte(b, v)
  PROVE  StepSound
<1> DEFINE bytes == [i \in {0} |-> v]
<1>1. Live(b) /\ StartGrow(b, "push", buf[b].size + 1, bytes, 1)
  BY DEF PushByte
<1>2. {0} = 0 .. 1 - 1 /\ 1 \in 1 .. MaxBytes /\ v \in Cell
  BY BufferAssumption DEF Cell
<1>3. bytes \in [0 .. 1 - 1 -> Cell]
  BY <1>2
<1>4. bytes \in Memory
  BY <1>2, <1>3, MemoryHas
<1>5. \E d \in Nat : 1 <= d /\ bytes \in [0 .. d - 1 -> Cell]
  BY <1>3
<1> HIDE DEF bytes
<1>6. 1 \in Nat /\ 1 <= MaxBytes
  BY <1>2
<1> QED
  BY <1>1, <1>4, <1>5, <1>6, StartGrowIsSound

(* ct_lib_buffer_append_buffer, up to its reserve loop.                    *)
LEMMA AppendIsSound ==
  ASSUME Inv, NEW b \in Buf, NEW o \in Buf, Append(b, o)
  PROVE  StepSound
<1>1. Live(b) /\ Ready /\ Whole(buf[o])
  BY LiveIsWhole DEF Append, Live
<1>2. CASE Raise
  BY <1>1, <1>2, RaiseIsSound
<1>3. CASE StartGrow(b, "append", AppendAt(buf[b], buf[o].size), buf[o].mem, buf[o].size)
  <2> DEFINE n == buf[o].size
             bytes == buf[o].mem
             d == buf[o].cap
             at == AppendAt(buf[b], n)
  <2>1. /\ n \in Nat /\ n <= MaxBytes /\ d \in Nat /\ n <= d
        /\ bytes = NoMem \/ bytes \in [0 .. d - 1 -> Cell]
    BY <1>1, SoundHas, BufferAssumption DEF Whole
  <2>2. bytes \in Memory \cup {NoMem}
    BY <1>1 DEF Whole, Sound, Record
  <2>3. at = buf[b].size
    BY DEF AppendAt
  <2>4. StartGrow(b, "append", at, bytes, n)
    BY <1>3
  <2> HIDE DEF n, bytes, d, at
  <2>5. bytes # NoMem => \E k \in Nat : n <= k /\ bytes \in [0 .. k - 1 -> Cell]
    BY <2>1
  <2> QED
    BY <1>1, <2>1, <2>2, <2>3, <2>4, <2>5, StartGrowIsSound
<1> QED
  BY <1>2, <1>3 DEF Append

(* What a running push or append knows, in the terms its proofs use.       *)
LEMMA GrowHas ==
  ASSUME Inv, grow # Idle, NEW b, b = grow.to, NEW r, r = buf[b]
  PROVE  /\ b \in Buf /\ Sound(r) /\ r # Gone /\ GrowSound
         /\ r.size \in Nat /\ r.cap \in Nat /\ r.cap <= MaxBytes
         /\ grow.op \in {"push", "append"}
         /\ grow.at \in UInt /\ grow.count \in UInt
         /\ grow.at \in Nat /\ grow.count \in Nat /\ grow.old.size \in Nat
<1>1. GrowSound
  BY DEF Inv
<1>2. /\ b \in Buf /\ grow.op \in {"push", "append"}
      /\ grow.at \in UInt /\ grow.count \in UInt
  BY <1>1 DEF GrowSound, Call
<1>3. r # Gone /\ Sound(r)
  BY <1>1, <1>2 DEF Inv, GrowSound
<1>4. grow.old.size \in Nat
  BY <1>1, SoundHas DEF GrowSound, Whole
<1>5. grow.at \in Nat /\ grow.count \in Nat
  BY <1>2, BufferAssumption DEF UInt
<1> QED
  BY <1>1, <1>2, <1>3, <1>4, <1>5, SoundHas

(* An iteration of the reserve loop: the buffer gets more memory.          *)
LEMMA ReserveLoopIsSound ==
  ASSUME Inv, status = "running", grow # Idle, NEW b, b = grow.to,
         NEW n \in Nat, n <= MaxBytes, Update(b, Reserved(buf[b], n))
  PROVE  StepSound
<1> DEFINE r == buf[b]
           s == Reserved(r, n)
<1>1. /\ b \in Buf /\ Sound(r) /\ r # Gone /\ GrowSound
      /\ r.size \in Nat /\ r.cap \in Nat /\ grow.old.size \in Nat
  BY GrowHas
<1>2. /\ Sound(s) /\ s.size = r.size
      /\ s.cap = IF n <= r.cap THEN r.cap ELSE n
      /\ r.mem # NoMem => /\ s.mem # NoMem
                          /\ \A i \in 0 .. r.cap - 1 : s.mem[i] = r.mem[i]
  BY <1>1, ReservedIsSound
<1>3. s # Gone /\ s.cap \in Nat /\ r.cap <= s.cap
  BY <1>1, <1>2, SoundHas
<1>4. /\ buf' = [buf EXCEPT ![b] = s] /\ grow' = grow /\ fault' = fault
      /\ status' = status
  BY DEF Update
<1> HIDE DEF s
<1>5. /\ buf' \in [Buf -> Record \cup {Gone}] /\ buf'[b] = s
      /\ \A c \in Buf : c # b => buf'[c] = buf[c]
  BY <1>1, <1>2, <1>4 DEF Inv, Sound
<1>6. Kept(r, s)
  <2> HIDE DEF r
  <2> QED
    BY <1>1, <1>2, <1>3, KeptIf
<1>7. GrowSound'
  <2>1. grow.old.mem # NoMem =>
          /\ s.mem # NoMem /\ grow.old.size <= s.cap
          /\ \A i \in 0 .. grow.old.size - 1 : s.mem[i] = grow.old.mem[i]
    <3>1. grow.old.mem # NoMem =>
            /\ r.mem # NoMem /\ grow.old.size <= r.cap
            /\ \A i \in 0 .. grow.old.size - 1 : r.mem[i] = grow.old.mem[i]
      BY <1>1 DEF GrowSound
    <3> HIDE DEF r
    <3> QED
      BY <1>1, <1>2, <1>3, <3>1
  <2> QED
    BY <1>1, <1>2, <1>3, <1>4, <1>5, <2>1 DEF GrowSound
<1>8. \A c \in Buf : buf'[c] # Gone => Sound(buf'[c])
  BY <1>2, <1>5 DEF Inv
<1>9. \A c \in Buf : buf'[c] # Gone /\ grow'.to # c => buf'[c].size <= buf'[c].cap
  BY <1>4, <1>5 DEF Inv
<1>10. Inv'
  BY <1>4, <1>5, <1>7, <1>8, <1>9 DEF Inv, InBounds
<1>11. \A c \in Buf : buf[c] # Gone /\ buf'[c] # Gone => Kept(buf[c], buf'[c])
  BY <1>5, <1>6, KeptSame
<1> QED
  BY <1>10, <1>11 DEF StepSound

(* The write that ends a push or append.                                   *)
Last(b) ==
  /\ grow' = Idle /\ UNCHANGED <<fault, status>>
  /\ Fits(buf[b]) /\ Inside(buf[b], grow.at, grow.count)
  /\ grow.count = 0 \/ (buf[b].mem # NoMem /\ grow.bytes # NoMem)
  /\ buf' = IF grow.count = 0 THEN buf
            ELSE [buf EXCEPT ![b].mem = Put(@, grow.at, grow.bytes, 0, grow.count)]

(* It leaves size and capacity alone and puts the bytes where they belong. *)
LEMMA LastPuts ==
  ASSUME Inv, grow # Idle, NEW b, b = grow.to, Last(b)
  PROVE  /\ Sound(buf'[b]) /\ buf'[b] # Gone /\ buf' \in [Buf -> Record \cup {Gone}]
         /\ buf'[b].size = buf[b].size /\ buf'[b].cap = buf[b].cap
         /\ \A c \in Buf : c # b => buf'[c] = buf[c]
         /\ buf[b].mem # NoMem =>
              \A k \in 0 .. buf[b].cap - 1 : buf'[b].mem[k] =
                IF grow.at <= k /\ k < grow.at + grow.count
                THEN grow.bytes[k - grow.at] ELSE buf[b].mem[k]
<1> DEFINE r == buf[b]
           m == Put(r.mem, grow.at, grow.bytes, 0, grow.count)
           s == [r EXCEPT !.mem = m]
<1>1. /\ b \in Buf /\ Sound(r) /\ r # Gone /\ GrowSound
      /\ r.size \in Nat /\ r.cap \in Nat
      /\ grow.at \in Nat /\ grow.count \in Nat
      /\ buf \in [Buf -> Record \cup {Gone}]
  BY GrowHas DEF Inv
<1>2. CASE grow.count = 0
  <2>1. buf' = buf
    BY <1>2 DEF Last
  <2>2. \A k \in Nat : ~(grow.at <= k /\ k < grow.at + grow.count)
    BY <1>1, <1>2
  <2> QED
    BY <1>1, <2>1, <2>2
<1>3. CASE grow.count # 0
  <2>1. r.mem # NoMem /\ grow.bytes # NoMem /\ buf' = [buf EXCEPT ![b] = s]
    BY <1>3 DEF Last
  <2>2. r.mem \in [0 .. r.cap - 1 -> Cell]
    BY <1>1, <2>1, SoundHas
  <2>3. PICK d \in Nat : grow.count <= d /\ grow.bytes \in [0 .. d - 1 -> Cell]
    BY <1>1, <2>1 DEF GrowSound
  <2>4. /\ m \in [0 .. r.cap - 1 -> Cell]
        /\ \A k \in 0 .. r.cap - 1 : m[k] =
             IF grow.at <= k /\ k < grow.at + grow.count
             THEN grow.bytes[0 + (k - grow.at)] ELSE r.mem[k]
    <3> DEFINE c == r.cap
               old == r.mem
               at == grow.at
               bytes == grow.bytes
               k == grow.count
    <3>1. /\ c \in Nat /\ at \in Nat /\ k \in Nat /\ 0 \in Nat /\ 0 + k <= d
          /\ old \in [0 .. c - 1 -> Cell] /\ bytes \in [0 .. d - 1 -> Cell]
      BY <1>1, <2>2, <2>3
    <3>2. m = Put(old, at, bytes, 0, k)
      BY DEF m
    <3> HIDE DEF c, old, at, bytes, k
    <3>3. Put(old, at, bytes, 0, k) \in [0 .. c - 1 -> Cell]
      BY <3>1, PutType
    <3>4. ASSUME NEW j \in 0 .. c - 1
          PROVE  Put(old, at, bytes, 0, k)[j] =
                   IF at <= j /\ j < at + k THEN bytes[0 + (j - at)] ELSE old[j]
      <4>1. j \in DOMAIN old /\ (j \in at .. at + k - 1 <=> at <= j /\ j < at + k)
        BY <3>1
      <4> QED
        BY <4>1 DEF Put
    <3> QED
      BY <3>2, <3>3, <3>4 DEF c, old, at, bytes, k
  <2> HIDE DEF m
  <2>5. \A k \in 0 .. r.cap - 1 : m[k] =
          IF grow.at <= k /\ k < grow.at + grow.count
          THEN grow.bytes[k - grow.at] ELSE r.mem[k]
    <3> HIDE DEF r
    <3>1. \A k \in 0 .. r.cap - 1 : 0 + (k - grow.at) = k - grow.at
      BY <1>1
    <3> QED
      BY <2>4, <3>1
  <2>6. Sound(s)
    <3> HIDE DEF r
    <3> QED
      BY <1>1, <2>1, <2>4, WrittenIsSound
  <2>7. s.size = r.size /\ s.cap = r.cap /\ s.mem = m
    BY <1>1, SoundHas
  <2> HIDE DEF s
  <2>8. buf'[b] = s /\ \A c \in Buf : c # b => buf'[c] = buf[c]
    BY <1>1, <2>1
  <2>9. buf' \in [Buf -> Record \cup {Gone}]
    BY <1>1, <2>1, <2>6 DEF Sound
  <2> QED
    BY <2>5, <2>6, <2>7, <2>8, <2>9, SoundHas
<1> QED
  BY <1>2, <1>3

(* The memcpy behind the reserve loop ends the method.                     *)
LEMMA LastIsSound ==
  ASSUME Inv, status = "running", grow # Idle, NEW b, b = grow.to, Last(b)
  PROVE  StepSound
<1>1. /\ Sound(buf'[b]) /\ buf' \in [Buf -> Record \cup {Gone}]
      /\ buf'[b].size = buf[b].size /\ buf'[b].cap = buf[b].cap
      /\ \A c \in Buf : c # b => buf'[c] = buf[c]
  BY LastPuts
<1>2. b \in Buf /\ buf[b].size \in Nat /\ buf[b].cap \in Nat
  BY GrowHas
<1>3. buf[b].size <= buf[b].cap
  BY <1>2 DEF Last, Fits
<1>4. grow' = Idle /\ fault' = fault /\ status' = status
  BY DEF Last
<1>5. \A c \in Buf : buf'[c] # Gone => Sound(buf'[c])
  BY <1>1 DEF Inv
<1>6. \A c \in Buf : buf'[c] # Gone => buf'[c].size <= buf'[c].cap
  BY <1>1, <1>3 DEF Inv
<1>7. Inv'
  BY <1>1, <1>4, <1>5, <1>6 DEF Inv, InBounds
<1>8. \A c \in Buf : Kept(buf[c], buf'[c])
  BY <1>1, KeptSame DEF Kept
<1> QED
  BY <1>7, <1>8 DEF StepSound

(* One iteration of the reserve loop, or the end of it.                    *)
LEMMA GrowIsSound ==
  ASSUME Inv, Grow
  PROVE  StepSound
<1> DEFINE b == grow.to
           r == buf[b]
           n == NextCap(r.cap)
           z == r.mem = NoMem \/ grow.bytes = NoMem
           safe == Inside(r, grow.at, grow.count) /\ (grow.count = 0 \/ ~z)
<1>1. status = "running" /\ grow # Idle
  BY DEF Grow
<1>2. /\ b \in Buf /\ r # Gone /\ GrowSound
      /\ r.size \in Nat /\ r.cap \in Nat
      /\ grow.op \in {"push", "append"}
      /\ grow.at \in UInt /\ grow.count \in UInt
      /\ grow.at \in Nat /\ grow.count \in Nat /\ grow.old.size \in Nat
  BY <1>1, GrowHas
<1>3. CASE status' = "error" /\ grow' = Idle /\ UNCHANGED <<buf, fault>>
  <2>1. Inv'
    BY <1>3 DEF Inv, InBounds
  <2> QED
    BY <1>3, <2>1, KeptSame DEF StepSound
<1>4. CASE ~TooLarge(n) /\ Update(b, Reserved(r, n))
  <2>1. n \in Nat /\ n <= MaxBytes
    BY <1>2, <1>4, NextCapType, BufferAssumption DEF TooLarge
  <2> QED
    BY <1>1, <1>4, <2>1, ReserveLoopIsSound
<1>5. CASE Fits(r) /\ ~safe /\ Crash(grow.at, grow.count, z)
  <2>1. grow.at + grow.count <= r.cap
    <3>1. r.size < r.cap /\ r.size = grow.old.size + grow.count
      BY <1>2, <1>5 DEF Fits, GrowSound
    <3>2. CASE grow.op = "append"
      <4>1. grow.at = grow.old.size
        BY <1>2, <3>2 DEF GrowSound
      <4> QED
        BY <1>2, <3>1, <4>1
    <3>3. CASE grow.op = "push"
      <4>1. grow.at = grow.old.size + 1 /\ grow.count = 1
        BY <1>2, <3>3 DEF GrowSound
      <4> QED
        BY <1>2, <3>1, <4>1
    <3> QED
      BY <1>2, <3>2, <3>3
  <2>2. z
    BY <1>5, <2>1 DEF Inside
  <2> QED
    BY <1>2, <1>5, <2>2, CrashIsSound
<1>6. CASE Last(b)
  BY <1>1, <1>6, LastIsSound
<1> QED
  BY <1>3, <1>4, <1>5, <1>6 DEF Grow, Last

-----------------------------------------------------------------------------
(* Every step                                                              *)

(* At the start there is no buffer, and no access was made.                *)
LEMMA InitInv == Init => Inv
BY BufferAssumption DEF Init, Inv, NoFault, InBounds, UInt

(* Every step of the specification is sound.                               *)
LEMMA NextIsSound ==
  ASSUME Inv, [Next]_vars
  PROVE  StepSound
<1>1. ASSUME NEW b \in Buf, NEW n \in UInt, New(b, n) \/ Resize(b, n) \/ Reserve(b, n)
      PROVE  StepSound
  BY <1>1, NewIsSound, ResizeIsSound, ReserveIsSound
<1>2. ASSUME NEW b \in Buf, Delete(b) \/ Truncate(b) \/ Clear(b)
      PROVE  StepSound
  BY <1>2, DeleteIsSound, TruncateIsSound, FillIsSound, BufferAssumption DEF Clear
<1>3. ASSUME NEW b \in Buf, NEW v \in Byte, PushByte(b, v) \/ Fill(b, v)
      PROVE  StepSound
  BY <1>3, PushByteIsSound, FillIsSound
<1>4. ASSUME NEW b \in Buf, NEW i \in UInt, GetByte(b, i) \/ FindByte(b, i)
      PROVE  StepSound
  BY <1>4, GetByteIsSound, FindByteIsSound
<1>5. ASSUME NEW b \in Buf, NEW i \in UInt, NEW v \in Byte, SetByte(b, i, v)
      PROVE  StepSound
  BY <1>5, SetByteIsSound
<1>6. ASSUME NEW b \in Buf, NEW o \in Buf, Append(b, o) \/ Equals(b, o) \/ Copy(b, o)
      PROVE  StepSound
  BY <1>6, AppendIsSound, EqualsIsSound, CopyIsSound
<1>7. ASSUME NEW b \in Buf, NEW o \in Buf, NEW i \in UInt,
             SetBuffer(b, i, o) \/ FindBuffer(b, i, o)
      PROVE  StepSound
  BY <1>7, SetBufferIsSound, FindBufferIsSound
<1>8. ASSUME NEW b \in Buf, NEW p \in Buf, NEW i \in UInt, NEW n \in UInt,
             Slice(b, i, n, p)
      PROVE  StepSound
  BY <1>8, SliceIsSound
<1>9. CASE Grow
  BY <1>9, GrowIsSound
<1>10. CASE UNCHANGED vars
  <2>1. Inv'
    BY <1>10 DEF vars, Inv, GrowSound, InBounds
  <2> QED
    BY <1>10, <2>1, KeptSame DEF vars, StepSound
<1> QED
  BY <1>1, <1>2, <1>3, <1>4, <1>5, <1>6, <1>7, <1>8, <1>9, <1>10 DEF Next

(* Only the last step of a call leaves the program running without one.    *)
LEMMA AppendsBytes ==
  ASSUME Inv, [Next]_vars
  PROVE  Appends("append")
<1> DEFINE b == grow.to
           old == grow.old
<1> SUFFICES ASSUME grow # Idle, grow' = Idle, status' = "running", grow.op = "append"
             PROVE  /\ buf'[b].size = old.size + grow.count
                    /\ old.mem # NoMem /\ grow.bytes # NoMem =>
                         \A i \in 0 .. buf'[b].size - 1 : buf'[b].mem[i] =
                           Joined(old, grow.bytes, grow.count)[i]
  BY DEF Appends
<1>1. Last(b)
  <2>1. Grow
    BY DEF Next, vars, New, Resize, Reserve, Delete, Truncate, Clear, PushByte, Fill,
           GetByte, FindByte, SetByte, Append, Equals, Copy, SetBuffer, FindBuffer,
           Slice, Live, Ready
  <2> QED
    BY <2>1 DEF Grow, Update, Crash, Last
<1>2. /\ buf'[b].size = buf[b].size
      /\ buf[b].mem # NoMem =>
           \A k \in 0 .. buf[b].cap - 1 : buf'[b].mem[k] =
             IF grow.at <= k /\ k < grow.at + grow.count
             THEN grow.bytes[k - grow.at] ELSE buf[b].mem[k]
  BY <1>1, LastPuts
<1>3. /\ b \in Buf /\ GrowSound /\ buf[b].size \in Nat /\ buf[b].cap \in Nat
      /\ grow.at \in Nat /\ grow.count \in Nat /\ old.size \in Nat
  BY GrowHas
<1>4. /\ buf[b].size = old.size + grow.count /\ grow.at = old.size
      /\ old.mem # NoMem =>
           /\ buf[b].mem # NoMem
           /\ \A i \in 0 .. old.size - 1 : buf[b].mem[i] = old.mem[i]
  BY <1>3 DEF GrowSound
<1>5. buf[b].size < buf[b].cap
  BY <1>1 DEF Last, Fits
<1>6. ASSUME old.mem # NoMem, NEW i \in 0 .. buf'[b].size - 1
      PROVE  buf'[b].mem[i] = IF i < old.size THEN old.mem[i] ELSE grow.bytes[i - old.size]
  <2>1. i \in 0 .. buf[b].cap - 1 /\ i \in Nat /\ i < old.size + grow.count
    BY <1>2, <1>3, <1>4, <1>5
  <2>2. buf'[b].mem[i] = IF old.size <= i /\ i < old.size + grow.count
                         THEN grow.bytes[i - old.size] ELSE buf[b].mem[i]
    BY <1>2, <1>4, <1>6, <2>1
  <2>3. CASE i < old.size
    BY <1>3, <1>4, <1>6, <2>1, <2>2, <2>3
  <2>4. CASE ~(i < old.size)
    BY <1>3, <2>1, <2>2, <2>4
  <2> QED
    BY <2>3, <2>4
<1>7. buf'[b].size = old.size + grow.count
  BY <1>2, <1>4
<1> HIDE DEF b, old
<1>8. ASSUME NEW i \in 0 .. buf'[b].size - 1
      PROVE  Joined(old, grow.bytes, grow.count)[i] =
               IF i < old.size THEN old.mem[i] ELSE grow.bytes[i - old.size]
  <2>1. i \in 0 .. old.size + grow.count - 1
    <3>1. old.size \in Nat /\ grow.count \in Nat
      BY <1>3
    <3> QED
      BY <1>7, <3>1
  <2> QED
    BY <2>1 DEF Joined
<1> QED
  BY <1>6, <1>7, <1>8

-----------------------------------------------------------------------------
(* Results                                                                 *)

(* The inductive invariant holds in every state.                           *)
THEOREM InvHolds == Spec => []Inv
<1>1. Init => Inv
  BY InitInv
<1>2. Inv /\ [Next]_vars => Inv'
  BY NextIsSound DEF StepSound
<1> QED
  BY <1>1, <1>2, PTL DEF Spec

(* Memory has as many bytes as the capacity says, at most 2 GB, and a size *)
(* never leaves a uint32_t, not even that of a push or append which fails  *)
(* halfway: no wrong size goes on.                                         *)
THEOREM BufferTypes == Spec => []TypeOK
<1>1. Inv => TypeOK
  <2> SUFFICES ASSUME Inv PROVE TypeOK
    OBVIOUS
  <2>1. ASSUME NEW b \in Buf, buf[b] # Gone
        PROVE  /\ buf[b].size \in UInt /\ buf[b].cap \in 0 .. MaxBytes
               /\ buf[b].mem # NoMem =>
                    buf[b].mem \in Memory /\ DOMAIN buf[b].mem = 0 .. buf[b].cap - 1
    BY <2>1 DEF Inv, Sound, Record
  <2>2. grow # Idle => /\ grow.to \in Buf /\ grow.at \in UInt /\ grow.count \in UInt
                       /\ buf[grow.to] # Gone
    BY DEF Inv, GrowSound, Call
  <2> QED
    BY <2>1, <2>2 DEF TypeOK, Inv
<1> QED
  BY <1>1, InvHolds, PTL

(* Between two calls no buffer is larger than its memory.                  *)
THEOREM SizesFit == Spec => []SizeFits
<1>1. Inv => SizeFits
  BY DEF Inv, SizeFits, Ready
<1> QED
  BY <1>1, InvHolds, PTL

(* The checks of index and length that the methods make, done in 32 bits,  *)
(* keep every access inside the memory, but for those whose index plus     *)
(* length wraps, and those of a buffer whose allocation failed.            *)
THEOREM AccessesStayInside == Spec => []InBounds
<1>1. Inv => InBounds
  BY DEF Inv
<1> QED
  BY <1>1, InvHolds, PTL

(* No reallocation, resize or truncation loses or changes a byte below     *)
(* both sizes.                                                             *)
THEOREM BytesSurvive == Spec => OldBytesKept
<1>1. Inv /\ [Next]_vars => [\A b \in Buf : BytesKept(b)]_vars
  BY NextIsSound DEF StepSound, Kept, BytesKept
<1> QED
  BY <1>1, InvHolds, PTL DEF Spec, OldBytesKept

(* append is concatenation, however often the reserve loop reallocates.    *)
THEOREM AppendIsConcatenation == Spec => AppendConcatenates
<1>1. Inv /\ [Next]_vars => [Appends("append")]_vars
  BY AppendsBytes
<1> QED
  BY <1>1, InvHolds, PTL DEF Spec, AppendConcatenates
=============================================================================
