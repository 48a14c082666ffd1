---------------------------- MODULE ResolverProofs ----------------------------
(***************************************************************************)
(* What holds of the resolver for every token stream: it reads no token    *)
(* behind the last, what it emits are bytes, and every patch lies inside   *)
(* them.                                                                   *)
(***************************************************************************)
EXTENDS Resolver, Induction

Byte == 0..255
Procedure == [id : Nat, arg_count : Nat, address : Nat]

(* What the resolver is given: the stream ends in a token without text, and *)
(* the texts of words and numbers are characters.                          *)
StreamOK ==
  /\ Len(stream) \in Nat \ {0}
  /\ stream[Len(stream)].type = "EndOfFile" /\ stream[Len(stream)].value = <<>>
  /\ \A i \in 1..Len(stream) :
       stream[i].type \in {"Int", "Float", "Word"} => stream[i].value \in Seq(STRING)

Code ==
  /\ instructions \in Seq(Byte)
  /\ procedures \in Seq(Procedure)

Pending ==
  /\ procedure \in Procedure /\ procedure.address <= size
  /\ \A l \in DOMAIN mJumpAddresses : mJumpAddresses[l] \in procedure.address..size
  /\ \A p \in DOMAIN mPatches : p \in Nat /\ p + 4 <= size

Reading ==
  /\ mCurrent \in 0..(Len(stream) - 1)
  /\ val \in Seq(STRING)
  /\ at \in {"top", "head", "body", "operands", "done", "crash"}

Inv == StreamOK /\ Code /\ Pending /\ Reading

-----------------------------------------------------------------------------
(* A digit has a value, and the digits a text begins with are digits.      *)
LEMMA FigureIsNat == ASSUME NEW d \in ToSet(Digits) PROVE Figure(d) \in Nat
<1>1. \E i \in 1..10 : Digits[i] = d
  BY DEF ToSet, Digits
<1> QED
  BY <1>1 DEF Figure

(* The figures of a text are its digits up to the first other character.   *)
LEMMA FiguresAre ==
  ASSUME NEW text \in Seq(STRING)
  PROVE  /\ Len(Figures(text)) \in Nat
         /\ \A i \in 1..Len(Figures(text)) : Figures(text)[i] \in ToSet(Digits)
<1> DEFINE D == ToSet(Digits)
           T == {n \in 0..Len(text) : n < Len(text) => text[n + 1] \notin D}
<1>1. Len(text) \in Nat /\ T \subseteq Nat /\ T # {}
  <2>1. Len(text) \in Nat
    OBVIOUS
  <2>2. Len(text) \in T
    BY <2>1
  <2> QED
    BY <2>1, <2>2
<1>2. PICK n \in T : \A m \in T : n <= m
  <2> HIDE DEF T
  <2> QED
    BY <1>1, LeastElement
<1>3. \A i \in 1..n : text[i] \in D
  <2> SUFFICES ASSUME NEW i \in 1..n, text[i] \notin D
               PROVE  FALSE
    OBVIOUS
  <2>1. i - 1 \in 0..Len(text) /\ i - 1 + 1 = i /\ ~(n <= i - 1)
    BY <1>1, <1>2
  <2>2. i - 1 \in T
    BY <2>1
  <2> QED
    BY <1>2, <2>1, <2>2
<1> DEFINE Fits(k) == /\ \A i \in 1..k : text[i] \in D
                      /\ k < Len(text) => text[k + 1] \notin D
           m == CHOOSE k \in 0..Len(text) : Fits(k)
<1>4. m \in 0..Len(text) /\ Fits(m)
  <2>1. n \in 0..Len(text) /\ Fits(n)
    BY <1>3
  <2> HIDE DEF Fits
  <2> QED
    BY <2>1
<1>5. Figures(text) = SubSeq(text, 1, m)
  BY DEF Figures
<1> HIDE DEF m, D
<1> QED
  BY <1>1, <1>4, <1>5 DEF D

(* stoi and stoul read a number that is not negative.                      *)
LEMMA NumberIsNat == ASSUME NEW text \in Seq(STRING) PROVE Number(text) \in Nat
<1> DEFINE read == Figures(text)
           L == Len(read)
           Fits(v) == v = [n \in 0..L |-> IF n = 0 THEN 0 ELSE 10 * v[n - 1] + Figure(read[n])]
<1>1. L \in Nat /\ \A n \in 1..L : Figure(read[n]) \in Nat
  BY FiguresAre, FigureIsNat
<1>2. \E v : Fits(v)
  <2> DEFINE G == [n \in Nat |-> [x \in Nat |-> IF n < L THEN 10 * x + Figure(read[n + 1]) ELSE 0]]
  <2>1. G \in [Nat -> [Nat -> Nat]]
    <3> SUFFICES ASSUME NEW n \in Nat, NEW x \in Nat, n < L
                 PROVE  10 * x + Figure(read[n + 1]) \in Nat
      OBVIOUS
    <3>1. n + 1 \in 1..L
      BY <1>1
    <3>2. Figure(read[n + 1]) \in Nat
      BY <1>1, <3>1
    <3> HIDE DEF read
    <3> QED
      BY <3>2
  <2>2. PICK f \in [Nat -> Nat] : f[0] = 0 /\ \A n \in Nat : f[n + 1] = G[n][f[n]]
    <3>1. 0 \in Nat
      OBVIOUS
    <3>2. PICK f : Iterates(f, Nat, 0, G)
      <4> HIDE DEF G
      <4> QED
        BY <2>1, <3>1, Recursion
    <3> HIDE DEF G
    <3> QED
      BY <3>2 DEF Iterates
  <2> DEFINE v == [n \in 0..L |-> f[n]]
  <2>3. ASSUME NEW n \in 0..L, n # 0
        PROVE  v[n] = 10 * v[n - 1] + Figure(read[n])
    <3>1. n - 1 \in Nat /\ n - 1 < L /\ n - 1 + 1 = n /\ n - 1 \in 0..L
      <4> HIDE DEF L
      <4> QED
        BY <1>1, <2>3
    <3>2. f[n] = G[n - 1][f[n - 1]] /\ f[n - 1] \in Nat
      <4> HIDE DEF G
      <4> QED
        BY <2>2, <3>1
    <3> HIDE DEF read, L
    <3> QED
      BY <3>1, <3>2
  <2>4. v = [n \in 0..L |-> IF n = 0 THEN 0 ELSE 10 * v[n - 1] + Figure(read[n])]
    <3>1. v[0] = 0
      BY <1>1, <2>2
    <3>2. \A n \in 0..L : v[n] = IF n = 0 THEN 0 ELSE 10 * v[n - 1] + Figure(read[n])
      <4> HIDE DEF v
      <4> QED
        BY <2>3, <3>1
    <3>3. \A w : /\ w = [n \in 0..L |-> f[n]]
                 /\ \A n \in 0..L : w[n] = IF n = 0 THEN 0 ELSE 10 * w[n - 1] + Figure(read[n])
             => w = [n \in 0..L |-> IF n = 0 THEN 0 ELSE 10 * w[n - 1] + Figure(read[n])]
      <4> HIDE DEF read, L
      <4> QED
        OBVIOUS
    <3> QED
      BY <3>2, <3>3
  <2> QED
    BY <2>4
<1>3. ASSUME NEW v, Fits(v)
      PROVE  v[L] \in Nat
  <2> DEFINE S == {n \in Nat : n <= L => v[n] \in Nat}
  <2>1. 0 \in S
    BY <1>1, <1>3
  <2>2. ASSUME NEW n \in Nat, n \in S
        PROVE  n + 1 \in S
    <3> SUFFICES ASSUME n + 1 <= L
                 PROVE  v[n + 1] \in Nat
      OBVIOUS
    <3>1. n + 1 \in 1..L /\ n + 1 # 0 /\ n + 1 - 1 = n /\ n + 1 \in 0..L /\ n <= L
      BY <1>1
    <3>2. v[n] \in Nat /\ Figure(read[n + 1]) \in Nat
      BY <1>1, <2>2, <3>1
    <3> HIDE DEF read, L
    <3>3. v[n + 1] = 10 * v[n] + Figure(read[n + 1])
      BY <1>3, <3>1
    <3> QED
      BY <3>2, <3>3
  <2>3. \A n \in Nat : n \in S
    <3> HIDE DEF S
    <3> QED
      BY <2>1, <2>2, SetInduction
  <2> QED
    BY <1>1, <2>3
<1> DEFINE value == CHOOSE v : Fits(v)
<1>4. Number(text) = value[L]
  BY DEF Number
<1>5. Fits(value)
  <2> HIDE DEF Fits
  <2> QED
    BY <1>2
<1> HIDE DEF Fits, value
<1> QED
  BY <1>3, <1>4, <1>5

-----------------------------------------------------------------------------
(* What is emitted are bytes.                                              *)
LEMMA BytesAre ==
  ASSUME NEW n \in Int
  PROVE  Bytes4(n) \in Seq(Byte) /\ Len(Bytes4(n)) = 4 /\ \A i \in 1..4 : Bytes4(n)[i] \in Byte
<1>1. \A m \in Int : m % 256 \in Byte
  BY DEF Byte
<1>2. n \div 256 \in Int /\ n \div 65536 \in Int /\ n \div 16777216 \in Int
  OBVIOUS
<1>3. /\ n % 256 \in Byte /\ (n \div 256) % 256 \in Byte
      /\ (n \div 65536) % 256 \in Byte /\ (n \div 16777216) % 256 \in Byte
  BY <1>1, <1>2
<1>4. \A a, b, d, e \in Byte : /\ <<a, b, d, e>> \in Seq(Byte) /\ Len(<<a, b, d, e>>) = 4
                                /\ \A i \in 1..4 : <<a, b, d, e>>[i] \in Byte
  OBVIOUS
<1> QED
  BY <1>3, <1>4 DEF Bytes4

(* Every opcode fits in a byte.                                            *)
LEMMA OpcodeIsByte == \A w \in Mnemonic : Opcode[w] \in Byte
  BY DEF Opcode, Mnemonic, Byte

(* A token that is not the last is followed by one.                        *)
LEMMA NotLast ==
  ASSUME Inv, NEW i \in 0..(Len(stream) - 1),
         \/ ~IsType(i, "EndOfFile")
         \/ \E text : Is(i, text)
  PROVE  i + 1 \in 0..(Len(stream) - 1)
<1>1. Len(stream) \in Nat \ {0}
  BY DEF Inv, StreamOK
<1>2. i + 1 # Len(stream)
  BY DEF Inv, StreamOK, IsType, Is, Text
<1> QED
  BY <1>1, <1>2

(* The text of a word or a number.                                         *)
LEMMA TextIs ==
  ASSUME Inv, NEW i \in 0..(Len(stream) - 1), NEW type \in {"Int", "Float", "Word"}, IsType(i, type)
  PROVE  Text(i) \in Seq(STRING) /\ i + 1 \in 0..(Len(stream) - 1)
<1>1. i + 1 \in 1..Len(stream)
  BY DEF Inv, StreamOK
<1>2. Text(i) \in Seq(STRING)
  BY <1>1 DEF Inv, StreamOK, IsType, Text
<1>3. ~IsType(i, "EndOfFile")
  BY DEF IsType
<1> QED
  BY <1>2, <1>3, NotLast

(* Labels and patches stay inside the code when the code only grows.       *)
LEMMA PendingStays ==
  ASSUME Inv, procedure' = procedure, mJumpAddresses' = mJumpAddresses, mPatches' = mPatches,
         size' \in Nat, size <= size'
  PROVE  Pending'
<1>1. size \in Nat
  BY DEF Inv, Code, size
<1>2. procedure.address \in Nat /\ procedure.address <= size'
  BY <1>1 DEF Inv, Pending, Procedure
<1>3. \A l \in DOMAIN mJumpAddresses : mJumpAddresses[l] \in procedure.address..size'
  BY <1>1, <1>2 DEF Inv, Pending
<1>4. \A p \in DOMAIN mPatches : p \in Nat /\ p + 4 <= size'
  BY <1>1 DEF Inv, Pending
<1> QED
  BY <1>2, <1>3, <1>4 DEF Inv, Pending

(* Bytes added at the end.                                                 *)
LEMMA Emits ==
  ASSUME Inv, NEW bytes \in Seq(Byte), instructions' = instructions \o bytes
  PROVE  /\ instructions' \in Seq(Byte) /\ size \in Nat
         /\ size' = size + Len(bytes) /\ size' \in Nat /\ size <= size'
  BY DEF Inv, Code, size

(* Between procedures.                                                     *)
LEMMA TopKeepsInv ==
  ASSUME Inv, Proc \/ End \/ ProcHeadThrows \/ UnknownInstruction \/ SlotThrows \/ IntOperandThrows
              \/ FloatOperandThrows \/ EndInstruction
  PROVE  Inv'
<1>1. mCurrent' \in 0..(Len(stream) - 1)
  <2>1. mCurrent \in 0..(Len(stream) - 1)
    BY DEF Inv, Reading
  <2>2. CASE Proc
    <3>1. ~IsType(mCurrent, "EndOfFile") /\ mCurrent' = mCurrent + 1
      BY <2>2 DEF Proc
    <3> QED
      BY <2>1, <3>1, NotLast
  <2>3. CASE EndInstruction
    <3>1. Is(mCurrent, ";") /\ mCurrent' = mCurrent + 1
      BY <2>3 DEF EndInstruction
    <3> QED
      BY <2>1, <3>1, NotLast
  <2>4. CASE mCurrent' = mCurrent
    BY <2>1, <2>4
  <2> QED
    BY <2>2, <2>3, <2>4 DEF End, ProcHeadThrows, UnknownInstruction, SlotThrows, IntOperandThrows,
                                 FloatOperandThrows, Throw
<1>2. /\ stream' = stream /\ instructions' = instructions /\ procedures' = procedures
      /\ procedure' = procedure /\ mJumpAddresses' = mJumpAddresses /\ mPatches' = mPatches
      /\ val' = val
      /\ at' \in {"top", "head", "body", "operands", "done", "crash"}
  <2>1. CASE Proc
    BY <2>1 DEF Proc
  <2>2. CASE End
    BY <2>2 DEF End
  <2>3. CASE EndInstruction
    BY <2>3 DEF EndInstruction
  <2>4. CASE Throw
    BY <2>4 DEF Throw
  <2> QED
    BY <2>1, <2>2, <2>3, <2>4 DEF ProcHeadThrows, UnknownInstruction, SlotThrows,
                                       IntOperandThrows, FloatOperandThrows
<1>3. StreamOK' /\ Code'
  BY <1>2 DEF Inv, StreamOK, Code
<1>4. Pending'
  BY <1>2 DEF Inv, Pending, size
<1>5. Reading'
  BY <1>1, <1>2 DEF Inv, Reading
<1> QED
  BY <1>3, <1>4, <1>5 DEF Inv

(* A procedure begins at the end of the code, with no labels and no        *)
(* patches; its head is read as far as it is there.                        *)
LEMMA ProcHeadKeepsInv == ASSUME UIntMax \in Nat, Inv, ProcHead PROVE Inv'
<1> DEFINE open == Is(mCurrent + 1, "(")
           i    == Skip(mCurrent + 1, open)
           args == open /\ IsType(i, "Int")
           shut == args /\ Is(i + 1, ")")
           j    == Skip(Skip(i, args), shut)
           I0   == 0..(Len(stream) - 1)
<1>1. mCurrent \in I0
  BY DEF Inv, Reading
<1>2. /\ IsType(mCurrent, "Int")
      /\ val' = IF args THEN Text(i) ELSE Text(mCurrent)
      /\ mCurrent' = Skip(j, Is(j, "{"))
      /\ procedure' = [id |-> Narrow(Number(Text(mCurrent))), arg_count |-> Narrow(Number(val')),
                       address |-> size]
      /\ mJumpAddresses' = <<>> /\ mPatches' = <<>> /\ at' = "body"
      /\ stream' = stream /\ instructions' = instructions /\ procedures' = procedures
  <2>1. open => i = mCurrent + 2
    BY <1>1 DEF Skip
  <2>2. CountText = IF args THEN Text(i) ELSE Text(mCurrent)
    BY <2>1 DEF CountText
  <2> HIDE DEF args, i
  <2> QED
    BY <2>2 DEF ProcHead, i, args
<1>3. Text(mCurrent) \in Seq(STRING) /\ mCurrent + 1 \in I0
  BY <1>2, <1>1, TextIs
<1>4. i \in I0
  BY <1>3, NotLast DEF Skip
<1>5. args => Text(i) \in Seq(STRING) /\ i + 1 \in I0
  <2> HIDE DEF i
  <2> QED
    BY <1>4, TextIs
<1>6. val' \in Seq(STRING)
  <2> HIDE DEF i, args
  <2> QED
    BY <1>2, <1>3, <1>5
<1>7. Skip(i, args) \in I0
  <2> HIDE DEF i, args
  <2> QED
    BY <1>4, <1>5 DEF Skip
<1>8. j \in I0
  <2>1. CASE shut
    <3>1. Skip(i, args) = i + 1 /\ Is(i + 1, ")") /\ j = i + 1 + 1
      BY <2>1 DEF Skip
    <3> HIDE DEF i, args, j
    <3> QED
      BY <1>7, <3>1, NotLast
  <2>2. CASE ~shut
    <3>1. j = Skip(i, args)
      BY <2>2 DEF Skip
    <3> HIDE DEF i, args, j
    <3> QED
      BY <1>7, <3>1
  <2> QED
    BY <2>1, <2>2
<1>9. mCurrent' \in I0
  <2> HIDE DEF j
  <2> QED
    BY <1>2, <1>8, NotLast DEF Skip
<1>10. Reading'
  BY <1>2, <1>6, <1>9 DEF Reading
<1>11. Pending'
  <2>1. Number(Text(mCurrent)) \in Nat /\ Number(val') \in Nat
    BY <1>3, <1>6, NumberIsNat
  <2>2. size \in Nat /\ size' = size
    <3>1. instructions' = instructions
      BY <1>2
    <3> QED
      BY <3>1 DEF Inv, Code, size
  <2>3. procedure' \in Procedure /\ procedure'.address = size
    <3>1. \A n \in Nat : Narrow(n) \in Nat
      BY DEF Narrow
    <3> QED
      BY <1>2, <2>1, <2>2, <3>1 DEF Procedure
  <2>4. DOMAIN mJumpAddresses' = {} /\ DOMAIN mPatches' = {}
    <3>1. DOMAIN <<>> = 1..0
      OBVIOUS
    <3>2. mJumpAddresses' = <<>> /\ mPatches' = <<>>
      BY <1>2
    <3>3. 1..0 = {}
      OBVIOUS
    <3> QED
      BY <3>1, <3>2, <3>3
  <2> QED
    BY <2>2, <2>3, <2>4 DEF Pending
<1>12. StreamOK' /\ Code'
  BY <1>2 DEF Inv, StreamOK, Code
<1> QED
  BY <1>10, <1>11, <1>12 DEF Inv

(* A label stands where the next instruction will.                         *)
LEMMA LabelKeepsInv == ASSUME Inv, Label PROVE Inv'
<1> DEFINE named == IsType(mCurrent + 1, "Word")
           label == IF named THEN Text(mCurrent + 1) ELSE <<>>
           i     == Skip(mCurrent + 1, named)
           I0    == 0..(Len(stream) - 1)
<1>1. /\ Is(mCurrent, "@") /\ mCurrent' = Skip(i, Is(i, ";"))
      /\ mJumpAddresses' = With(mJumpAddresses, label, size)
      /\ stream' = stream /\ instructions' = instructions /\ procedures' = procedures
      /\ procedure' = procedure /\ mPatches' = mPatches /\ val' = val /\ at' = at
  BY DEF Label
<1>2. mCurrent \in I0
  BY DEF Inv, Reading
<1>3. mCurrent + 1 \in I0
  BY <1>1, <1>2, NotLast
<1>4. i \in I0
  <2>1. CASE named
    BY <1>3, <2>1, TextIs DEF Skip
  <2>2. CASE ~named
    BY <1>3, <2>2 DEF Skip
  <2> QED
    BY <2>1, <2>2
<1>5. mCurrent' \in I0
  <2> HIDE DEF i
  <2> QED
    BY <1>1, <1>4, NotLast DEF Skip
<1>6. Reading'
  BY <1>1, <1>5 DEF Inv, Reading
<1>7. Pending'
  <2>1. size' = size /\ size \in Nat
    <3>1. instructions' = instructions
      BY <1>1
    <3> QED
      BY <3>1 DEF Inv, Code, size
  <2>2. procedure.address \in Nat /\ procedure.address <= size
    BY DEF Inv, Pending, Procedure
  <2> HIDE DEF label
  <2>3. ASSUME NEW l \in DOMAIN mJumpAddresses'
        PROVE  mJumpAddresses'[l] \in procedure.address..size
    <3>1. CASE l = label
      <4>1. mJumpAddresses'[l] = size
        BY <1>1, <3>1 DEF With
      <4> QED
        BY <2>1, <2>2, <4>1
    <3>2. CASE l # label
      <4>1. l \in DOMAIN mJumpAddresses /\ mJumpAddresses'[l] = mJumpAddresses[l]
        BY <1>1, <3>2 DEF With
      <4> QED
        BY <4>1 DEF Inv, Pending
    <3> QED
      BY <3>1, <3>2
  <2> QED
    BY <1>1, <2>1, <2>3 DEF Inv, Pending
<1>8. StreamOK' /\ Code'
  BY <1>1 DEF Inv, StreamOK, Code
<1> QED
  BY <1>6, <1>7, <1>8 DEF Inv

(* An instruction begins with its opcode.                                  *)
LEMMA InstructionKeepsInv == ASSUME Inv, Instruction PROVE Inv'
<1>1. /\ Known(mCurrent) /\ val' = Text(mCurrent) /\ mCurrent' = mCurrent + 1
      /\ instructions' = Append(instructions, Opcode[val'[1]]) /\ at' = "operands"
      /\ stream' = stream /\ procedures' = procedures
      /\ procedure' = procedure /\ mJumpAddresses' = mJumpAddresses /\ mPatches' = mPatches
  BY DEF Instruction
<1>2. mCurrent \in 0..(Len(stream) - 1) /\ IsType(mCurrent, "Word")
  BY <1>1 DEF Inv, Reading, Known
<1>3. val' \in Seq(STRING) /\ mCurrent' \in 0..(Len(stream) - 1)
  BY <1>1, <1>2, TextIs
<1>4. Opcode[val'[1]] \in Byte
  BY <1>1, OpcodeIsByte DEF Known
<1>5. instructions' \in Seq(Byte) /\ size \in Nat /\ size' \in Nat /\ size <= size'
  <2>1. instructions \in Seq(Byte)
    BY DEF Inv, Code
  <2>2. PICK b \in Byte : instructions' = Append(instructions, b)
    BY <1>1, <1>4
  <2> QED
    BY <2>1, <2>2 DEF size
<1>6. Pending'
  BY <1>1, <1>5, PendingStays
<1>7. Code' /\ StreamOK'
  BY <1>1, <1>5 DEF Inv, Code, StreamOK
<1>8. Reading'
  BY <1>1, <1>3 DEF Reading
<1> QED
  BY <1>6, <1>7, <1>8 DEF Inv

(* A slot is one byte, of the number last read if there is none.           *)
LEMMA SlotKeepsInv == ASSUME Inv, Slot PROVE Inv'
<1> DEFINE found == IsType(mCurrent + 1, "Int")
<1>1. /\ Is(mCurrent, "$") /\ val' = IF found THEN Text(mCurrent + 1) ELSE val
      /\ mCurrent' = Skip(mCurrent + 1, found)
      /\ instructions' = Append(instructions, Number(val') % 256) /\ at' = at
      /\ stream' = stream /\ procedures' = procedures
      /\ procedure' = procedure /\ mJumpAddresses' = mJumpAddresses /\ mPatches' = mPatches
  BY DEF Slot
<1>2. mCurrent + 1 \in 0..(Len(stream) - 1)
  BY <1>1, NotLast DEF Inv, Reading
<1>3. val' \in Seq(STRING) /\ mCurrent' \in 0..(Len(stream) - 1)
  <2>1. CASE found
    BY <1>1, <1>2, <2>1, TextIs DEF Skip
  <2>2. CASE ~found
    BY <1>1, <1>2, <2>2 DEF Skip, Inv, Reading
  <2> QED
    BY <2>1, <2>2
<1>4. Number(val') % 256 \in Byte
  <2>1. Number(val') \in Nat
    BY <1>3, NumberIsNat
  <2> QED
    BY <2>1 DEF Byte
<1>5. instructions' \in Seq(Byte) /\ size \in Nat /\ size' \in Nat /\ size <= size'
  <2>1. instructions \in Seq(Byte)
    BY DEF Inv, Code
  <2>2. PICK b \in Byte : instructions' = Append(instructions, b)
    BY <1>1, <1>4
  <2> QED
    BY <2>1, <2>2 DEF size
<1>6. Pending'
  BY <1>1, <1>5, PendingStays
<1>7. Code' /\ StreamOK'
  BY <1>1, <1>5 DEF Inv, Code, StreamOK
<1>8. Reading'
  BY <1>1, <1>3 DEF Inv, Reading
<1> QED
  BY <1>6, <1>7, <1>8 DEF Inv

(* A number, a float and a jump back are four bytes.                       *)
LEMMA OperandKeepsInv ==
  ASSUME Inv, NEW bytes \in Seq(Byte), Operand(bytes), mPatches' = mPatches,
         NEW type \in {"Int", "Float", "Word"}, IsType(mCurrent, type)
  PROVE  Inv'
<1>1. /\ instructions' = instructions \o bytes /\ val' = Text(mCurrent)
      /\ mCurrent' = mCurrent + 1 /\ at' = at
      /\ stream' = stream /\ procedures' = procedures
      /\ procedure' = procedure /\ mJumpAddresses' = mJumpAddresses
  BY DEF Operand
<1>2. val' \in Seq(STRING) /\ mCurrent' \in 0..(Len(stream) - 1)
  <2>1. mCurrent \in 0..(Len(stream) - 1)
    BY DEF Inv, Reading
  <2> QED
    BY <1>1, <2>1, TextIs
<1>3. instructions' \in Seq(Byte) /\ size' \in Nat /\ size <= size'
  BY <1>1, Emits
<1>4. Pending'
  BY <1>1, <1>3, PendingStays
<1>5. Code' /\ StreamOK'
  BY <1>1, <1>3 DEF Inv, Code, StreamOK
<1>6. Reading'
  BY <1>1, <1>2 DEF Inv, Reading
<1> QED
  BY <1>4, <1>5, <1>6 DEF Inv

(* The operands other than slots and forward jumps.                        *)
LEMMA OperandsKeepInv ==
  ASSUME FloatBytes \in Seq(Byte), Inv, IntOperand \/ FloatOperand \/ Backward
  PROVE  Inv'
<1>1. mCurrent \in 0..(Len(stream) - 1)
  BY DEF Inv, Reading
<1>2. CASE IntOperand
  <2>1. IsType(mCurrent, "Int") /\ Operand(Bytes4(Number(Text(mCurrent)))) /\ mPatches' = mPatches
    BY <1>2 DEF IntOperand
  <2>2. Number(Text(mCurrent)) \in Int
    BY <1>1, <2>1, TextIs, NumberIsNat
  <2>3. Bytes4(Number(Text(mCurrent))) \in Seq(Byte)
    BY <2>2, BytesAre
  <2> QED
    BY <2>1, <2>3, OperandKeepsInv
<1>3. CASE FloatOperand
  <2>1. IsType(mCurrent, "Float") /\ Operand(FloatBytes) /\ mPatches' = mPatches
    BY <1>3 DEF FloatOperand
  <2> QED
    BY <2>1, OperandKeepsInv
<1>4. CASE Backward
  <2>1. /\ IsType(mCurrent, "Word") /\ Text(mCurrent) \in DOMAIN mJumpAddresses
        /\ Operand(Bytes4(Offset(Text(mCurrent)))) /\ mPatches' = mPatches
    BY <1>4 DEF Backward
  <2>2. size \in Nat /\ procedure.address \in Nat
    BY DEF Inv, Code, Pending, Procedure, size
  <2>3. mJumpAddresses[Text(mCurrent)] \in Int
    BY <2>1, <2>2 DEF Inv, Pending
  <2>4. Offset(Text(mCurrent)) \in Int
    BY <2>2, <2>3 DEF Offset
  <2>5. Bytes4(Offset(Text(mCurrent))) \in Seq(Byte)
    BY <2>4, BytesAre
  <2> QED
    BY <2>1, <2>5, OperandKeepsInv
<1> QED
  BY <1>2, <1>3, <1>4

(* A jump forward leaves a patch over the four bytes it adds.              *)
LEMMA ForwardKeepsInv == ASSUME Inv, Forward PROVE Inv'
<1> DEFINE bytes == Bytes4(0)
<1>1. /\ instructions' = instructions \o bytes /\ val' = Text(mCurrent)
      /\ mCurrent' = mCurrent + 1 /\ at' = at
      /\ stream' = stream /\ procedures' = procedures
      /\ procedure' = procedure /\ mJumpAddresses' = mJumpAddresses
      /\ mPatches' = With(mPatches, size, Text(mCurrent))
      /\ IsType(mCurrent, "Word")
  BY DEF Forward, Operand
<1>2. val' \in Seq(STRING) /\ mCurrent' \in 0..(Len(stream) - 1)
  <2>1. mCurrent \in 0..(Len(stream) - 1)
    BY DEF Inv, Reading
  <2> QED
    BY <1>1, <2>1, TextIs
<1>3. instructions' \in Seq(Byte) /\ size \in Nat /\ size' = size + 4
  <2>1. bytes \in Seq(Byte) /\ Len(bytes) = 4
    BY BytesAre
  <2> HIDE DEF bytes
  <2> QED
    BY <1>1, <2>1, Emits
<1>4. Pending'
  <2>1. procedure.address \in Nat /\ procedure.address <= size'
    BY <1>3 DEF Inv, Pending, Procedure
  <2>2. \A l \in DOMAIN mJumpAddresses : mJumpAddresses[l] \in procedure.address..size'
    BY <1>3, <2>1 DEF Inv, Pending
  <2>3. ASSUME NEW p \in DOMAIN mPatches'
        PROVE  p \in Nat /\ p + 4 <= size'
    <3>1. p = size \/ p \in DOMAIN mPatches
      BY <1>1 DEF With
    <3> QED
      BY <1>3, <3>1 DEF Inv, Pending
  <2> QED
    BY <1>1, <2>1, <2>2, <2>3 DEF Inv, Pending
<1>5. Code' /\ StreamOK'
  BY <1>1, <1>3 DEF Inv, Code, StreamOK
<1>6. Reading'
  BY <1>1, <1>2 DEF Inv, Reading
<1> QED
  BY <1>4, <1>5, <1>6 DEF Inv

(* Patching changes bytes, not their number.                               *)
LEMMA PatchedIs == ASSUME Inv, NEW i \in 1..size PROVE Patched(i) \in Byte
<1>1. size \in Nat /\ instructions \in Seq(Byte) /\ procedure.address \in Nat
  BY DEF Inv, Code, Pending, Procedure, size
<1>2. CASE \E p \in DOMAIN mPatches : i \in (p + 1)..(p + 4)
  <2> DEFINE p == CHOOSE p \in DOMAIN mPatches : i \in (p + 1)..(p + 4)
  <2>1. p \in DOMAIN mPatches /\ i \in (p + 1)..(p + 4)
    BY <1>2
  <2>2. Patched(i) = Bytes4(PatchOffset(p))[i - p]
    BY <1>2 DEF Patched
  <2> HIDE DEF p
  <2>3. p \in Nat
    BY <2>1 DEF Inv, Pending
  <2>4. PatchOffset(p) \in Int
    BY <1>1, <2>3 DEF PatchOffset, Inv, Pending
  <2>5. i - p \in 1..4
    BY <2>1, <2>3
  <2> QED
    BY <2>2, <2>4, <2>5, BytesAre
<1>3. CASE ~\E p \in DOMAIN mPatches : i \in (p + 1)..(p + 4)
  <2>1. Patched(i) = instructions[i]
    BY <1>3 DEF Patched
  <2> QED
    BY <1>1, <2>1 DEF size
<1> QED
  BY <1>2, <1>3

(* The end of a procedure patches its forward jumps.                       *)
LEMMA EndProcedureKeepsInv == ASSUME Inv, EndProcedure PROVE Inv'
<1>1. /\ IsType(mCurrent, "EndOfFile") \/ Is(mCurrent, "}")
      /\ mCurrent' = Skip(mCurrent, ~IsType(mCurrent, "EndOfFile"))
      /\ instructions' = [i \in 1..size |-> Patched(i)]
      /\ procedures' = Append(procedures, procedure)
      /\ at' = "top" /\ stream' = stream /\ procedure' = procedure
      /\ mJumpAddresses' = mJumpAddresses /\ mPatches' = mPatches /\ val' = val
  BY DEF EndProcedure
<1>2. mCurrent' \in 0..(Len(stream) - 1)
  BY <1>1, NotLast DEF Inv, Reading, Skip
<1>3. instructions' \in Seq(Byte) /\ size' = size /\ size \in Nat
  <2>1. size \in Nat
    BY DEF Inv, Code, size
  <2>2. instructions' \in [1..size -> Byte]
    BY <1>1, PatchedIs
  <2> QED
    BY <2>1, <2>2 DEF size
<1>4. Pending'
  <2>1. size' \in Nat /\ size <= size'
    BY <1>3
  <2> QED
    BY <1>1, <2>1, PendingStays
<1>5. procedures' \in Seq(Procedure)
  <2>1. procedures \in Seq(Procedure) /\ procedure \in Procedure
    BY DEF Inv, Code, Pending
  <2>2. procedures' = Append(procedures, procedure)
    BY <1>1
  <2> QED
    BY <2>1, <2>2
<1>6. Code' /\ StreamOK'
  BY <1>1, <1>3, <1>5 DEF Inv, Code, StreamOK
<1>7. Reading'
  BY <1>1, <1>2 DEF Inv, Reading
<1> QED
  BY <1>4, <1>6, <1>7 DEF Inv

-----------------------------------------------------------------------------
(* Every stream is begun in order, and every step keeps the invariant.     *)
LEMMA Starts == ASSUME StreamOK, Init PROVE Inv
<1>1. Reading
  BY DEF Init, Reading, StreamOK
<1>2. Code
  BY DEF Init, Code
<1>3. DOMAIN mJumpAddresses = {} /\ DOMAIN mPatches = {}
  <2>1. DOMAIN <<>> = 1..0
    OBVIOUS
  <2>2. mJumpAddresses = <<>> /\ mPatches = <<>>
    BY DEF Init
  <2>3. 1..0 = {}
    OBVIOUS
  <2> QED
    BY <2>1, <2>2, <2>3
<1>4. procedure \in Procedure /\ procedure.address = 0
  BY DEF Init, NoProcedure, Procedure
<1>5. size = 0
  BY DEF Init, size
<1>6. Pending
  BY <1>3, <1>4, <1>5 DEF Pending
<1> QED
  BY <1>1, <1>2, <1>6 DEF Inv

(* Every step of the resolver keeps the invariant.                         *)
LEMMA KeepsInv ==
  ASSUME UIntMax \in Nat, FloatBytes \in Seq(Byte), Inv, Next
  PROVE  Inv'
BY TopKeepsInv, ProcHeadKeepsInv, LabelKeepsInv, InstructionKeepsInv, SlotKeepsInv,
   OperandsKeepInv, ForwardKeepsInv, EndProcedureKeepsInv
   DEF Next

(* What the invariant says of the types.                                   *)
LEMMA InvGivesTypes == ASSUME Inv PROVE TypeOK
<1>1. Len(stream) \in Nat
  BY DEF Inv, StreamOK
<1>2. \A i \in 1..size : instructions[i] \in 0..255
  <2>1. instructions \in Seq(Byte)
    BY DEF Inv, Code
  <2>2. \A i \in 1..size : instructions[i] \in Byte
    BY <2>1 DEF size
  <2> QED
    BY <2>2 DEF Byte
<1> QED
  BY <1>1, <1>2 DEF Inv, Pending, Reading, TypeOK
=============================================================================
