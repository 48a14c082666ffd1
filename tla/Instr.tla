-------------------------------- MODULE Instr --------------------------------
(***************************************************************************)
(* The instruction set: the numbers of CuteInstr.h under the mnemonics the *)
(* assembler knows them by, how a 32-bit operand is laid out, and how many *)
(* bytes of operands each handler of the interpreter reads.                *)
(***************************************************************************)
EXTENDS Integers, Sequences

\* CtInstr, under the names of the assembler's table.
Opcode ==
  [null |-> \h00, halt |-> \h01, out |-> \h02,
   mov |-> \h20, seti |-> \h21, setu |-> \h22, setf |-> \h23,
   i2f |-> \h2A, f2i |-> \h2B, u2f |-> \h2C, f2u |-> \h2D,
   addi |-> \h30, subi |-> \h31, muli |-> \h32, divi |-> \h33, modi |-> \h34,
   negi |-> \h35, absi |-> \h36, inci |-> \h37, deci |-> \h38,
   addu |-> \h40, subu |-> \h41, mulu |-> \h42, divu |-> \h43, modu |-> \h44,
   incu |-> \h45, decu |-> \h46,
   addf |-> \h50, subf |-> \h51, mulf |-> \h52, divf |-> \h53,
   negf |-> \h54, absf |-> \h55,
   and |-> \h60, or |-> \h61, not |-> \h62, xor |-> \h63,
   band |-> \h70, bor |-> \h71, bnot |-> \h73, bxor |-> \h74,
   bshl |-> \h75, bshr |-> \h76, bshra |-> \h77,
   cmpi |-> \h80, cmpu |-> \h81, cmpf |-> \h82,
   eq |-> \h90, neq |-> \h91, lt |-> \h92, lteq |-> \h93, gt |-> \h94, gteq |-> \h95,
   jmp |-> \hA0, jmpeq |-> \hA1, jmpne |-> \hA2, jmpgt |-> \hA3, jmpge |-> \hA4,
   jmplt |-> \hA5, jmple |-> \hA6, jmpif |-> \hA7, jmpifn |-> \hA8,
   call |-> \hB0, ret |-> \hB1, retval |-> \hB2, modcall |-> \hBA,
   connew |-> \hC0, conget |-> \hC1, conset |-> \hC2, consize |-> \hC3, concopy |-> \hC4]

\* The keys of CtInstrMap.
Mnemonic == DOMAIN Opcode

\* What dispatch_table holds for byte b; every other entry is the illegal one.
Handler(b) == IF \E w \in Mnemonic : Opcode[w] = b
              THEN CHOOSE w \in Mnemonic : Opcode[w] = b
              ELSE "illegal"

OnFlags == {"jmpeq", "jmpne", "jmpgt", "jmpge", "jmplt", "jmple"}
OnSlot == {"jmpif", "jmpifn"}
Jumps == {"jmp"} \cup OnFlags \cup OnSlot

\* The number of operand bytes the handler of w reads.
OperandBytes(w) ==
  CASE w \in {"null", "ret", "illegal"} -> 0
    [] w \in {"halt", "retval", "inci", "deci", "incu", "decu",
              "eq", "neq", "lt", "lteq", "gt", "gteq"} -> 1
    [] w \in {"out", "mov", "i2f", "f2i", "u2f", "f2u", "negi", "absi", "negf", "absf",
              "not", "bnot", "cmpi", "cmpu", "cmpf", "connew", "consize", "concopy"} -> 2
    [] w \in {"jmp", "modcall"} \cup OnFlags -> 4
    [] w \in {"seti", "setu", "setf"} \cup OnSlot -> 5
    [] OTHER -> 3

\* A 32-bit number in memory, least significant byte first.
Bytes4(n) == <<n % 256, (n \div 256) % 256, (n \div 65536) % 256, (n \div 16777216) % 256>>
Int4(b) == b[1] + 256 * b[2] + 65536 * b[3]
             + 16777216 * (IF b[4] >= 128 THEN b[4] - 256 ELSE b[4])
=============================================================================
