------------------------------- MODULE Resolver -------------------------------
(***************************************************************************)
(* The assembler's resolver: it turns the token stream into procedures and *)
(* instruction bytes, and labels into offsets.  The parser compares token  *)
(* texts whatever the type, leaves out what it does not find, and throws   *)
(* only where a number or a mnemonic cannot be converted.  A loop that     *)
(* consumes nothing has no step.                                           *)
(***************************************************************************)
EXTENDS Instr, SequencesExt

CONSTANTS IntMax,      \* INT_MAX, scaled: the largest number stoi accepts
          UIntMax,     \* UINT_MAX, scaled: the largest id and the largest argument count
          ULongMax,    \* ULONG_MAX, scaled: the largest number stoul accepts
          FloatBytes,  \* the four bytes of every float
          Unfit        \* the texts of the numbers that no float comes near: stof throws

VARIABLES stream,          \* the tokens, each with its text
          mCurrent,        \* the next token, from 0
          instructions,    \* mProgram->instructions
          procedures,      \* mProgram->procedures
          procedure,       \* the procedure being resolved
          mJumpAddresses,  \* label -> address
          mPatches,        \* place of an operand -> the label it waits for
          val,             \* the text last read, kept when the next is missing
          at               \* the loop the resolver is in

vars == <<stream, mCurrent, instructions, procedures, procedure,
          mJumpAddresses, mPatches, val, at>>

NoProcedure == [id |-> 0, arg_count |-> 0, address |-> 0]

\* expect_token and expect_type at token i, and where they leave off.
Text(i) == stream[i + 1].value
Is(i, text) == Text(i) = <<text>>
IsType(i, type) == stream[i + 1].type = type
Skip(i, found) == IF found THEN i + 1 ELSE i

size == Len(instructions)

\* The map f after f[key] = value.
With(f, key, value) == [k \in DOMAIN f \cup {key} |-> IF k = key THEN value ELSE f[k]]

\* stoi and stoul read the digits a text begins with.
Digits == <<"0", "1", "2", "3", "4", "5", "6", "7", "8", "9">>
Figure(d) == (CHOOSE i \in 1..10 : Digits[i] = d) - 1
Figures(text) == LET n == CHOOSE n \in 0..Len(text) :
                            /\ \A i \in 1..n : text[i] \in ToSet(Digits)
                            /\ n < Len(text) => text[n + 1] \notin ToSet(Digits)
                 IN  SubSeq(text, 1, n)
Number(text) ==
  LET read == Figures(text)
      value[n \in 0..Len(read)] == IF n = 0 THEN 0 ELSE 10 * value[n - 1] + Figure(read[n])
  IN  value[Len(read)]
Numeric(text) == Figures(text) # <<>> /\ Number(text) <= IntMax
Countable(text) == Number(text) <= ULongMax

\* What stoul returns is stored in an unsigned int.
Narrow(n) == n % (UIntMax + 1)

Throw == at' = "crash" /\ UNCHANGED <<stream, mCurrent, instructions, procedures, procedure,
                                      mJumpAddresses, mPatches, val>>

-----------------------------------------------------------------------------
(* resolve and the head of resolve_procedure. *)

Proc ==
  /\ at = "top"
  /\ ~IsType(mCurrent, "EndOfFile")
  /\ Is(mCurrent, "proc")
  /\ at' = "head"
  /\ mCurrent' = mCurrent + 1
  /\ UNCHANGED <<stream, instructions, procedures, procedure, mJumpAddresses, mPatches, val>>

End ==
  /\ at = "top"
  /\ IsType(mCurrent, "EndOfFile")
  /\ at' = "done"
  /\ UNCHANGED <<stream, mCurrent, instructions, procedures, procedure,
                 mJumpAddresses, mPatches, val>>

\* Without a number in parentheses the id serves as the argument count.
CountText == IF Is(mCurrent + 1, "(") /\ IsType(mCurrent + 2, "Int")
             THEN Text(mCurrent + 2) ELSE Text(mCurrent)

ProcHead ==
  /\ at = "head"
  /\ IsType(mCurrent, "Int")
  /\ Countable(Text(mCurrent)) /\ Countable(CountText)
  /\ LET open == Is(mCurrent + 1, "(")
         i    == Skip(mCurrent + 1, open)
         args == open /\ IsType(i, "Int")
         shut == args /\ Is(i + 1, ")")
         j    == Skip(Skip(i, args), shut)
     IN  mCurrent' = Skip(j, Is(j, "{"))
  /\ val' = CountText
  /\ procedure' = [id |-> Narrow(Number(Text(mCurrent))), arg_count |-> Narrow(Number(val')),
                   address |-> size]
  /\ mJumpAddresses' = <<>> /\ mPatches' = <<>>
  /\ at' = "body"
  /\ UNCHANGED <<stream, instructions, procedures>>

ProcHeadThrows ==
  /\ at = "head"
  /\ IsType(mCurrent, "Int") => ~(Countable(Text(mCurrent)) /\ Countable(CountText))
  /\ Throw

-----------------------------------------------------------------------------
(* parse_instruction. *)

InBody == at = "body" /\ ~IsType(mCurrent, "EndOfFile") /\ ~Is(mCurrent, "}")

Label ==
  /\ InBody
  /\ Is(mCurrent, "@")
  /\ LET named == IsType(mCurrent + 1, "Word")
         label == IF named THEN Text(mCurrent + 1) ELSE <<>>
         i     == Skip(mCurrent + 1, named)
     IN  /\ mJumpAddresses' = With(mJumpAddresses, label, size)
         /\ mCurrent' = Skip(i, Is(i, ";"))
  /\ UNCHANGED <<stream, instructions, procedures, procedure, mPatches, val, at>>

Known(i) == /\ IsType(i, "Word")
            /\ Len(Text(i)) = 1
            /\ Text(i)[1] \in Mnemonic

Instruction ==
  /\ InBody
  /\ ~Is(mCurrent, "@")
  /\ Known(mCurrent)
  /\ val' = Text(mCurrent)
  /\ instructions' = Append(instructions, Opcode[val'[1]])
  /\ mCurrent' = mCurrent + 1
  /\ at' = "operands"
  /\ UNCHANGED <<stream, procedures, procedure, mJumpAddresses, mPatches>>

UnknownInstruction ==
  /\ InBody
  /\ ~Is(mCurrent, "@")
  /\ ~Known(mCurrent)
  /\ Throw

InOperands == at = "operands" /\ ~Is(mCurrent, ";")

EndInstruction ==
  /\ at = "operands"
  /\ Is(mCurrent, ";")
  /\ at' = "body"
  /\ mCurrent' = mCurrent + 1
  /\ UNCHANGED <<stream, instructions, procedures, procedure, mJumpAddresses, mPatches, val>>

Slot ==
  /\ InOperands
  /\ Is(mCurrent, "$")
  /\ val' = IF IsType(mCurrent + 1, "Int") THEN Text(mCurrent + 1) ELSE val
  /\ Numeric(val')
  /\ instructions' = Append(instructions, Number(val') % 256)
  /\ mCurrent' = Skip(mCurrent + 1, IsType(mCurrent + 1, "Int"))
  /\ UNCHANGED <<stream, procedures, procedure, mJumpAddresses, mPatches, at>>

SlotThrows ==
  /\ InOperands
  /\ Is(mCurrent, "$")
  /\ ~Numeric(IF IsType(mCurrent + 1, "Int") THEN Text(mCurrent + 1) ELSE val)
  /\ Throw

\* An operand of four bytes.
Operand(bytes) ==
  /\ instructions' = instructions \o bytes
  /\ val' = Text(mCurrent)
  /\ mCurrent' = mCurrent + 1
  /\ UNCHANGED <<stream, procedures, procedure, mJumpAddresses, at>>

\* Mutant: no branch for numbers.
IntOperandMissing == FALSE

IntOperand ==
  /\ InOperands
  /\ IsType(mCurrent, "Int")
  /\ Numeric(Text(mCurrent))
  /\ Operand(Bytes4(Number(Text(mCurrent))))
  /\ UNCHANGED mPatches

IntOperandThrows ==
  /\ InOperands
  /\ IsType(mCurrent, "Int")
  /\ ~Numeric(Text(mCurrent))
  /\ Throw

FloatOperand ==
  /\ InOperands
  /\ IsType(mCurrent, "Float")
  /\ Text(mCurrent) \notin Unfit
  /\ Operand(FloatBytes)
  /\ UNCHANGED mPatches

FloatOperandThrows ==
  /\ InOperands
  /\ IsType(mCurrent, "Float")
  /\ Text(mCurrent) \in Unfit
  /\ Throw

\* Mutant: counted from the operand, as Forward does.
OffsetFromOperand(label) == mJumpAddresses[label] - size

\* Counted from behind the operand, as the interpreter does.
Offset(label) == mJumpAddresses[label] - (size + 4)

Backward ==
  /\ InOperands
  /\ IsType(mCurrent, "Word")
  /\ Text(mCurrent) \in DOMAIN mJumpAddresses
  /\ Operand(Bytes4(Offset(Text(mCurrent))))
  /\ UNCHANGED mPatches

Forward ==
  /\ InOperands
  /\ IsType(mCurrent, "Word")
  /\ Text(mCurrent) \notin DOMAIN mJumpAddresses
  /\ mPatches' = With(mPatches, size, Text(mCurrent))
  /\ Operand(Bytes4(0))

-----------------------------------------------------------------------------
(* The end of resolve_procedure. *)

\* Counted from the operand itself; a label never defined stands at 0.
PatchOffset(p) == (IF mPatches[p] \in DOMAIN mJumpAddresses THEN mJumpAddresses[mPatches[p]] ELSE 0) - p

Patched(i) == IF \E p \in DOMAIN mPatches : i \in (p + 1)..(p + 4)
              THEN LET p == CHOOSE p \in DOMAIN mPatches : i \in (p + 1)..(p + 4)
                   IN  Bytes4(PatchOffset(p))[i - p]
              ELSE instructions[i]

EndProcedure ==
  /\ at = "body"
  /\ IsType(mCurrent, "EndOfFile") \/ Is(mCurrent, "}")
  /\ mCurrent' = Skip(mCurrent, ~IsType(mCurrent, "EndOfFile"))
  /\ instructions' = [i \in 1..size |-> Patched(i)]
  /\ procedures' = Append(procedures, procedure)
  /\ at' = "top"
  /\ UNCHANGED <<stream, procedure, mJumpAddresses, mPatches, val>>

Init ==
  /\ mCurrent = 0 /\ instructions = <<>> /\ procedures = <<>> /\ procedure = NoProcedure
  /\ mJumpAddresses = <<>> /\ mPatches = <<>> /\ val = <<>> /\ at = "top"

Next == \/ Proc \/ ProcHead \/ ProcHeadThrows \/ End
        \/ Label \/ Instruction \/ UnknownInstruction
        \/ EndInstruction \/ Slot \/ SlotThrows \/ IntOperand \/ IntOperandThrows
        \/ FloatOperand \/ FloatOperandThrows \/ Backward \/ Forward
        \/ EndProcedure

-----------------------------------------------------------------------------
TypeOK ==
  /\ mCurrent \in 0..Len(stream)
  /\ \A i \in 1..size : instructions[i] \in 0..255
  /\ \A p \in DOMAIN mPatches : p + 4 <= size
  /\ \A l \in DOMAIN mJumpAddresses : mJumpAddresses[l] \in procedure.address..size
  /\ at \in {"top", "head", "body", "operands", "done", "crash"}
=============================================================================
