--------------------------- MODULE ToolchainProofs ---------------------------
(***************************************************************************)
(* What holds of the assembler and of the runs of what it assembled, for   *)
(* every text; that the run of a program whose code was assembled right is *)
(* what the language's documents say of its source; that the code of a     *)
(* program whose tokens are what was written and whose jumps go back is    *)
(* assembled right; and that they are what was written if the text is laid *)
(* out as the documents lay one out.                                       *)
(***************************************************************************)
EXTENDS Toolchain, Induction

TP == INSTANCE TokenizerProofs WITH mCurrent <- place, mTokens <- tokens
RP == INSTANCE ResolverProofs WITH mCurrent <- next, mJumpAddresses <- labels, mPatches <- patches

-----------------------------------------------------------------------------
(* The instances of the tokenizer and of the resolver are those their      *)
(* proofs speak of.                                                        *)
LEMMA SameTokenizer ==
  /\ T!Next <=> TP!Next
  /\ T!Init <=> TP!Init
  /\ T!NulEndsWords <=> TP!NulEndsWords
  /\ T!TypeOK <=> TP!TypeOK
  /\ T!WholeWords <=> TP!WholeWords
  /\ T!NothingLost <=> TP!NothingLost
  /\ T!Stream = TP!Stream
  /\ \A list : T!Texts(list) = TP!Texts(list)
<1> USE DEF T!mSize, TP!mSize, T!CharAt, TP!CharAt, T!Read, TP!Read
<1>1. T!Next <=> TP!Next
  BY DEF T!Next, TP!Next, T!After, TP!After, T!Past, TP!Past, T!Blank, TP!Blank,
     T!AfterBlanks, TP!AfterBlanks, T!Token, TP!Token, T!Scanning, TP!Scanning,
     T!TokenizeWord, TP!TokenizeWord, T!TokenizeNumber, TP!TokenizeNumber,
     T!TokenizeChar, TP!TokenizeChar, T!TokenizeSymbol, TP!TokenizeSymbol,
     T!BeginComment, TP!BeginComment, T!ReadComment, TP!ReadComment,
     T!BeginString, TP!BeginString, T!ReadString, TP!ReadString,
     T!EndString, TP!EndString, T!EndOfFile, TP!EndOfFile
<1>2. (T!Init <=> TP!Init) /\ (T!NulEndsWords <=> TP!NulEndsWords)
  BY DEF T!Init, TP!Init, T!NulEndsWords, TP!NulEndsWords
<1>3. T!TypeOK <=> TP!TypeOK
  BY DEF T!TypeOK, TP!TypeOK, T!TokenType, TP!TokenType
<1>4. T!WholeWords <=> TP!WholeWords
  BY DEF T!WholeWords, TP!WholeWords
<1>5. T!NothingLost <=> TP!NothingLost
  BY DEF T!NothingLost, TP!NothingLost, T!Places, TP!Places, T!Blank, TP!Blank
<1>6. /\ T!Stream = TP!Stream
      /\ \A list : T!Texts(list) = TP!Texts(list)
  BY DEF T!Stream, TP!Stream, T!Texts, TP!Texts, T!GetValue, TP!GetValue, T!Resolved, TP!Resolved,
         T!Escape, TP!Escape
<1> QED
  BY <1>1, <1>2, <1>3, <1>4, <1>5, <1>6

(* The two instances of the resolver are the same.                         *)
LEMMA SameResolver ==
  /\ R!Next <=> RP!Next
  /\ R!Init <=> RP!Init
  /\ R!TypeOK <=> RP!TypeOK
<1> USE DEF R!size, RP!size, R!Text, RP!Text, R!Is, RP!Is, R!IsType, RP!IsType, R!Skip, RP!Skip,
            R!With, RP!With
<1>1. R!Proc <=> RP!Proc
  BY DEF R!Proc, RP!Proc
<1>2. R!End <=> RP!End
  BY DEF R!End, RP!End
<1>3. R!ProcHead <=> RP!ProcHead
  BY DEF R!ProcHead, RP!ProcHead, R!Digits, RP!Digits, R!Figure, RP!Figure, R!Figures,
         RP!Figures, R!Number, RP!Number, R!ToSet, RP!ToSet, R!CountText, RP!CountText,
         R!Countable, RP!Countable, R!Narrow, RP!Narrow
<1>4. R!ProcHeadThrows <=> RP!ProcHeadThrows
  BY DEF R!ProcHeadThrows, RP!ProcHeadThrows, R!Throw, RP!Throw, R!Digits, RP!Digits,
         R!Figure, RP!Figure, R!Figures, RP!Figures, R!Number, RP!Number, R!ToSet, RP!ToSet,
         R!CountText, RP!CountText, R!Countable, RP!Countable
<1>5. R!Label <=> RP!Label
  BY DEF R!Label, RP!Label, R!InBody, RP!InBody
<1>6. R!Instruction <=> RP!Instruction
  BY DEF R!Instruction, RP!Instruction, R!InBody, RP!InBody, R!Known, RP!Known,
         R!Mnemonic, RP!Mnemonic, R!Opcode, RP!Opcode
<1>7. R!UnknownInstruction <=> RP!UnknownInstruction
  BY DEF R!UnknownInstruction, RP!UnknownInstruction, R!InBody, RP!InBody, R!Known,
         RP!Known, R!Mnemonic, RP!Mnemonic, R!Opcode, RP!Opcode, R!Throw,
         RP!Throw
<1>8. R!EndInstruction <=> RP!EndInstruction
  BY DEF R!EndInstruction, RP!EndInstruction
<1>9. R!Slot <=> RP!Slot
  BY DEF R!Slot, RP!Slot, R!InOperands, RP!InOperands, R!Numeric, RP!Numeric, R!Digits,
         RP!Digits, R!Figure, RP!Figure, R!Figures, RP!Figures, R!Number,
         RP!Number, R!ToSet, RP!ToSet
<1>10. R!SlotThrows <=> RP!SlotThrows
  BY DEF R!SlotThrows, RP!SlotThrows, R!InOperands, RP!InOperands, R!Numeric, RP!Numeric,
         R!Throw, RP!Throw, R!Digits, RP!Digits, R!Figure, RP!Figure, R!Figures,
         RP!Figures, R!Number, RP!Number, R!ToSet, RP!ToSet
<1>11. R!IntOperand <=> RP!IntOperand
  BY DEF R!IntOperand, RP!IntOperand, R!InOperands, RP!InOperands, R!Numeric, RP!Numeric,
         R!Operand, RP!Operand, R!Bytes4, RP!Bytes4, R!Digits, RP!Digits,
         R!Figure, RP!Figure, R!Figures, RP!Figures, R!Number, RP!Number,
         R!ToSet, RP!ToSet
<1>12. R!IntOperandThrows <=> RP!IntOperandThrows
  BY DEF R!IntOperandThrows, RP!IntOperandThrows, R!InOperands, RP!InOperands, R!Numeric,
         RP!Numeric, R!Throw, RP!Throw, R!Digits, RP!Digits, R!Figure,
         RP!Figure, R!Figures, RP!Figures, R!Number, RP!Number, R!ToSet,
         RP!ToSet
<1>13. (R!FloatOperand <=> RP!FloatOperand) /\ (R!FloatOperandThrows <=> RP!FloatOperandThrows)
  BY DEF R!FloatOperand, RP!FloatOperand, R!InOperands, RP!InOperands, R!Operand,
         RP!Operand, R!FloatOperandThrows, RP!FloatOperandThrows, R!Throw, RP!Throw
<1>14. R!Backward <=> RP!Backward
  BY DEF R!Backward, RP!Backward, R!InOperands, RP!InOperands, R!Operand, RP!Operand,
         R!Offset, RP!Offset, R!Bytes4, RP!Bytes4
<1>15. R!Forward <=> RP!Forward
  BY DEF R!Forward, RP!Forward, R!InOperands, RP!InOperands, R!Operand, RP!Operand,
         R!Bytes4, RP!Bytes4
<1>16. R!EndProcedure <=> RP!EndProcedure
  BY DEF R!EndProcedure, RP!EndProcedure, R!Patched, RP!Patched, R!PatchOffset,
         RP!PatchOffset, R!Bytes4, RP!Bytes4
<1>17. R!Next <=> RP!Next
  BY <1>1, <1>2, <1>3, <1>4, <1>5, <1>6, <1>7, <1>8, <1>9, <1>10, <1>11, <1>12,
     <1>13, <1>14, <1>15, <1>16
     DEF R!Next, RP!Next
<1>18. (R!Init <=> RP!Init) /\ (R!TypeOK <=> RP!TypeOK)
  BY DEF R!Init, RP!Init, R!NoProcedure, RP!NoProcedure, R!TypeOK, RP!TypeOK
<1> QED
  BY <1>17, <1>18

-----------------------------------------------------------------------------
(* The invariant: the passes follow one another, a file that was written   *)
(* holds a beginning of the image, one that could not be opened is an      *)
(* older file, and an image that was loaded is whole.                      *)

(* No pass has begun before the one ahead of it is done.                   *)
Passes ==
  /\ TP!Inv
  /\ mode # "done" => R!Init /\ stage = "none"
  /\ mode = "done" => RP!Inv
  /\ stage # "none" => at = "done"

HeadOnly == file \in {[I!NoFile EXCEPT !.head = head] : head \in {"none", "cut", "stub"}}
Prefix == \E n \in 0..Len(procedures), m \in 0..Len(instructions) : file = I!Written(n, m)

(* The image is all that the file f holds.                                 *)
AllOf(f) == /\ f.head = "ok" /\ Len(f.table) = f.procedure_count /\ Len(f.pool) = f.instruction_count
            /\ image = [table |-> f.table, pool |-> f.pool]

Filed ==
  /\ stage \in {"none", "written", "kept", "loaded", "stale", "refused", "fault"}
  /\ \/ HeadOnly
     \/ Prefix /\ ~I!TooLarge /\ stage # "none"
     \/ file \in Earlier /\ stage \notin {"none", "written"}
  /\ stage = "kept" => file \in Earlier
  /\ stage \notin {"loaded", "stale"} => image = I!Empty
  /\ stage = "loaded" => ~I!TooLarge /\ image = [table |-> I!Table, pool |-> instructions]
  /\ stage = "stale" => \E f \in Earlier : AllOf(f)

Entry == [address : Nat, arg_count : Nat]

Running ==
  /\ ip \in Nat
  /\ frames \in Seq(Nat) /\ Len(frames) <= MaxCalls
  /\ status \in {"ready", "running"} \cup X!Ended

Inv == Passes /\ Filed /\ Running

(* What the resolver has made is code and procedures, in every pass.       *)
LEMMA Made ==
  ASSUME Passes
  PROVE  instructions \in Seq(0..255) /\ procedures \in Seq([id : Nat, arg_count : Nat, address : Nat])
<1>1. CASE mode = "done"
  BY <1>1 DEF Passes, RP!Inv, RP!Code, RP!Byte, RP!Procedure
<1>2. CASE mode # "done"
  <2>1. instructions = <<>> /\ procedures = <<>>
    BY <1>2 DEF Passes, R!Init
  <2> QED
    BY <2>1
<1> QED
  BY <1>1, <1>2

(* The table has an entry for every procedure, and what it holds of a      *)
(* procedure is that procedure's, if no other has its id.                  *)
LEMMA TableIs ==
  ASSUME Passes
  PROVE  /\ I!Table \in Seq(Entry) /\ Len(I!Table) = Len(procedures) /\ Len(procedures) \in Nat
         /\ \A i \in 1..Len(procedures) :
              /\ procedures[i].id \in Nat
              /\ ~I!TooLarge => procedures[i].id + 1 \in 1..Len(procedures)
              /\ ~I!TooLarge /\ (\A j \in 1..Len(procedures) : procedures[j].id = procedures[i].id => j = i)
                   => I!Table[procedures[i].id + 1] = [address |-> procedures[i].address,
                                                      arg_count |-> procedures[i].arg_count]
<1> DEFINE N == Len(procedures)
           Procedure == [id : Nat, arg_count : Nat, address : Nat]
           own(e) == {i \in 1..N : procedures[i].id = e - 1}
           last(e) == CHOOSE i \in own(e) : \A j \in own(e) : j <= i
           entry(e) == IF own(e) = {} THEN I!NoEntry
                       ELSE [address |-> procedures[last(e)].address,
                             arg_count |-> procedures[last(e)].arg_count]
<1>1. N \in Nat /\ \A i \in 1..N : procedures[i] \in Procedure
  <2>1. procedures \in Seq(Procedure)
    BY Made
  <2> HIDE DEF Procedure
  <2> QED
    BY <2>1
<1>2. ASSUME NEW i \in 1..N
      PROVE  procedures[i].id \in Nat /\ procedures[i].address \in Nat /\ procedures[i].arg_count \in Nat
  BY <1>1
<1>3. I!Table = [e \in 1..N |-> entry(e)]
  BY DEF I!Table
<1>4. ASSUME NEW e \in 1..N, own(e) # {}
      PROVE  last(e) \in own(e)
  <2> DEFINE Left == {N - i : i \in own(e)}
  <2>1. Left \subseteq Nat /\ Left # {}
    BY <1>1, <1>4
  <2>2. PICK x \in Left : \A y \in Left : x <= y
    <3> HIDE DEF Left
    <3> QED
      BY <2>1, LeastElement
  <2>3. PICK i \in own(e) : x = N - i
    BY <2>2
  <2>4. ASSUME NEW j \in own(e)
        PROVE  j <= i
    <3>1. N - j \in Left
      OBVIOUS
    <3>2. x <= N - j
      <4> HIDE DEF Left, own
      <4> QED
        BY <2>2, <3>1
    <3>3. i \in Nat /\ j \in Nat
      OBVIOUS
    <3> QED
      BY <1>1, <2>3, <3>2, <3>3
  <2> HIDE DEF own
  <2> QED
    BY <2>4
<1>5. ASSUME NEW e \in 1..N
      PROVE  entry(e) \in Entry
  <2>1. CASE own(e) = {}
    BY <2>1 DEF I!NoEntry, Entry
  <2>2. CASE own(e) # {}
    <3>1. last(e) \in 1..N
      BY <1>4, <2>2
    <3> HIDE DEF own, last
    <3> QED
      BY <1>2, <2>2, <3>1 DEF Entry
  <2> QED
    BY <2>1, <2>2
<1>6. I!Table \in Seq(Entry) /\ Len(I!Table) = N
  <2> HIDE DEF entry
  <2> QED
    BY <1>1, <1>3, <1>5
<1>7. ASSUME NEW i \in 1..N, ~I!TooLarge
      PROVE  procedures[i].id + 1 \in 1..N
  <2>1. ~(procedures[i].id >= N)
    BY <1>7 DEF I!TooLarge
  <2> QED
    BY <1>1, <1>2, <2>1
<1>8. ASSUME NEW i \in 1..N, ~I!TooLarge, \A j \in 1..N : procedures[j].id = procedures[i].id => j = i
      PROVE  I!Table[procedures[i].id + 1] = [address |-> procedures[i].address,
                                              arg_count |-> procedures[i].arg_count]
  <2> DEFINE e == procedures[i].id + 1
  <2>1. e \in 1..N /\ e - 1 = procedures[i].id
    BY <1>2, <1>7, <1>8
  <2> HIDE DEF e
  <2>2. own(e) = {i}
    BY <1>8, <2>1
  <2>3. last(e) = i
    BY <1>4, <2>1, <2>2
  <2>4. I!Table[e] = entry(e)
    <3> HIDE DEF entry
    <3> QED
      BY <1>3, <2>1
  <2>5. entry(e) = [address |-> procedures[i].address, arg_count |-> procedures[i].arg_count]
    BY <2>2, <2>3
  <2> QED
    BY <2>4, <2>5 DEF e
<1> QED
  BY <1>1, <1>2, <1>6, <1>7, <1>8

-----------------------------------------------------------------------------
(* What the image is made from stays, and with it the image.               *)
LEMMA ImageStays ==
  ASSUME UNCHANGED <<procedures, instructions>>
  PROVE  /\ I!TooLarge' <=> I!TooLarge
         /\ I!Table' = I!Table
         /\ \A n, m : I!Written(n, m)' = I!Written(n, m)
<1>1. procedures' = procedures /\ instructions' = instructions
  OBVIOUS
<1>2. I!TooLarge' <=> I!TooLarge
  BY <1>1 DEF I!TooLarge
<1>3. I!Table' = I!Table
  BY <1>1 DEF I!Table, I!NoEntry
<1>4. \A n, m : I!Written(n, m)' = I!Written(n, m)
  BY <1>1, <1>3 DEF I!Written
<1> QED
  BY <1>2, <1>3, <1>4

(* A pass in front of the file leaves what is known of the file.           *)
LEMMA FiledStays ==
  ASSUME Filed, UNCHANGED <<procedures, instructions, file, image, stage>>
  PROVE  Filed'
<1>1. /\ procedures' = procedures /\ instructions' = instructions
      /\ file' = file /\ image' = image /\ stage' = stage
  OBVIOUS
<1>2. HeadOnly' <=> HeadOnly
  BY <1>1 DEF HeadOnly, I!NoFile
<1>3. Prefix' <=> Prefix
  BY <1>1, ImageStays DEF Prefix
<1>4. (I!TooLarge' <=> I!TooLarge) /\ I!Table' = I!Table
  BY <1>1, ImageStays
<1>5. I!Empty' = I!Empty /\ \A f : AllOf(f)' <=> AllOf(f)
  BY <1>1 DEF I!Empty, AllOf
<1> QED
  BY <1>1, <1>2, <1>3, <1>4, <1>5 DEF Filed

(* A resolver that is given a stream begins in order.                      *)
LEMMA ResolverStarts == RP!StreamOK /\ RP!Init => RP!Inv
  BY RP!Starts

(* The tokenizer's steps, and the last of them, which hands over a stream. *)
LEMMA TokenizeKeepsInv == ASSUME Inv, Tokenize PROVE Inv'
<1>1. /\ TP!Next /\ TP!NulEndsWords
      /\ stream' = IF mode' = "done" THEN (TP!Stream)' ELSE <<>>
  <2>1. T!Next /\ T!NulEndsWords
    BY ToolchainAssumption DEF Tokenize, T!NulEndsWords
  <2>2. (T!Stream)' = (TP!Stream)'
    BY DEF T!Stream, TP!Stream, T!Texts, TP!Texts, T!GetValue, TP!GetValue, T!Resolved,
           TP!Resolved, T!Escape, TP!Escape, T!mSize, TP!mSize
  <2> QED
    BY <2>1, <2>2, SameTokenizer DEF Tokenize
<1>2. UNCHANGED <<prog, next, instructions, procedures, procedure, labels, patches, val, at,
                  file, image, stage, ip, frames, status>>
  BY DEF Tokenize, resolved, stored, executed
<1>3. TP!Inv'
  BY <1>1, TP!KeepsInv DEF Inv, Passes
<1>4. mode # "done" /\ R!Init /\ stage = "none"
  BY <1>1, TP!DoneStays DEF Inv, Passes
<1>5. R!Init'
  BY <1>2, <1>4 DEF R!Init, R!NoProcedure
<1>6. ASSUME mode' = "done"
      PROVE  RP!Inv'
  <2>1. RP!StreamOK'
    <3>1. stream' = (TP!Stream)'
      BY <1>1, <1>6
    <3> QED
      BY <1>1, <1>6, <3>1, TP!StreamIs DEF RP!StreamOK, Inv, Passes
  <2>2. RP!Init'
    BY <1>5 DEF R!Init, RP!Init, R!NoProcedure, RP!NoProcedure
  <2> QED
    BY <2>1, <2>2, ResolverStarts, PTL
<1>7. Passes'
  BY <1>2, <1>3, <1>4, <1>5, <1>6 DEF Passes
<1>8. Filed'
  BY <1>2, FiledStays DEF Inv
<1>9. Running'
  BY <1>2 DEF Inv, Running
<1> QED
  BY <1>7, <1>8, <1>9 DEF Inv

(* The resolver's steps, all of them before an image is made.              *)
LEMMA ResolveNotDone == ASSUME R!Next PROVE at # "done"
<1>1. CASE R!Proc \/ R!End
  BY <1>1 DEF R!Proc, R!End
<1>2. CASE R!ProcHead \/ R!ProcHeadThrows
  BY <1>2 DEF R!ProcHead, R!ProcHeadThrows
<1>3. CASE R!Label \/ R!Instruction \/ R!UnknownInstruction
  BY <1>3 DEF R!Label, R!Instruction, R!UnknownInstruction, R!InBody
<1>4. CASE R!EndInstruction \/ R!EndProcedure
  BY <1>4 DEF R!EndInstruction, R!EndProcedure
<1>5. CASE R!Slot \/ R!SlotThrows \/ R!IntOperand \/ R!IntOperandThrows
           \/ R!FloatOperand \/ R!FloatOperandThrows \/ R!Backward \/ R!Forward
  BY <1>5 DEF R!Slot, R!SlotThrows, R!IntOperand, R!IntOperandThrows, R!FloatOperand,
              R!FloatOperandThrows, R!Backward, R!Forward, R!InOperands
<1> QED
  BY <1>1, <1>2, <1>3, <1>4, <1>5 DEF R!Next

(* Before the code generator there is no image.                            *)
LEMMA FileBefore ==
  ASSUME Inv, stage = "none"
  PROVE  HeadOnly /\ image = I!Empty
  BY DEF Inv, Filed

(* The resolver runs on a stream that no longer changes.                   *)
LEMMA ResolveKeepsInv == ASSUME Inv, Resolve PROVE Inv'
<1>1. mode = "done" /\ R!Next /\ RP!Next
  BY SameResolver DEF Resolve
<1>2. UNCHANGED <<prog, src, place, tokens, mode, start, c, file, image, stage, ip, frames, status>>
  BY DEF Resolve, scanned, stored, executed
<1>3. RP!Inv'
  <2>1. FloatBytes \in Seq(RP!Byte) /\ UIntMax \in Nat
    BY ToolchainAssumption DEF RP!Byte
  <2> QED
    BY <1>1, <2>1, RP!KeepsInv DEF Inv, Passes
<1>4. TP!Inv'
  <2>1. UNCHANGED TP!vars
    BY <1>2 DEF TP!vars
  <2> QED
    BY <2>1, TP!StutterKeepsInv DEF Inv, Passes
<1>5. stage = "none"
  BY <1>1, ResolveNotDone DEF Inv, Passes
<1>6. Passes'
  BY <1>1, <1>2, <1>3, <1>4, <1>5 DEF Passes
<1>7. Filed'
  <2>1. HeadOnly' /\ image' = I!Empty' /\ stage' = "none"
    BY <1>2, <1>5, FileBefore DEF HeadOnly, I!NoFile, I!Empty
  <2> QED
    BY <2>1 DEF Filed
<1>8. Running'
  BY <1>2 DEF Inv, Running
<1> QED
  BY <1>6, <1>7, <1>8 DEF Inv

(* Nothing the image is made from changes once the resolver is done.       *)
LEMMA PassesStay ==
  ASSUME Passes, at = "done", mode = "done",
         UNCHANGED <<src, place, tokens, mode, start, c, stream, next, instructions, procedures,
                     procedure, labels, patches, val, at>>
  PROVE  Passes'
<1>1. /\ src' = src /\ place' = place /\ tokens' = tokens /\ mode' = mode /\ start' = start /\ c' = c
      /\ stream' = stream /\ next' = next /\ instructions' = instructions
      /\ procedures' = procedures /\ procedure' = procedure /\ labels' = labels
      /\ patches' = patches /\ val' = val /\ at' = at
  OBVIOUS
<1>2. TP!Inv'
  <2>1. UNCHANGED TP!vars
    BY <1>1 DEF TP!vars
  <2> QED
    BY <2>1, TP!StutterKeepsInv DEF Passes
<1>3. RP!Inv'
  BY <1>1 DEF Passes, RP!Inv, RP!StreamOK, RP!Code, RP!Pending, RP!Reading, RP!size, RP!Byte, RP!Procedure
<1> QED
  BY <1>1, <1>2, <1>3 DEF Passes

(* The resolver ends only when the tokenizer has.                          *)
LEMMA AtDone == ASSUME Passes, at = "done" PROVE mode = "done"
  BY DEF Passes, R!Init

(* The code generator writes the image, whole or cut short.                *)
LEMMA GenerateKeepsInv == ASSUME Inv, Generate PROVE Inv'
<1>1. at = "done" /\ mode = "done"
  BY AtDone DEF Generate, Inv
<1>2. UNCHANGED <<prog, src, place, tokens, mode, start, c, stream, next, procedure, labels,
                  patches, val, at, ip, frames, status>>
  BY DEF Generate, scanned, executed
<1>3. /\ stage = "none" /\ stage' \in {"written", "kept", "fault"}
      /\ UNCHANGED <<procedures, instructions, image>>
  BY DEF Generate, I!Overflow, I!Write, I!WriteFails, I!OpenFails
<1>4. Passes'
  BY <1>1, <1>2, <1>3, PassesStay DEF Inv
<1>5. HeadOnly /\ image = I!Empty
  BY <1>3, FileBefore
<1>6. Len(procedures) \in Nat /\ Len(instructions) \in Nat
  BY Made DEF Inv
<1>7. /\ \/ HeadOnly' \/ (Prefix' /\ ~I!TooLarge' /\ stage' # "none")
         \/ file' \in Earlier /\ stage' \notin {"none", "written"}
      /\ stage' = "kept" => file' \in Earlier
  <2>0. /\ I!TooLarge' <=> I!TooLarge
        /\ \A n, m : I!Written(n, m)' = I!Written(n, m)
        /\ procedures' = procedures /\ instructions' = instructions
    BY <1>3, ImageStays
  <2>1. CASE I!Overflow
    BY <1>5, <2>1 DEF I!Overflow, HeadOnly, I!NoFile
  <2>4. CASE I!OpenFails
    BY <2>4 DEF I!OpenFails
  <2>2. CASE I!Write
    <3>1. /\ Len(procedures) \in 0..Len(procedures) /\ Len(instructions) \in 0..Len(instructions)
          /\ file' = I!Written(Len(procedures), Len(instructions)) /\ ~I!TooLarge
      BY <1>6, <2>2 DEF I!Write
    <3>2. \E n \in 0..Len(procedures), m \in 0..Len(instructions) : file' = I!Written(n, m)
      BY <3>1
    <3> QED
      BY <1>3, <2>0, <2>2, <3>1, <3>2 DEF Prefix, I!Write
  <2>3. CASE I!WriteFails
    <3>1. ~I!TooLarge /\ stage' = "written"
      BY <2>3 DEF I!WriteFails
    <3>2. CASE \E head \in {"cut", "stub"} : file' = [I!NoFile EXCEPT !.head = head]
      BY <3>1, <3>2 DEF HeadOnly, I!NoFile
    <3>3. CASE \E n \in 0..(Len(procedures) - 1) : file' = I!Written(n, 0)
      <4>1. PICK n \in 0..(Len(procedures) - 1) : file' = I!Written(n, 0)
        BY <3>3
      <4>2. n \in 0..Len(procedures) /\ 0 \in 0..Len(instructions)
        BY <1>6
      <4>3. \E k \in 0..Len(procedures), m \in 0..Len(instructions) : file' = I!Written(k, m)
        BY <4>1, <4>2
      <4> QED
        BY <1>3, <2>0, <3>1, <4>3 DEF Prefix
    <3>4. CASE \E m \in 0..(Len(instructions) - 1) : file' = I!Written(Len(procedures), m)
      <4>1. PICK m \in 0..(Len(instructions) - 1) : file' = I!Written(Len(procedures), m)
        BY <3>4
      <4>2. Len(procedures) \in 0..Len(procedures) /\ m \in 0..Len(instructions)
        BY <1>6
      <4>3. \E k \in 0..Len(procedures), l \in 0..Len(instructions) : file' = I!Written(k, l)
        BY <4>1, <4>2
      <4> QED
        BY <1>3, <2>0, <3>1, <4>3 DEF Prefix
    <3> QED
      BY <2>3, <3>2, <3>3, <3>4 DEF I!WriteFails
  <2> QED
    BY <2>1, <2>2, <2>3, <2>4 DEF Generate
<1>8. Filed'
  BY <1>3, <1>5, <1>7 DEF Filed, I!Empty
<1>9. Running'
  BY <1>2 DEF Inv, Running
<1> QED
  BY <1>4, <1>8, <1>9 DEF Inv

(* A file whose table and pool are as long as its header says is the image *)
(* that was to be written.                                                 *)
LEMMA WholeFile ==
  ASSUME Passes, NEW n \in 0..Len(procedures), NEW m \in 0..Len(instructions),
         file = I!Written(n, m), ~I!ShortTable, ~I!ShortPool
  PROVE  file.table = I!Table /\ file.pool = instructions
<1>1. I!Table \in Seq(Entry) /\ Len(I!Table) = Len(procedures) /\ Len(procedures) \in Nat
  BY TableIs
<1>2. instructions \in Seq(0..255) /\ Len(instructions) \in Nat
  BY Made
<1>3. /\ file.table = SubSeq(I!Table, 1, n) /\ file.pool = SubSeq(instructions, 1, m)
      /\ file.procedure_count = Len(procedures) /\ file.instruction_count = Len(instructions)
  BY DEF I!Written
<1>4. Len(SubSeq(I!Table, 1, n)) = n /\ Len(SubSeq(instructions, 1, m)) = m
  BY <1>1, <1>2
<1>5. n = Len(I!Table) /\ m = Len(instructions)
  <2>1. ~(n < Len(procedures)) /\ ~(m < Len(instructions))
    BY <1>3, <1>4 DEF I!ShortTable, I!ShortPool
  <2> QED
    BY <1>1, <1>2, <2>1
<1>6. SubSeq(I!Table, 1, Len(I!Table)) = I!Table
  BY <1>1
<1>7. SubSeq(instructions, 1, Len(instructions)) = instructions
  BY <1>2
<1> QED
  BY <1>3, <1>5, <1>6, <1>7

(* The loader takes a whole image, of this text or an older one, or none.  *)
LEMMA LoadKeepsInv == ASSUME Inv, Load PROVE Inv'
<1>1. UNCHANGED <<prog, src, place, tokens, mode, start, c, stream, next, procedure, labels,
                  patches, val, at, ip, frames, status>>
  BY DEF Load, scanned, executed
<1>2. /\ stage \in {"written", "kept"} /\ stage' \in {"loaded", "stale", "refused", "fault"}
      /\ UNCHANGED <<procedures, instructions, file>>
  BY DEF Load, I!Load, I!LoadFails, I!LoadCrashes, I!InFile
<1>3. at = "done" /\ mode = "done"
  BY <1>2, AtDone DEF Inv, Passes
<1>4. Passes'
  BY <1>1, <1>2, <1>3, PassesStay DEF Inv
<1>5. (I!TooLarge' <=> I!TooLarge) /\ I!Table' = I!Table /\ I!Empty' = I!Empty
  BY <1>2, ImageStays DEF I!Empty
<1>6. (HeadOnly' <=> HeadOnly) /\ (Prefix' <=> Prefix)
  <2>1. \A n, m : I!Written(n, m)' = I!Written(n, m)
    BY <1>2, ImageStays
  <2> QED
    BY <1>2, <2>1 DEF HeadOnly, Prefix, I!NoFile
<1>7. stage' \notin {"loaded", "stale"} => image' = I!Empty
  BY <1>2 DEF Load, I!Load, I!LoadFails, I!LoadCrashes, Inv, Filed
<1>8. ASSUME stage' = "loaded"
      PROVE  ~I!TooLarge /\ image' = [table |-> I!Table, pool |-> instructions]
  <2>1. I!Load /\ stage = "written"
    BY <1>2, <1>8 DEF Load, I!Load, I!LoadFails, I!LoadCrashes
  <2>2. ~HeadOnly
    BY <2>1 DEF I!Load, HeadOnly, I!NoFile
  <2>3. Prefix /\ ~I!TooLarge
    BY <2>1, <2>2 DEF Inv, Filed
  <2>4. file.table = I!Table /\ file.pool = instructions
    BY <2>1, <2>3, WholeFile DEF Prefix, I!Load, Inv
  <2> QED
    BY <2>1, <2>3, <2>4 DEF I!Load
<1>9. ASSUME stage' = "stale"
      PROVE  \E f \in Earlier : AllOf(f)'
  <2>1. I!Load /\ stage = "kept"
    BY <1>2, <1>9 DEF Load, I!Load, I!LoadFails, I!LoadCrashes
  <2>2. file \in Earlier
    BY <2>1 DEF Inv, Filed
  <2>3. IsFile(file)
    BY <2>2, ToolchainAssumption
  <2>4. Len(file.table) = file.procedure_count /\ Len(file.pool) = file.instruction_count
    <3>1. /\ Len(file.table) \in Nat /\ file.procedure_count \in Nat
          /\ Len(file.pool) \in Nat /\ file.instruction_count \in Nat
      BY <2>3 DEF IsFile
    <3> QED
      BY <2>1, <2>3, <3>1 DEF IsFile, I!Load, I!ShortTable, I!ShortPool
  <2> QED
    BY <2>1, <2>2, <2>4 DEF I!Load, AllOf
<1>10. Filed'
  <2>1. stage' \notin {"none", "written", "kept"}
    BY <1>2
  <2> QED
    BY <1>2, <1>5, <1>6, <1>7, <1>8, <1>9, <2>1 DEF Inv, Filed
<1>11. Running'
  BY <1>1 DEF Inv, Running
<1> QED
  BY <1>4, <1>10, <1>11 DEF Inv

-----------------------------------------------------------------------------
(* The interpreter.                                                        *)

(* The operands of an opcode take a number of bytes.                       *)
LEMMA OperandBytesIsNat == \A w : X!OperandBytes(w) \in Nat
  BY DEF X!OperandBytes

(* A stack of return addresses without its last one.                       *)
LEMMA FrontIs ==
  ASSUME NEW s \in Seq(Nat), s # <<>>
  PROVE  /\ SubSeq(s, 1, Len(s) - 1) \in Seq(Nat)
         /\ Len(SubSeq(s, 1, Len(s) - 1)) = Len(s) - 1
<1>1. Len(s) \in Nat /\ Len(s) # 0
  OBVIOUS
<1>2. PICK k \in Nat : k = Len(s) - 1 /\ k <= Len(s)
  <2>1. \A n \in Nat : n # 0 => n - 1 \in Nat /\ n - 1 <= n
    OBVIOUS
  <2> QED
    BY <1>1, <2>1
<1>3. SubSeq(s, 1, k) \in Seq(Nat) /\ Len(SubSeq(s, 1, k)) = k
  BY <1>2
<1> QED
  BY <1>2, <1>3

(* A step of a run keeps the pointer and the return addresses numbers, and *)
(* opens no more frames than there is room for.                            *)
LEMMA RunKeepsTypes ==
  ASSUME Running, image.table \in Seq(Entry), X!Next
  PROVE  Running' /\ image' = image
<1> USE DEF Running
<1>1. MaxCalls \in Nat \ {0}
  BY ToolchainAssumption
<1>2. X!Behind \in Nat
  BY OperandBytesIsNat DEF X!Behind
<1>3. ASSUME NEW how, how \subseteq X!Ended, X!EndAs(how)
      PROVE  Running' /\ image' = image
  BY <1>3 DEF X!EndAs, X!Ended
<1>4. ASSUME NEW a \in Nat, X!Goto(a)
      PROVE  Running' /\ image' = image
  BY <1>4 DEF X!Goto, X!Ended
<1>5. CASE X!Enter
  <2>1. /\ ip' = image.table[1].address /\ frames' = <<X!Junk>> /\ status' = "running"
        /\ image' = image /\ Len(image.table) > 0
    BY <1>5 DEF X!Enter
  <2>2. image.table[1] \in Entry
    BY <2>1
  <2>3. ip' \in Nat
    BY <2>1, <2>2 DEF Entry
  <2>4. frames' \in Seq(Nat) /\ Len(frames') = 1
    BY <2>1 DEF X!Junk
  <2> QED
    BY <1>1, <2>1, <2>3, <2>4
<1>6. CASE \/ X!EnterFails \/ X!Overrun \/ X!NullFrame \/ X!Illegal \/ X!CastFails
           \/ X!TypeError \/ X!Trap \/ X!FallThrough \/ X!IllegalJump \/ X!Halt
           \/ \E id \in 0..MaxId : X!CallFails(id)
  <2>1. \E how : how \subseteq X!Ended /\ X!EndAs(how)
    <3>1. CASE X!EnterFails
      BY <3>1 DEF X!EnterFails, X!Ended
    <3>2. CASE X!Overrun \/ X!NullFrame
      BY <3>2 DEF X!Overrun, X!NullFrame, X!Ended
    <3>3. CASE X!Illegal \/ X!CastFails \/ X!TypeError \/ X!IllegalJump
      BY <3>3 DEF X!Illegal, X!CastFails, X!TypeError, X!IllegalJump, X!Ended
    <3>4. CASE X!Trap
      BY <3>4 DEF X!Trap, X!Ended
    <3>5. CASE X!FallThrough
      BY <3>5 DEF X!FallThrough, X!Ended
    <3>6. CASE X!Halt
      BY <3>6 DEF X!Halt, X!Ended
    <3>7. CASE \E id \in 0..MaxId : X!CallFails(id)
      BY <3>7 DEF X!CallFails, X!Ended
    <3> QED
      BY <1>6, <3>1, <3>2, <3>3, <3>4, <3>5, <3>6, <3>7
  <2> QED
    BY <1>3, <2>1
<1>7. CASE X!Step \/ X!NotTaken
  <2>1. X!Goto(X!Behind)
    BY <1>7 DEF X!Step, X!NotTaken
  <2> QED
    BY <1>2, <1>4, <2>1
<1>8. CASE X!Taken
  <2>1. X!Goto(X!Target) /\ X!Target \in 0..(X!Count - 1)
    BY <1>8 DEF X!Taken
  <2>2. X!Target \in Nat
    BY <2>1
  <2> QED
    BY <1>4, <2>1, <2>2
<1>9. ASSUME NEW id \in 0..MaxId, X!Call(id)
      PROVE  Running' /\ image' = image
  <2>1. /\ frames' = Append(frames, X!Behind) /\ ip' = image.table[id + 1].address
        /\ image' = image /\ status' = status
        /\ Len(frames) < MaxCalls /\ id < Len(image.table)
    BY <1>9 DEF X!Call, X!Callable
  <2>2. id \in Nat
    OBVIOUS
  <2>3. image.table[id + 1] \in Entry
    BY <2>1, <2>2
  <2>4. ip' \in Nat
    BY <2>1, <2>3 DEF Entry
  <2>5. frames' \in Seq(Nat) /\ Len(frames') <= MaxCalls
    BY <1>1, <1>2, <2>1
  <2> QED
    BY <2>1, <2>4, <2>5
<1>10. CASE X!Return
  <2>1. /\ ip' = IF Len(frames) > 1 THEN X!Last(frames) ELSE X!Behind
        /\ frames' = IF X!HasFrame THEN X!Front(frames) ELSE frames
        /\ image' = image /\ status' = status
    BY <1>10 DEF X!Return
  <2>2. ip' \in Nat
    BY <1>2, <2>1 DEF X!Last
  <2>3. frames' \in Seq(Nat) /\ Len(frames') <= MaxCalls
    <3>1. CASE frames # <<>>
      <4>1. frames' = SubSeq(frames, 1, Len(frames) - 1)
        BY <2>1, <3>1 DEF X!HasFrame, X!Front
      <4>2. Len(frames) \in Nat /\ Len(frames) # 0
        BY <3>1
      <4>3. /\ SubSeq(frames, 1, Len(frames) - 1) \in Seq(Nat)
            /\ Len(SubSeq(frames, 1, Len(frames) - 1)) = Len(frames) - 1
        BY <3>1, FrontIs
      <4> QED
        BY <1>1, <4>1, <4>2, <4>3
    <3>2. CASE frames = <<>>
      BY <2>1, <3>2 DEF X!HasFrame
    <3> QED
      BY <3>1, <3>2
  <2> QED
    BY <2>1, <2>2, <2>3
<1> QED
  BY <1>5, <1>6, <1>7, <1>8, <1>9, <1>10 DEF X!Next

(* The interpreter leaves the image alone and its registers well typed.    *)
LEMMA ExecuteKeepsInv == ASSUME Inv, Execute PROVE Inv'
<1>1. stage \in {"loaded", "stale"} /\ X!Next
  BY DEF Execute
<1>2. UNCHANGED <<prog, src, place, tokens, mode, start, c, stream, next, instructions, procedures,
                  procedure, labels, patches, val, at, file, stage>>
  BY DEF Execute, scanned, resolved
<1>3. at = "done" /\ mode = "done"
  BY <1>1, AtDone DEF Inv, Passes
<1>4. Passes'
  BY <1>2, <1>3, PassesStay DEF Inv
<1>5. image.table \in Seq(Entry)
  <2>1. CASE stage = "loaded"
    BY <2>1, TableIs DEF Inv, Filed
  <2>2. CASE stage = "stale"
    <3>1. PICK f \in Earlier : AllOf(f)
      BY <2>2 DEF Inv, Filed
    <3>2. f.table \in Seq(Entry)
      BY ToolchainAssumption DEF IsFile, Entry
    <3> QED
      BY <3>1, <3>2 DEF AllOf
  <2> QED
    BY <1>1, <2>1, <2>2
<1>6. Running' /\ image' = image
  BY <1>1, <1>5, RunKeepsTypes DEF Inv
<1>7. Filed'
  BY <1>2, <1>6, FiledStays DEF Inv
<1> QED
  BY <1>4, <1>6, <1>7 DEF Inv

-----------------------------------------------------------------------------
(* The invariant holds at first.                                           *)
LEMMA InvInit == Init => Inv
<1> SUFFICES ASSUME Init
             PROVE  Inv
  OBVIOUS
<1>1. TP!Inv
  <2>1. src \in Seq(STRING)
    BY ToolchainAssumption DEF Init
  <2>2. TP!Init
    BY SameTokenizer DEF Init
  <2> QED
    BY <2>1, <2>2, TP!Starts
<1>2. mode # "done" /\ R!Init /\ stage = "none" /\ file = I!NoFile /\ image = I!Empty
  BY DEF Init, T!Init, I!Init
<1>3. Passes
  BY <1>1, <1>2 DEF Passes
<1>4. HeadOnly
  BY <1>2 DEF HeadOnly, I!NoFile
<1>5. Filed
  BY <1>2, <1>4 DEF Filed
<1>6. Running
  <2>1. ip = 0 /\ frames = <<>> /\ status = "ready"
    BY DEF Init, X!Init, X!Junk
  <2>2. frames \in Seq(Nat) /\ Len(frames) = 0
    BY <2>1
  <2>3. MaxCalls \in Nat
    BY ToolchainAssumption
  <2> QED
    BY <2>1, <2>2, <2>3 DEF Running
<1> QED
  BY <1>3, <1>5, <1>6 DEF Inv

(* A stuttering step keeps the invariant.                                  *)
LEMMA InvStutter == ASSUME Inv, UNCHANGED vars PROVE Inv'
<1>1. UNCHANGED <<prog, src, place, tokens, mode, start, c, stream, next, instructions, procedures,
                  procedure, labels, patches, val, at, file, image, stage, ip, frames, status>>
  BY DEF vars, scanned, resolved, stored, executed
<1>2. TP!Inv'
  <2>1. UNCHANGED TP!vars
    BY <1>1 DEF TP!vars
  <2> QED
    BY <2>1, TP!StutterKeepsInv DEF Inv, Passes
<1>3. R!Init => R!Init'
  BY <1>1 DEF R!Init, R!NoProcedure
<1>4. RP!Inv => RP!Inv'
  BY <1>1 DEF RP!Inv, RP!StreamOK, RP!Code, RP!Pending, RP!Reading, RP!size, RP!Byte, RP!Procedure
<1>5. Passes'
  BY <1>1, <1>2, <1>3, <1>4 DEF Inv, Passes
<1>6. Filed'
  BY <1>1, FiledStays DEF Inv
<1>7. Running'
  BY <1>1 DEF Inv, Running
<1> QED
  BY <1>5, <1>6, <1>7 DEF Inv

(* The invariant holds of every assembly and every run of what it made.    *)
THEOREM InvHolds == FairSpec => []Inv
<1>1. Inv /\ [Next]_vars => Inv'
  BY TokenizeKeepsInv, ResolveKeepsInv, GenerateKeepsInv, LoadKeepsInv, ExecuteKeepsInv, InvStutter
     DEF Next, Assemble
<1> QED
  BY InvInit, <1>1, PTL DEF FairSpec

(* No pass leaves its text, its stream, its bytes or its stack: TypeOK.    *)
THEOREM ToolchainTypes == FairSpec => []TypeOK
<1>1. Inv => TypeOK
  <2> SUFFICES ASSUME Inv
               PROVE  TypeOK
    OBVIOUS
  <2>1. T!TypeOK
    BY TP!InvGivesTypes, SameTokenizer DEF Inv, Passes
  <2>2. mode = "done" => R!TypeOK
    BY RP!InvGivesTypes, SameResolver DEF Inv, Passes
  <2>3. I!TypeOK
    <3>1. CASE HeadOnly
      <4>1. /\ file.head \in {"none", "cut", "stub"}
            /\ file.table = <<>> /\ file.pool = <<>>
            /\ file.procedure_count = 0 /\ file.instruction_count = 0
        BY <3>1 DEF HeadOnly, I!NoFile
      <4>2. Len(file.table) = 0 /\ Len(file.pool) = 0
        BY <4>1
      <4> QED
        BY <4>1, <4>2 DEF I!TypeOK, I!HeadState, Inv, Filed
    <3>2. CASE Prefix
      <4>1. PICK n \in 0..Len(procedures), m \in 0..Len(instructions) : file = I!Written(n, m)
        BY <3>2 DEF Prefix
      <4>2. /\ file.head = "ok"
            /\ file.table = SubSeq(I!Table, 1, n) /\ file.pool = SubSeq(instructions, 1, m)
            /\ file.procedure_count = Len(procedures) /\ file.instruction_count = Len(instructions)
        BY <4>1 DEF I!Written
      <4>3. I!Table \in Seq(Entry) /\ Len(I!Table) = Len(procedures) /\ Len(procedures) \in Nat
        BY TableIs DEF Inv
      <4>4. instructions \in Seq(0..255)
        BY Made DEF Inv
      <4>5. Len(SubSeq(I!Table, 1, n)) = n /\ Len(SubSeq(instructions, 1, m)) = m
        BY <4>3, <4>4
      <4>6. Len(file.table) <= file.procedure_count /\ Len(file.pool) <= file.instruction_count
        BY <4>2, <4>3, <4>4, <4>5
      <4> QED
        BY <4>2, <4>6 DEF I!TypeOK, I!HeadState, Inv, Filed
    <3>3. CASE file \in Earlier
      <4>1. IsFile(file)
        BY <3>3, ToolchainAssumption
      <4> QED
        BY <4>1 DEF IsFile, I!TypeOK, I!HeadState, Inv, Filed
    <3> QED
      BY <3>1, <3>2, <3>3 DEF Inv, Filed
  <2>4. X!TypeOK
    BY DEF X!TypeOK, Inv, Running
  <2> QED
    BY <2>1, <2>2, <2>3, <2>4 DEF TypeOK
<1> QED
  BY InvHolds, <1>1, PTL

(* The tokenizer leaves no character out and reads none twice: NothingLost. *)
THEOREM NothingIsLost == FairSpec => []NothingLost
<1>1. Inv => NothingLost
  BY TP!InvGivesNothingLost, SameTokenizer DEF Inv, Passes, NothingLost
<1> QED
  BY InvHolds, <1>1, PTL

(* No word and no number is cut in two: WholeWords.                        *)
THEOREM WordsAreWhole == FairSpec => []WholeWords
<1>1. Inv => WholeWords
  BY SameTokenizer DEF Inv, Passes, TP!Inv, WholeWords
<1> QED
  BY InvHolds, <1>1, PTL

(* An image that was loaded is whole, however the writing of it went: the  *)
(* one that was made, or, if the file could not be opened, whatever image   *)
(* stood there: LoadedExact.                                               *)
THEOREM LoadedIsExact == FairSpec => []LoadedExact
<1>1. Inv => LoadedExact
  <2> SUFFICES ASSUME Inv
               PROVE  I!LoadedExact
    BY DEF LoadedExact
  <2>1. ASSUME stage = "loaded"
        PROVE  image.pool = instructions /\ Len(image.table) = Len(procedures)
    <3>1. image.pool = instructions /\ image.table = I!Table
      BY <2>1 DEF Inv, Filed
    <3> QED
      BY <3>1, TableIs DEF Inv
  <2>2. stage = "stale" => \E f \in Earlier : AllOf(f)
    BY DEF Inv, Filed
  <2> QED
    BY <2>1, <2>2 DEF I!LoadedExact, AllOf
<1> QED
  BY InvHolds, <1>1, PTL

(* Procedures are found under their ids, whatever their order: TableExact. *)
THEOREM TableIsExact == FairSpec => []TableExact
<1>1. Inv => TableExact
  <2> SUFFICES ASSUME Inv, stage = "loaded", NEW i \in 1..Len(procedures),
                      \A j \in 1..Len(procedures) : procedures[j].id = procedures[i].id => j = i
               PROVE  image.table[procedures[i].id + 1] = [address |-> procedures[i].address,
                                                           arg_count |-> procedures[i].arg_count]
    BY DEF TableExact, I!TableExact
  <2>1. image.table = I!Table /\ ~I!TooLarge
    BY DEF Inv, Filed
  <2> QED
    BY <2>1, TableIs DEF Inv
<1> QED
  BY InvHolds, <1>1, PTL

-----------------------------------------------------------------------------
(* Addresses                                                               *)

(* The sums of a sequence of numbers satisfy their recursion.              *)
LEMMA SumsAre ==
  ASSUME NEW s \in Seq(Nat)
  PROVE  /\ Sums(s) \in [0..Len(s) -> Nat]
         /\ Sums(s)[0] = 0
         /\ \A n \in 1..Len(s) : Sums(s)[n] = Sums(s)[n - 1] + s[n]
<1> DEFINE N == Len(s)
           add == [n \in Nat |-> [v \in Nat |-> IF n + 1 \in 1..N THEN v + s[n + 1] ELSE v]]
           Fits(f) == f = [n \in 0..N |-> IF n = 0 THEN 0 ELSE f[n - 1] + s[n]]
<1>1. N \in Nat /\ \A n \in 1..N : s[n] \in Nat
  OBVIOUS
<1>2. PICK h : Iterates(h, Nat, 0, add)
  <2>1. add \in [Nat -> [Nat -> Nat]]
    BY <1>1
  <2> HIDE DEF add
  <2> QED
    BY <2>1, Recursion
<1>3. h \in [Nat -> Nat] /\ h[0] = 0
  BY <1>2 DEF Iterates
<1>4. \A n \in 1..N : h[n] = h[n - 1] + s[n]
  <2> SUFFICES ASSUME NEW n \in 1..N
               PROVE  h[n] = h[n - 1] + s[n]
    OBVIOUS
  <2>1. n - 1 \in Nat /\ n - 1 + 1 = n
    BY <1>1
  <2>2. h[n] = add[n - 1][h[n - 1]]
    BY <1>2, <2>1 DEF Iterates
  <2>3. h[n - 1] \in Nat
    BY <1>3, <2>1
  <2> QED
    BY <2>1, <2>2, <2>3
<1> DEFINE f == [n \in 0..N |-> h[n]]
<1>5. f \in [0..N -> Nat] /\ f[0] = 0 /\ \A n \in 1..N : f[n] = f[n - 1] + s[n]
  <2>1. \A n \in 1..N : n \in 0..N /\ n - 1 \in 0..N
    BY <1>1
  <2> QED
    BY <1>1, <1>3, <1>4, <2>1
<1>6. Fits(f)
  <2>1. \A n \in 0..N : n # 0 => n \in 1..N
    BY <1>1
  <2> HIDE DEF N
  <2>2. \A n \in 0..N : f[n] = IF n = 0 THEN 0 ELSE f[n - 1] + s[n]
    <3> HIDE DEF f
    <3> QED
      BY <1>5, <2>1
  <2> QED
    BY <2>2
<1>7. Sums(s) = CHOOSE g : Fits(g)
  BY DEF Sums
<1>8. Fits(Sums(s))
  <2> HIDE DEF Fits, f
  <2> QED
    BY <1>6, <1>7
<1> DEFINE g == Sums(s)
<1>9. g = [n \in 0..N |-> IF n = 0 THEN 0 ELSE g[n - 1] + s[n]]
  BY <1>8
<1> HIDE DEF g, f, add
<1>10. g[0] = 0 /\ \A n \in 1..N : g[n] = g[n - 1] + s[n]
  <2>1. 0 \in 0..N /\ \A n \in 1..N : n \in 0..N /\ n # 0
    BY <1>1
  <2> HIDE DEF N
  <2> QED
    BY <1>9, <2>1
<1>11. \A n \in 0..N : g[n] \in Nat
  <2> DEFINE S == {n \in Nat : n \in 0..N => g[n] \in Nat}
  <2>1. 0 \in S
    BY <1>10
  <2>2. ASSUME NEW n \in Nat, n \in S
        PROVE  n + 1 \in S
    <3> SUFFICES ASSUME n + 1 \in 0..N
                 PROVE  g[n + 1] \in Nat
      OBVIOUS
    <3>1. n \in 0..N /\ n + 1 \in 1..N /\ n + 1 - 1 = n
      BY <1>1
    <3>2. g[n] \in Nat /\ s[n + 1] \in Nat /\ g[n + 1] = g[n] + s[n + 1]
      BY <1>1, <1>10, <2>2, <3>1
    <3> QED
      BY <3>2
  <2>3. \A n \in Nat : n \in S
    <3> HIDE DEF S
    <3> QED
      BY <2>1, <2>2, SetInduction
  <2> QED
    BY <2>3
<1>12. g \in [0..N -> Nat]
  BY <1>9, <1>11
<1> QED
  BY <1>10, <1>12 DEF g

(* Sums of numbers never decrease.                                         *)
LEMMA SumsGrow ==
  ASSUME NEW s \in Seq(Nat), NEW n \in 0..Len(s), NEW m \in 0..Len(s), n <= m
  PROVE  Sums(s)[n] <= Sums(s)[m]
<1> DEFINE N == Len(s)
           g == Sums(s)
           S == {d \in Nat : n + d <= N => g[n] <= g[n + d]}
<1>1. /\ N \in Nat /\ g \in [0..N -> Nat] /\ \A i \in 1..N : s[i] \in Nat /\ g[i] = g[i - 1] + s[i]
  BY SumsAre
<1> HIDE DEF g
<1>2. 0 \in S
  <2>1. n + 0 = n /\ n \in 0..N
    BY <1>1
  <2>2. g[n] \in Nat
    BY <1>1, <2>1
  <2> QED
    BY <2>1, <2>2
<1>3. ASSUME NEW d \in Nat, d \in S
      PROVE  d + 1 \in S
  <2> SUFFICES ASSUME n + (d + 1) <= N
               PROVE  g[n] <= g[n + (d + 1)]
    OBVIOUS
  <2>1. n + d <= N /\ n + d \in 0..N /\ n + (d + 1) \in 1..N /\ n + (d + 1) - 1 = n + d
    BY <1>1
  <2>2. g[n] \in Nat /\ g[n + d] \in Nat /\ g[n] <= g[n + d]
    BY <1>1, <1>3, <2>1
  <2>3. s[n + (d + 1)] \in Nat /\ g[n + (d + 1)] = g[n + d] + s[n + (d + 1)]
    BY <1>1, <2>1
  <2> QED
    BY <2>2, <2>3
<1>4. \A d \in Nat : d \in S
  <2> HIDE DEF S
  <2> QED
    BY <1>2, <1>3, SetInduction
<1>5. m - n \in Nat /\ n + (m - n) = m /\ m <= N
  BY <1>1
<1> QED
  BY <1>4, <1>5 DEF g

(* The statements of a program's bodies, and where they begin.             *)
LEMMA BodyIs ==
  ASSUME IsProgram(prog), NEW k \in 1..Len(prog)
  PROVE  /\ Len(prog) \in Nat /\ prog[k].id \in Nat /\ prog[k].args \in Nat
         /\ Len(prog[k].body) \in Nat \ {0}
         /\ \A i \in 1..Len(prog[k].body) :
              /\ prog[k].body[i].op \in Mnemonic \cup {"@"} /\ Bytes(prog[k].body[i]) \in Nat
              /\ prog[k].body[i].op = "@" => Bytes(prog[k].body[i]) = 0
              /\ prog[k].body[i].op # "@" => Bytes(prog[k].body[i]) >= 1
              /\ Begins(prog[k].body)[i] = Begins(prog[k].body)[i - 1] + Bytes(prog[k].body[i])
         /\ Begins(prog[k].body) \in [0..Len(prog[k].body) -> Nat]
         /\ Begins(prog[k].body)[0] = 0
         /\ \A i, j \in 0..Len(prog[k].body) : i <= j => Begins(prog[k].body)[i] <= Begins(prog[k].body)[j]
<1> DEFINE body == prog[k].body
           N == Len(body)
           sizes == [i \in 1..N |-> Bytes(body[i])]
           Stm == [op : Mnemonic \cup {"@"}, to : STRING]
<1>1. Len(prog) \in Nat /\ prog[k] \in SourceProcedure /\ body # <<>>
  <2>1. prog \in Seq(SourceProcedure)
    BY DEF IsProgram
  <2>2. body # <<>>
    BY DEF IsProgram
  <2> QED
    BY <2>1, <2>2
<1>2. body \in Seq(Stm) /\ prog[k].id \in Nat /\ prog[k].args \in Nat
  BY <1>1 DEF SourceProcedure
<1>3. N \in Nat /\ N # 0
  <2> HIDE DEF Stm, body
  <2> QED
    BY <1>1, <1>2
<1>4. ASSUME NEW i \in 1..N
      PROVE  /\ body[i].op \in Mnemonic \cup {"@"} /\ Bytes(body[i]) \in Nat
             /\ body[i].op = "@" => Bytes(body[i]) = 0
             /\ body[i].op # "@" => Bytes(body[i]) >= 1
  <2>1. body[i] \in Stm
    <3> HIDE DEF Stm, body
    <3> QED
      BY <1>2
  <2>2. OperandBytes(body[i].op) \in Nat
    BY DEF OperandBytes
  <2>3. body[i].op \in Mnemonic \cup {"@"}
    BY <2>1
  <2> HIDE DEF body
  <2> QED
    BY <2>2, <2>3 DEF Bytes
<1> HIDE DEF body
<1>5. sizes \in Seq(Nat) /\ Len(sizes) = N /\ \A i \in 1..N : sizes[i] = Bytes(body[i])
  <2>1. \A i \in 1..N : Bytes(body[i]) \in Nat
    BY <1>4
  <2> HIDE DEF N
  <2> QED
    BY <1>3, <2>1
<1>6. Begins(body) = Sums(sizes)
  BY DEF Begins
<1> HIDE DEF sizes, N
<1>7. /\ Sums(sizes) \in [0..N -> Nat] /\ Sums(sizes)[0] = 0
      /\ \A i \in 1..N : Sums(sizes)[i] = Sums(sizes)[i - 1] + sizes[i]
  BY <1>5, SumsAre
<1>8. \A i, j \in 0..N : i <= j => Sums(sizes)[i] <= Sums(sizes)[j]
  BY <1>5, SumsGrow
<1> QED
  BY <1>1, <1>2, <1>3, <1>4, <1>5, <1>6, <1>7, <1>8 DEF body, N

(* Where the procedures of a program begin: each behind the one before.    *)
LEMMA BasesAre ==
  ASSUME IsProgram(prog)
  PROVE  /\ Len(prog) \in Nat
         /\ Bases \in [0..Len(prog) -> Nat] /\ Bases[0] = 0
         /\ \A k \in 1..Len(prog) :
              Bases[k] = Bases[k - 1] + Begins(prog[k].body)[Len(prog[k].body)]
         /\ \A k, l \in 0..Len(prog) : k <= l => Bases[k] <= Bases[l]
<1> DEFINE N == Len(prog)
           sizes == [k \in 1..N |-> Begins(prog[k].body)[Len(prog[k].body)]]
<1>1. N \in Nat
  BY DEF IsProgram
<1>2. ASSUME NEW k \in 1..N
      PROVE  Begins(prog[k].body)[Len(prog[k].body)] \in Nat
  <2>1. /\ Len(prog[k].body) \in Nat
        /\ Begins(prog[k].body) \in [0..Len(prog[k].body) -> Nat]
    BY BodyIs
  <2> QED
    BY <2>1
<1>3. /\ sizes \in Seq(Nat) /\ Len(sizes) = N
      /\ \A k \in 1..N : sizes[k] = Begins(prog[k].body)[Len(prog[k].body)]
  <2> HIDE DEF N
  <2> QED
    BY <1>1, <1>2
<1>4. Bases = Sums(sizes)
  BY DEF Bases
<1> HIDE DEF sizes, N
<1>5. /\ Sums(sizes) \in [0..N -> Nat] /\ Sums(sizes)[0] = 0
      /\ \A k \in 1..N : Sums(sizes)[k] = Sums(sizes)[k - 1] + sizes[k]
  BY <1>3, SumsAre
<1>6. \A i, j \in 0..N : i <= j => Sums(sizes)[i] <= Sums(sizes)[j]
  BY <1>3, SumsGrow
<1> QED
  BY <1>1, <1>3, <1>4, <1>5, <1>6 DEF N

(* A statement ends where the next begins, and inside its procedure.       *)
LEMMA AddressStep ==
  ASSUME IsProgram(prog), NEW k \in 1..Len(prog), NEW i \in 1..Len(prog[k].body)
  PROVE  /\ Address(k, i) \in Nat
         /\ Address(k, i + 1) = Address(k, i) + Bytes(prog[k].body[i])
         /\ Bases[k - 1] \in Nat /\ Bases[k] \in Nat
         /\ Bases[k - 1] <= Address(k, i)
         /\ Address(k, i + 1) <= Bases[k]
         /\ Bases[k] <= Bases[Len(prog)]
<1> DEFINE n == Len(prog[k].body)
           b == Begins(prog[k].body)
           z == Bytes(prog[k].body[i])
<1>1. /\ n \in Nat /\ b \in [0..n -> Nat] /\ b[i] = b[i - 1] + z /\ z \in Nat
      /\ \A j, l \in 0..n : j <= l => b[j] <= b[l]
  BY BodyIs
<1>2. /\ Len(prog) \in Nat /\ Bases \in [0..Len(prog) -> Nat] /\ Bases[k] = Bases[k - 1] + b[n]
      /\ \A j, l \in 0..Len(prog) : j <= l => Bases[j] <= Bases[l]
  BY BasesAre
<1>3. Address(k, i) = Bases[k - 1] + b[i - 1] /\ Address(k, i + 1) = Bases[k - 1] + b[i]
  <2>1. i + 1 - 1 = i
    BY <1>1
  <2> QED
    BY <2>1 DEF Address
<1> HIDE DEF b, n, z
<1>4. i \in 0..n /\ i - 1 \in 0..n /\ n \in 0..n /\ i <= n
  BY <1>1 DEF n
<1>5. k \in 0..Len(prog) /\ k - 1 \in 0..Len(prog) /\ k <= Len(prog) /\ Len(prog) \in 0..Len(prog)
  BY <1>2
<1>6. b[i - 1] \in Nat /\ b[i] \in Nat /\ b[n] \in Nat /\ b[i] <= b[n]
  BY <1>1, <1>4
<1>7. Bases[k - 1] \in Nat /\ Bases[k] \in Nat /\ Bases[k] <= Bases[Len(prog)]
  BY <1>2, <1>5
<1>8. z \in Nat /\ b[i] = b[i - 1] + z /\ Bases[k] = Bases[k - 1] + b[n]
  BY <1>1, <1>2
<1>9. /\ Address(k, i) \in Nat /\ Address(k, i + 1) = Address(k, i) + z
      /\ Bases[k - 1] <= Address(k, i) /\ Address(k, i + 1) <= Bases[k]
  <2> DEFINE p == Bases[k - 1]
             q == Bases[k]
             e == Address(k, i)
             f == Address(k, i + 1)
             u == b[i - 1]
             v == b[i]
             w == b[n]
  <2>1. /\ p \in Nat /\ q \in Nat /\ u \in Nat /\ v \in Nat /\ w \in Nat /\ z \in Nat
        /\ e = p + u /\ f = p + v /\ v = u + z /\ q = p + w /\ v <= w
    BY <1>3, <1>6, <1>7, <1>8
  <2> HIDE DEF p, q, e, f, u, v, w
  <2>2. e \in Nat /\ f = e + z /\ p <= e /\ f <= q
    BY <2>1
  <2> QED
    BY <2>2 DEF p, q, e, f
<1>10. Address(k, i + 1) = Address(k, i) + Bytes(prog[k].body[i])
  BY <1>9 DEF z
<1> QED
  BY <1>7, <1>9, <1>10

(* (k, i) is a statement that makes bytes, the first of them at a.         *)
On(k, i, a) == /\ k \in 1..Len(prog) /\ i \in 1..Len(prog[k].body)
               /\ prog[k].body[i].op # "@"
               /\ a = Address(k, i)

(* Of two statements the one that comes first has the smaller address.     *)
LEMMA AddressOrder ==
  ASSUME IsProgram(prog), NEW k, NEW i, NEW l, NEW j, On(k, i, Address(k, i)), On(l, j, Address(l, j)),
         k < l \/ (k = l /\ i < j)
  PROVE  Address(k, i) < Address(l, j)
<1> USE DEF On
<1>1. /\ Address(k, i) \in Nat /\ Address(k, i + 1) = Address(k, i) + Bytes(prog[k].body[i])
      /\ Address(k, i + 1) <= Bases[k] /\ Bases[k] \in Nat
  BY AddressStep
<1>2. Bytes(prog[k].body[i]) \in Nat /\ Bytes(prog[k].body[i]) >= 1
  BY BodyIs
<1>3. Address(l, j) \in Nat /\ Bases[l - 1] <= Address(l, j) /\ Bases[l - 1] \in Nat
  BY AddressStep
<1>4. CASE k < l
  <2>1. /\ Len(prog) \in Nat
        /\ \A m, n \in 0..Len(prog) : m <= n => Bases[m] <= Bases[n]
    BY BasesAre
  <2>2. k \in 0..Len(prog) /\ l - 1 \in 0..Len(prog) /\ k <= l - 1
    BY <1>4, <2>1
  <2>3. Bases[k] <= Bases[l - 1]
    BY <2>1, <2>2
  <2> QED
    BY <1>1, <1>2, <1>3, <2>3
<1>5. CASE k = l /\ i < j
  <2> DEFINE n == Len(prog[k].body)
             b == Begins(prog[k].body)
  <2>1. /\ n \in Nat /\ b \in [0..n -> Nat]
        /\ \A p, q \in 0..n : p <= q => b[p] <= b[q]
    BY BodyIs
  <2> HIDE DEF n
  <2>2. i \in 0..n /\ j - 1 \in 0..n /\ i <= j - 1 /\ i + 1 - 1 = i
    BY <1>5, <2>1 DEF n
  <2>3. b[i] <= b[j - 1] /\ b[i] \in Nat /\ b[j - 1] \in Nat
    <3> HIDE DEF b
    <3> QED
      BY <2>1, <2>2
  <2>4. Address(k, i + 1) = Bases[k - 1] + b[i] /\ Address(l, j) = Bases[k - 1] + b[j - 1]
    BY <1>5, <2>2 DEF Address
  <2>5. Bases[k - 1] \in Nat
    BY <1>3, <1>5
  <2>6. Address(k, i + 1) <= Address(l, j)
    <3> HIDE DEF b
    <3> QED
      BY <2>3, <2>4, <2>5
  <2> QED
    BY <1>1, <1>2, <1>3, <2>6
<1> QED
  BY <1>4, <1>5

(* An address belongs to one statement.                                    *)
LEMMA StatementAtAddress ==
  ASSUME IsProgram(prog), NEW k, NEW i, NEW a, On(k, i, a)
  PROVE  StatementAt(a) = <<k, i>>
<1> DEFINE here == {s \in Statements : /\ prog[s[1]].body[s[2]].op # "@"
                                       /\ Address(s[1], s[2]) = a}
<1>1. <<k, i>> \in Statements
  BY DEF On, Statements
<1>2. <<k, i>> \in here
  BY <1>1 DEF On
<1>3. ASSUME NEW s \in here
      PROVE  s = <<k, i>>
  <2>1. PICK l \in 1..Len(prog) : \E j \in 1..Len(prog[l].body) : s = <<l, j>>
    BY DEF Statements
  <2>2. PICK j \in 1..Len(prog[l].body) : s = <<l, j>>
    BY <2>1
  <2>3. On(l, j, Address(l, j)) /\ On(k, i, Address(k, i)) /\ Address(l, j) = Address(k, i)
    BY <2>2 DEF On
  <2>4. Address(k, i) \in Nat /\ k \in Nat /\ i \in Nat /\ l \in Nat /\ j \in Nat
    <3>1. Address(k, i) \in Nat /\ Len(prog) \in Nat
      BY AddressStep, BasesAre DEF On
    <3>2. Len(prog[k].body) \in Nat /\ Len(prog[l].body) \in Nat
      BY BodyIs DEF On
    <3> QED
      BY <3>1, <3>2 DEF On
  <2>5. ~(k < l \/ (k = l /\ i < j)) /\ ~(l < k \/ (l = k /\ j < i))
    <3>1. ~(Address(k, i) < Address(l, j)) /\ ~(Address(l, j) < Address(k, i))
      BY <2>3, <2>4
    <3>2. k < l \/ (k = l /\ i < j) => Address(k, i) < Address(l, j)
      BY <2>3, AddressOrder
    <3>3. l < k \/ (l = k /\ j < i) => Address(l, j) < Address(k, i)
      BY <2>3, AddressOrder
    <3> QED
      BY <3>1, <3>2, <3>3
  <2> QED
    BY <2>2, <2>4, <2>5
<1>4. StatementAt(a) = CHOOSE s \in here : TRUE
  BY <1>2, Zenon DEF StatementAt
<1> HIDE DEF here
<1> QED
  BY <1>2, <1>3, <1>4

(* What follows a place in a body is the next statement that makes bytes:  *)
(* labels take none.                                                       *)
LEMMA FromIs ==
  ASSUME IsProgram(prog), NEW k \in 1..Len(prog), NEW i \in 1..Len(prog[k].body)
  PROVE  \E j \in 1..Len(prog[k].body) : A!From(k, i) = <<k, j>> /\ On(k, j, Address(k, i))
<1> DEFINE body == prog[k].body
           n == Len(body)
           b == Begins(body)
           Bare == {j \in i..n : body[j].op # "@"}
           Leads(j) == body[j].op # "@" /\ \A m \in i..(j - 1) : body[m].op = "@"
<1>1. /\ n \in Nat \ {0} /\ b \in [0..n -> Nat]
      /\ \A j \in 1..n : /\ body[j].op = "@" => Bytes(body[j]) = 0
                         /\ b[j] = b[j - 1] + Bytes(body[j])
  BY BodyIs
<1>2. body[n].op # "@"
  BY DEF IsProgram
<1> HIDE DEF n, b, body
<1>3. i \in Nat /\ i >= 1 /\ i <= n
  BY <1>1 DEF n, body
<1>4. n \in Bare /\ Bare \subseteq Nat
  BY <1>1, <1>2, <1>3
<1>5. PICK j \in Bare : \A m \in Bare : j <= m
  <2> HIDE DEF Bare
  <2> QED
    BY <1>4, LeastElement
<1>6. j \in i..n /\ Leads(j)
  <2>1. ASSUME NEW m \in i..(j - 1)
        PROVE  body[m].op = "@"
    <3>1. m \in i..n /\ m < j /\ ~(j <= m)
      BY <1>1, <1>3
    <3> QED
      BY <1>5, <3>1
  <2> QED
    BY <2>1
<1>7. ASSUME NEW m \in i..n, Leads(m)
      PROVE  m = j
  <2>1. m \in Bare /\ m \in Nat /\ j \in Nat
    BY <1>1, <1>3, <1>7
  <2>2. j <= m
    BY <1>5, <2>1
  <2>3. ~(j < m)
    <3>1. j < m => j \in i..(m - 1)
      BY <1>3, <2>1
    <3> QED
      BY <1>6, <1>7, <3>1
  <2> QED
    BY <2>1, <2>2, <2>3
<1>8. A!From(k, i) = <<k, CHOOSE m \in i..n : Leads(m)>>
  BY DEF A!From, n, body
<1>9. (CHOOSE m \in i..n : Leads(m)) = j
  <2> HIDE DEF Leads
  <2> QED
    BY <1>6, <1>7
<1>10. b[j - 1] = b[i - 1]
  <2> DEFINE S == {d \in Nat : i + d <= j => b[i + d - 1] = b[i - 1]}
  <2>1. 0 \in S
    <3>1. i + 0 - 1 = i - 1
      BY <1>3
    <3> QED
      BY <3>1
  <2>2. ASSUME NEW d \in Nat, d \in S
        PROVE  d + 1 \in S
    <3> SUFFICES ASSUME i + (d + 1) <= j
                 PROVE  b[i + (d + 1) - 1] = b[i - 1]
      OBVIOUS
    <3>1. /\ i + (d + 1) - 1 = i + d /\ i + d \in i..(j - 1) /\ i + d \in 1..n /\ i + d <= j
          /\ i + d - 1 \in 0..n
      BY <1>1, <1>3, <1>6
    <3>2. body[i + d].op = "@"
      BY <1>6, <3>1
    <3>3. b[i + d] = b[i + d - 1] + 0 /\ b[i + d - 1] \in Nat
      BY <1>1, <3>1, <3>2
    <3> QED
      BY <2>2, <3>1, <3>3
  <2>3. \A d \in Nat : d \in S
    <3> HIDE DEF S
    <3> QED
      BY <2>1, <2>2, SetInduction
  <2>4. j \in Nat /\ i <= j
    BY <1>1, <1>3, <1>6
  <2>5. j - i \in Nat /\ i + (j - i) <= j /\ i + (j - i) - 1 = j - 1
    BY <1>3, <2>4
  <2> QED
    BY <2>3, <2>5
<1>11. Address(k, j) = Address(k, i)
  BY <1>10 DEF Address, b, body
<1>12. j \in 1..n
  BY <1>1, <1>3, <1>6
<1> QED
  BY <1>6, <1>8, <1>9, <1>11, <1>12 DEF On, n, body

(* The statement that starts at the address of a place in a body is the    *)
(* one that follows there.                                                 *)
LEMMA AtIsFrom ==
  ASSUME IsProgram(prog), NEW k \in 1..Len(prog), NEW i \in 1..Len(prog[k].body)
  PROVE  StatementAt(Address(k, i)) = A!From(k, i)
BY FromIs, StatementAtAddress

(* Behind a statement that does not leave its body there is another.       *)
LEMMA NotLast ==
  ASSUME IsProgram(prog), NEW k, NEW i, NEW a, On(k, i, a),
         prog[k].body[i].op \notin {"halt", "ret", "retval", "jmp"}
  PROVE  i + 1 \in 1..Len(prog[k].body)
<1>1. Len(prog[k].body) \in Nat /\ i \in 1..Len(prog[k].body)
  BY BodyIs DEF On
<1>2. i # Len(prog[k].body)
  BY DEF On, IsProgram
<1> QED
  BY <1>1, <1>2

(* A jump names a label of its body.                                       *)
LEMMA LabelIs ==
  ASSUME IsProgram(prog), NEW k, NEW i, NEW a, On(k, i, a), prog[k].body[i].op \in Jumps
  PROVE  A!LabelAt(<<k, i>>) \in 1..Len(prog[k].body)
<1>1. \E j \in 1..Len(prog[k].body) : /\ prog[k].body[j].op = "@"
                                      /\ prog[k].body[j].to = prog[k].body[i].to
  BY DEF On, IsProgram
<1>2. A!LabelAt(<<k, i>>) = CHOOSE j \in 1..Len(prog[k].body) :
                              /\ prog[k].body[j].op = "@"
                              /\ prog[k].body[j].to = prog[k].body[i].to
  BY DEF A!LabelAt, A!At
<1> QED
  BY <1>1, <1>2

-----------------------------------------------------------------------------
(* The image of a program                                                  *)

(* The instruction set is one, whoever speaks of it.                       *)
LEMMA SameInstr ==
  /\ \A b : X!Handler(b) = Handler(b)
  /\ \A w : X!OperandBytes(w) = OperandBytes(w)
  /\ \A b : X!Int4(b) = Int4(b)
  /\ X!Mnemonic = Mnemonic /\ A!Mnemonic = Mnemonic
  /\ X!Jumps = Jumps /\ A!Jumps = Jumps
  /\ X!OnFlags = OnFlags /\ X!OnSlot = OnSlot
<1>1. X!OnFlags = OnFlags /\ X!OnSlot = OnSlot /\ A!OnFlags = OnFlags /\ A!OnSlot = OnSlot
  BY DEF X!OnFlags, OnFlags, X!OnSlot, OnSlot, A!OnFlags, A!OnSlot
<1>2. X!Mnemonic = Mnemonic /\ A!Mnemonic = Mnemonic
  BY DEF X!Mnemonic, Mnemonic, X!Opcode, Opcode, A!Mnemonic, A!Opcode
<1>3. X!Opcode = Opcode
  BY DEF X!Opcode, Opcode
<1>4. \A b : X!Handler(b) = Handler(b)
  BY <1>2, <1>3 DEF X!Handler, Handler
<1>5. \A w : X!OperandBytes(w) = OperandBytes(w)
  BY <1>1 DEF X!OperandBytes, OperandBytes
<1>6. \A b : X!Int4(b) = Int4(b)
  BY DEF X!Int4, Int4
<1>7. X!Jumps = Jumps /\ A!Jumps = Jumps
  BY <1>1 DEF X!Jumps, Jumps, A!Jumps
<1> QED
  BY <1>1, <1>2, <1>4, <1>5, <1>6, <1>7

(* As many different numbers below n as there are, n of them: all.         *)
LEMMA AllIdsUsed ==
  ASSUME NEW n \in Nat, NEW f \in [1..n -> 0..(n - 1)],
         \A i, j \in 1..n : f[i] = f[j] => i = j
  PROVE  \A m \in 0..(n - 1) : \E i \in 1..n : f[i] = m
<1> DEFINE Places == 1..n
           Numbers == 0..(n - 1)
<1>1. IsFiniteSet(Places) /\ Cardinality(Places) = n /\ IsFiniteSet(Numbers) /\ Cardinality(Numbers) = n
  <2>1. 1 \in Int /\ n \in Int /\ 0 \in Int /\ n - 1 \in Int
    OBVIOUS
  <2>2. Cardinality(Places) = IF 1 > n THEN 0 ELSE n - 1 + 1
    BY <2>1, FS_Interval
  <2>3. Cardinality(Numbers) = IF 0 > n - 1 THEN 0 ELSE n - 1 - 0 + 1
    BY <2>1, FS_Interval
  <2> QED
    BY <2>1, <2>2, <2>3, FS_Interval
<1> HIDE DEF Places, Numbers
<1>2. f \in Injection(Places, Numbers)
  BY DEF Places, Numbers, Injection, IsInjective
<1>3. f \in Surjection(Places, Numbers)
  BY <1>1, <1>2, FS_Injection
<1> QED
  BY <1>3 DEF Surjection, Places, Numbers

(* A program was assembled and its image loaded.                           *)
Ready == /\ Inv /\ Assembled
         /\ prog # <<>> /\ IsProgram(prog)
         /\ stage = "loaded"

(* The pool holds the code of the program, and the table its procedures:   *)
(* their ids are the numbers below the number of procedures.               *)
LEMMA LoadedProgram ==
  ASSUME Ready
  PROVE  /\ image.pool = instructions /\ X!Count = Bases[Len(prog)]
         /\ Len(image.table) = Len(prog) /\ Len(prog) \in Nat
         /\ \A k \in 1..Len(prog) :
              /\ prog[k].id \in 0..(Len(prog) - 1)
              /\ image.table[prog[k].id + 1].address = Address(k, 1)
              /\ \A i \in 1..Len(prog[k].body) : prog[k].body[i].op # "@" => Coded(k, i)
         /\ \A id \in 0..(Len(prog) - 1) : \E k \in 1..Len(prog) : prog[k].id = id
<1>1. Passes /\ Filed /\ at = "done"
  BY DEF Ready, Inv, Passes
<1>2. /\ Len(procedures) = Len(prog) /\ Len(instructions) = Bases[Len(prog)]
      /\ \A k \in 1..Len(prog) :
           procedures[k] = [id |-> prog[k].id, arg_count |-> prog[k].args, address |-> Address(k, 1)]
  BY <1>1 DEF Ready, Assembled
<1>9. \A k \in 1..Len(prog) :
        \A i \in 1..Len(prog[k].body) : prog[k].body[i].op # "@" => Coded(k, i)
  BY <1>1 DEF Ready, Assembled
<1>10. \A k \in 1..Len(prog) : procedures[k].id = prog[k].id /\ procedures[k].address = Address(k, 1)
  <2> SUFFICES ASSUME NEW k \in 1..Len(prog)
               PROVE  procedures[k].id = prog[k].id /\ procedures[k].address = Address(k, 1)
    OBVIOUS
  <2>1. procedures[k] = [id |-> prog[k].id, arg_count |-> prog[k].args, address |-> Address(k, 1)]
    BY <1>2
  <2> QED
    BY <2>1
<1>3. ~I!TooLarge /\ image.table = I!Table /\ image.pool = instructions
  BY <1>1 DEF Ready, Filed
<1>4. /\ Len(I!Table) = Len(procedures) /\ Len(procedures) \in Nat
      /\ \A k \in 1..Len(procedures) :
           /\ procedures[k].id \in Nat /\ procedures[k].id + 1 \in 1..Len(procedures)
           /\ (\A j \in 1..Len(procedures) : procedures[j].id = procedures[k].id => j = k)
                => I!Table[procedures[k].id + 1] = [address |-> procedures[k].address,
                                                   arg_count |-> procedures[k].arg_count]
  BY <1>1, <1>3, TableIs
<1>5. \A j, k \in 1..Len(prog) : prog[j].id = prog[k].id => j = k
  BY DEF Ready, IsProgram
<1>6. ASSUME NEW k \in 1..Len(prog)
      PROVE  prog[k].id \in 0..(Len(prog) - 1) /\ image.table[prog[k].id + 1].address = Address(k, 1)
  <2>1. \A j \in 1..Len(prog) : procedures[j].id = prog[j].id
    BY <1>10
  <2>2. prog[k].id \in Nat /\ prog[k].id + 1 \in 1..Len(prog) /\ Len(prog) \in Nat
    BY <1>2, <1>4, <2>1
  <2>3. \A j \in 1..Len(procedures) : procedures[j].id = procedures[k].id => j = k
    BY <1>2, <1>5, <2>1
  <2>4. I!Table[prog[k].id + 1] = [address |-> procedures[k].address, arg_count |-> procedures[k].arg_count]
    BY <1>2, <1>4, <2>1, <2>3
  <2>5. procedures[k].address = Address(k, 1)
    BY <1>10
  <2> QED
    BY <1>3, <2>2, <2>4, <2>5
<1>7. \A id \in 0..(Len(prog) - 1) : \E k \in 1..Len(prog) : prog[k].id = id
  <2> DEFINE n == Len(prog)
             f == [k \in 1..n |-> prog[k].id]
  <2>1. n \in Nat /\ f \in [1..n -> 0..(n - 1)]
    BY <1>2, <1>4, <1>6
  <2>2. \A i, j \in 1..n : f[i] = f[j] => i = j
    BY <1>5
  <2>3. \A m \in 0..(n - 1) : \E i \in 1..n : f[i] = m
    <3> HIDE DEF f, n
    <3> QED
      BY <2>1, <2>2, AllIdsUsed
  <2> QED
    BY <2>3
<1>8. X!Count = Bases[Len(prog)]
  BY <1>2, <1>3 DEF X!Count
<1> QED
  BY <1>2, <1>3, <1>4, <1>6, <1>7, <1>8, <1>9

(* A statement lies in the pool.                                           *)
LEMMA InCode ==
  ASSUME Ready, NEW k, NEW i, NEW a, On(k, i, a)
  PROVE  /\ a \in Nat /\ a < X!Count /\ X!Count \in Nat
         /\ Address(k, i + 1) \in Nat
         /\ Address(k, i + 1) = a + 1 + OperandBytes(prog[k].body[i].op)
         /\ Address(k, i + 1) <= X!Count
         /\ OperandBytes(prog[k].body[i].op) \in Nat
<1>1. IsProgram(prog) /\ k \in 1..Len(prog) /\ i \in 1..Len(prog[k].body) /\ a = Address(k, i)
  BY DEF Ready, On
<1>2. /\ a \in Nat
      /\ Address(k, i + 1) = a + Bytes(prog[k].body[i])
      /\ Bases[k] \in Nat
      /\ Address(k, i + 1) <= Bases[k] /\ Bases[k] <= Bases[Len(prog)]
  BY <1>1, AddressStep
<1>3. Bytes(prog[k].body[i]) = 1 + OperandBytes(prog[k].body[i].op)
  BY DEF Bytes, On
<1>4. OperandBytes(prog[k].body[i].op) \in Nat
  BY DEF OperandBytes
<1>5. X!Count = Bases[Len(prog)] /\ Bases[Len(prog)] \in Nat
  <2>1. Len(prog) \in Nat /\ Bases \in [0..Len(prog) -> Nat]
    BY <1>1, BasesAre
  <2>2. Len(prog) \in 0..Len(prog)
    BY <2>1
  <2> QED
    BY <2>1, <2>2, LoadedProgram
<1> QED
  BY <1>2, <1>3, <1>4, <1>5

(* What the interpreter finds at a statement's address is the statement.   *)
LEMMA Fetch ==
  ASSUME Ready, NEW k, NEW i, On(k, i, ip)
  PROVE  /\ X!InPool /\ X!Whole
         /\ X!Op = prog[k].body[i].op /\ X!Op \in Mnemonic
         /\ X!Behind = Address(k, i + 1)
         /\ X!Op \in Jumps => X!Target = Address(k, A!LabelAt(<<k, i>>))
<1> DEFINE op == prog[k].body[i].op
<1>1. IsProgram(prog) /\ k \in 1..Len(prog) /\ i \in 1..Len(prog[k].body) /\ ip = Address(k, i) /\ op # "@"
  BY DEF Ready, On
<1>2. op \in Mnemonic
  BY <1>1, BodyIs
<1>3. image.pool = instructions /\ Coded(k, i)
  BY <1>1, LoadedProgram
<1>4. X!Op = op
  BY <1>1, <1>3, SameInstr DEF X!Op, Coded
<1>5. /\ ip \in Nat /\ ip < X!Count /\ X!Count \in Nat
      /\ Address(k, i + 1) = ip + 1 + OperandBytes(op) /\ Address(k, i + 1) <= X!Count
      /\ OperandBytes(op) \in Nat
  BY InCode
<1> HIDE DEF op
<1>6. X!Behind = Address(k, i + 1)
  BY <1>4, <1>5, SameInstr DEF X!Behind
<1>7. X!InPool /\ X!Whole
  BY <1>4, <1>5, SameInstr DEF X!InPool, X!Whole
<1>8. ASSUME op \in Jumps
      PROVE  X!Target = Address(k, A!LabelAt(<<k, i>>))
  <2>1. Address(k, i + 1) + Int4(SubSeq(instructions, Address(k, i + 1) - 3, Address(k, i + 1)))
          = Address(k, A!LabelAt(<<k, i>>))
    BY <1>3, <1>8 DEF Coded, op
  <2> QED
    BY <1>3, <1>6, <2>1, SameInstr DEF X!Target
<1> QED
  BY <1>2, <1>4, <1>6, <1>7, <1>8 DEF op

-----------------------------------------------------------------------------
(* The run of a program                                                    *)

(* The pointer and every return address but the first, which is none, lead *)
(* to a statement, and the first of them to one of procedure 0.            *)
OnTrack ==
  /\ frames # <<>>
  /\ \A n \in 2..(Len(frames) + 1) :
       \E k, i : On(k, i, Append(frames, ip)[n]) /\ (n = 2 => prog[k].id = 0)

Track ==
  prog # <<>> =>
    /\ IsProgram(prog)
    /\ status = "ready" => frames = <<>>
    /\ status # "ready" => stage \in {"loaded", "stale"}
    /\ status = "running" /\ stage # "stale" => OnTrack

(* A run of a program that has begun and not ended.                        *)
Underway == Ready /\ Track /\ status = "running"

(* The statement a run has come to; with one frame, of procedure 0.        *)
LEMMA Here ==
  ASSUME Underway
  PROVE  /\ frames \in Seq(Nat) /\ Len(frames) \in Nat \ {0} /\ ip \in Nat
         /\ \E k, i : On(k, i, ip) /\ (Len(frames) = 1 => prog[k].id = 0)
<1>1. frames \in Seq(Nat) /\ frames # <<>> /\ ip \in Nat
  BY DEF Underway, Ready, Inv, Running, Track, OnTrack
<1>2. Len(frames) \in Nat \ {0}
  BY <1>1
<1>3. Len(frames) + 1 \in 2..(Len(frames) + 1) /\ Append(frames, ip)[Len(frames) + 1] = ip
  BY <1>1, <1>2
<1>4. \E k, i : On(k, i, ip) /\ (Len(frames) + 1 = 2 => prog[k].id = 0)
  BY <1>3 DEF Underway, Ready, Track, OnTrack
<1>5. Len(frames) = 1 => Len(frames) + 1 = 2
  BY <1>2
<1> QED
  BY <1>1, <1>2, <1>4, <1>5

(* Where the document is, in the same run.                                 *)
LEMMA There ==
  ASSUME Underway, NEW k, NEW i, On(k, i, ip)
  PROVE  /\ Position = <<k, i>> /\ Outcome = "running"
         /\ OpenCalls = [n \in 1..(Len(frames) - 1) |-> StatementAt(frames[n + 1])]
         /\ \A ops : A!On(ops) <=> prog[k].body[i].op \in ops
<1>1. status = "running" /\ ~Silent /\ frames # <<>> /\ IsProgram(prog)
  BY DEF Underway, Ready, Track, OnTrack, Silent
<1>2. Position = <<k, i>>
  BY <1>1, StatementAtAddress DEF Position
<1>3. Outcome = "running"
  BY <1>1 DEF Outcome
<1>4. OpenCalls = [n \in 1..(Len(frames) - 1) |-> StatementAt(frames[n + 1])]
  BY <1>1 DEF OpenCalls
<1>5. <<k, i>> # <<0, 0>>
  BY DEF On
<1> QED
  BY <1>2, <1>3, <1>4, <1>5 DEF A!On, A!Nowhere, A!At

-----------------------------------------------------------------------------
(* A step of a run is a step of the document                               *)

(* A step of an image that was made, not of an older one.                  *)
Kept == prog' = prog /\ stage' = stage /\ stage # "stale"

(* The mapping and the addresses after a step.                             *)
LEMMA MappedAfter ==
  ASSUME Kept
  PROVE  /\ \A k, i : Address(k, i)' = Address(k, i)
         /\ Position' = StatementAt(IF Silent \/ status' = "ready" THEN First ELSE ip')
         /\ OpenCalls' = IF Silent \/ frames' = <<>> THEN <<>>
                         ELSE [n \in 1..(Len(frames') - 1) |-> StatementAt(frames'[n + 1])]
         /\ Outcome' = IF Silent \/ status' \in {"ready", "running"} THEN "running"
                       ELSE IF status' = "crashed" THEN "failed" ELSE status'
<1>1. prog' = prog /\ stage' = stage
  BY DEF Kept
<1>2. \A k, i : Address(k, i)' = Address(k, i)
  BY <1>1 DEF Address, Bases, Begins, Sums, Bytes
<1>3. Position' = StatementAt(IF Silent \/ status' = "ready" THEN First ELSE ip')
  BY <1>1 DEF Position, Silent, StatementAt, Statements, First, Address, Bases, Begins, Sums, Bytes
<1>4. OpenCalls' = IF Silent \/ frames' = <<>> THEN <<>>
                   ELSE [n \in 1..(Len(frames') - 1) |-> StatementAt(frames'[n + 1])]
  BY <1>1 DEF OpenCalls, Silent, StatementAt, Statements, Address, Bases, Begins, Sums, Bytes
<1>5. Outcome' = IF Silent \/ status' \in {"ready", "running"} THEN "running"
                 ELSE IF status' = "crashed" THEN "failed" ELSE status'
  BY <1>1 DEF Outcome, Silent
<1> QED
  BY <1>2, <1>3, <1>4, <1>5

(* A step after which every address leads to a statement again.            *)
LEMMA StaysOnTrack ==
  ASSUME Ready, Kept, status' = "running", frames' # <<>>,
         \A n \in 2..(Len(frames') + 1) :
           \E k, i : On(k, i, Append(frames', ip')[n]) /\ (n = 2 => prog[k].id = 0)
  PROVE  Track'
<1>1. prog' = prog /\ stage' = "loaded" /\ IsProgram(prog)'
  BY DEF Kept, Ready, IsProgram
<1>2. \A k, i : Address(k, i)' = Address(k, i)
  BY MappedAfter
<1>3. OnTrack'
  BY <1>1, <1>2 DEF OnTrack, On
<1> QED
  BY <1>1, <1>3 DEF Track

(* A step that ends the run where something may fail.                      *)
LEMMA FailureIsFail ==
  ASSUME Underway, Kept, NEW k, NEW i, On(k, i, ip), prog[k].body[i].op \in A!MayFail,
         NEW how \in SUBSET {"failed", "crashed"}, X!EndAs(how)
  PROVE  Track' /\ A!Next
<1>1. status' \in {"failed", "crashed"} /\ UNCHANGED <<ip, frames>>
  BY DEF X!EndAs
<1>2. prog' = prog /\ stage' = "loaded" /\ IsProgram(prog)' /\ prog # <<>>
  BY DEF Kept, Underway, Ready, IsProgram
<1>3. Track'
  BY <1>1, <1>2 DEF Track
<1>4. Position' = Position /\ OpenCalls' = OpenCalls /\ Outcome' = "failed"
  <2>1. status = "running"
    BY DEF Underway
  <2> QED
    BY <1>1, <1>2, <2>1, MappedAfter DEF Position, OpenCalls, Silent, Kept
<1>5. A!On(A!MayFail)
  BY There
<1>6. A!Fail
  BY <1>2, <1>4, <1>5 DEF A!Fail
<1> QED
  BY <1>3, <1>6 DEF A!Next

(* A step to another statement of the same procedure.                      *)
LEMMA MoveInBody ==
  ASSUME Underway, Kept, NEW k, NEW i, On(k, i, ip), NEW m \in 1..Len(prog[k].body),
         X!Goto(Address(k, m))
  PROVE  /\ Track'
         /\ A!Goto(A!From(k, m))
<1>1. ip' = Address(k, m) /\ UNCHANGED <<frames, status>>
  BY DEF X!Goto
<1>2. prog' = prog /\ IsProgram(prog) /\ prog # <<>> /\ Ready /\ status = "running"
  BY DEF Kept, Underway, Ready
<1>3. k \in 1..Len(prog)
  BY DEF On
<1>4. PICK j \in 1..Len(prog[k].body) : A!From(k, m) = <<k, j>> /\ On(k, j, ip')
  BY <1>1, <1>2, <1>3, FromIs
<1>5. frames \in Seq(Nat) /\ Len(frames) \in Nat \ {0} /\ ip \in Nat /\ ip' \in Nat
  BY <1>2, <1>4, Here, InCode
<1>6. Track'
  <2>1. ASSUME NEW n \in 2..(Len(frames) + 1)
        PROVE  \E l, o : On(l, o, Append(frames, ip')[n]) /\ (n = 2 => prog[l].id = 0)
    <3>1. PICK l, o : On(l, o, Append(frames, ip)[n]) /\ (n = 2 => prog[l].id = 0)
      BY <1>2 DEF Underway, Track, OnTrack, Ready
    <3>2. CASE n = Len(frames) + 1
      <4>1. Append(frames, ip)[n] = ip /\ Append(frames, ip')[n] = ip'
        BY <1>5, <3>2
      <4>2. StatementAt(ip) = <<l, o>> /\ StatementAt(ip) = <<k, i>>
        BY <1>2, <3>1, <4>1, StatementAtAddress
      <4>3. l = k
        BY <4>2
      <4> QED
        BY <1>4, <3>1, <4>1, <4>3
    <3>3. CASE n # Len(frames) + 1
      <4>1. n \in 1..Len(frames)
        BY <1>5, <3>3
      <4>2. Append(frames, ip)[n] = Append(frames, ip')[n]
        BY <1>5, <4>1
      <4> QED
        BY <3>1, <4>2
    <3> QED
      BY <3>2, <3>3
  <2>2. frames # <<>>
    BY <1>5
  <2> QED
    BY <1>1, <1>2, <2>1, <2>2, StaysOnTrack
<1>7. Position' = A!From(k, m)
  BY <1>1, <1>2, <1>4, MappedAfter, StatementAtAddress DEF Silent, Kept
<1>8. OpenCalls' = OpenCalls /\ Outcome' = Outcome
  BY <1>1, <1>2, MappedAfter DEF OpenCalls, Outcome, Silent, Kept
<1> QED
  BY <1>2, <1>6, <1>7, <1>8 DEF A!Goto

(* A statement that may go on does, to what follows it.                    *)
LEMMA GoingOnIsGo ==
  ASSUME Underway, Kept, X!Step \/ X!NotTaken
  PROVE  Track' /\ A!Next
<1>1. PICK k, i : On(k, i, ip)
  BY Here
<1> DEFINE op == prog[k].body[i].op
<1>2. X!Op = op /\ op \in Mnemonic /\ X!Behind = Address(k, i + 1) /\ IsProgram(prog)
  BY <1>1, Fetch DEF Underway, Ready
<1>3. op \in Mnemonic \ {"halt", "ret", "retval", "jmp", "call"} /\ X!Goto(X!Behind)
  BY <1>2, SameInstr DEF X!Step, X!NotTaken, X!At, X!Plain, X!Jumps, X!Stops, X!OnFlags, X!OnSlot
<1>4. i + 1 \in 1..Len(prog[k].body)
  BY <1>1, <1>2, <1>3, NotLast
<1>5. Track' /\ A!Goto(A!From(k, i + 1))
  BY <1>1, <1>2, <1>3, <1>4, MoveInBody
<1>6. Position = <<k, i>> /\ A!On(A!Mnemonic \ (A!Ends \cup {"jmp", "call"}))
  BY <1>1, <1>3, There, SameInstr DEF A!Ends
<1>7. A!Go
  BY <1>5, <1>6 DEF A!Go, A!Behind
<1> QED
  BY <1>5, <1>7 DEF A!Next

(* A jump that is taken goes to its label.                                 *)
LEMMA TakenIsJump ==
  ASSUME Underway, Kept, X!Taken
  PROVE  Track' /\ A!Next
<1>1. PICK k, i : On(k, i, ip)
  BY Here
<1> DEFINE op == prog[k].body[i].op
<1>2. X!Op = op /\ (X!Op \in Jumps => X!Target = Address(k, A!LabelAt(<<k, i>>))) /\ IsProgram(prog)
  BY <1>1, Fetch DEF Underway, Ready
<1>3. op \in Jumps /\ X!Goto(Address(k, A!LabelAt(<<k, i>>)))
  BY <1>2, SameInstr DEF X!Taken, X!At
<1>4. A!LabelAt(<<k, i>>) \in 1..Len(prog[k].body)
  BY <1>1, <1>2, <1>3, LabelIs
<1>5. Track' /\ A!Goto(A!From(k, A!LabelAt(<<k, i>>)))
  BY <1>1, <1>3, <1>4, MoveInBody
<1>6. Position = <<k, i>> /\ A!On(A!Jumps)
  BY <1>1, <1>3, There, SameInstr
<1>7. A!Jump
  BY <1>5, <1>6 DEF A!Jump, A!LabelOf
<1> QED
  BY <1>5, <1>7 DEF A!Next

(* No jump of a program is illegal.                                        *)
LEMMA NoIllegalJump ==
  ASSUME Underway, X!IllegalJump
  PROVE  FALSE
<1>1. PICK k, i : On(k, i, ip)
  BY Here
<1>2. X!Op = prog[k].body[i].op /\ (X!Op \in Jumps => X!Target = Address(k, A!LabelAt(<<k, i>>)))
      /\ IsProgram(prog) /\ k \in 1..Len(prog)
  BY <1>1, Fetch DEF Underway, Ready, On
<1>3. X!Op \in Jumps /\ X!Target \notin 0..(X!Count - 1)
  BY SameInstr DEF X!IllegalJump, X!At
<1>4. A!LabelAt(<<k, i>>) \in 1..Len(prog[k].body)
  BY <1>1, <1>2, <1>3, LabelIs
<1>5. PICK j : On(k, j, X!Target)
  BY <1>2, <1>3, <1>4, FromIs
<1>6. X!Target \in Nat /\ X!Target < X!Count /\ X!Count \in Nat
  BY <1>5, InCode DEF Underway
<1> QED
  BY <1>3, <1>6

(* The pointer never leaves the pool of a program, and never without frame. *)
LEMMA NoFault ==
  ASSUME Underway
  PROVE  ~X!Overrun /\ ~X!NullFrame
<1>1. PICK k, i : On(k, i, ip)
  BY Here
<1>2. X!InPool /\ X!Whole
  BY <1>1, Fetch DEF Underway
<1>3. X!HasFrame
  BY DEF X!HasFrame, Underway, Ready, Track, OnTrack
<1> QED
  BY <1>2, <1>3 DEF X!Overrun, X!NullFrame

(* What fails is something that may fail.                                  *)
LEMMA FailingIsFail ==
  ASSUME Underway, Kept,
         \/ X!Illegal \/ X!CastFails \/ X!TypeError \/ X!Trap \/ X!FallThrough
         \/ \E id \in 0..MaxId : X!CallFails(id)
  PROVE  Track' /\ A!Next
<1>1. PICK k, i : On(k, i, ip)
  BY Here
<1> DEFINE op == prog[k].body[i].op
<1>2. X!Op = op /\ op \in Mnemonic
  BY <1>1, Fetch DEF Underway
<1>3. "illegal" \notin Mnemonic
  BY DEF Mnemonic, Opcode
<1>4. op \in A!MayFail /\ \E how \in SUBSET {"failed", "crashed"} : X!EndAs(how)
  <2> HIDE DEF op
  <2>1. CASE X!Illegal
    BY <1>2, <1>3, <2>1 DEF X!Illegal, X!At, A!MayFail
  <2>2. CASE X!CastFails
    BY <1>2, <2>2 DEF X!CastFails, X!At, X!Casts, A!MayFail
  <2>3. CASE X!TypeError
    BY <1>2, <2>3 DEF X!TypeError, X!At, X!Checked, A!MayFail
  <2>4. CASE X!Trap
    BY <1>2, <2>4 DEF X!Trap, X!At, X!Divisions, A!MayFail
  <2>5. CASE X!FallThrough
    BY <1>2, <2>5 DEF X!FallThrough, X!At, X!FallsOn, X!Checked, A!MayFail
  <2>6. CASE \E id \in 0..MaxId : X!CallFails(id)
    BY <1>2, <2>6 DEF X!CallFails, X!At, A!MayFail
  <2> QED
    BY <2>1, <2>2, <2>3, <2>4, <2>5, <2>6
<1> QED
  BY <1>1, <1>4, FailureIsFail

(* halt halts.                                                             *)
LEMMA HaltIsHalt ==
  ASSUME Underway, Kept, X!Halt
  PROVE  Track' /\ A!Next
<1>1. PICK k, i : On(k, i, ip)
  BY Here
<1>2. prog[k].body[i].op = "halt"
  BY <1>1, Fetch DEF Underway, X!Halt, X!At
<1>3. status' = "halted" /\ UNCHANGED <<ip, frames>>
  BY DEF X!Halt, X!EndAs
<1>4. prog' = prog /\ stage' = "loaded" /\ IsProgram(prog)' /\ prog # <<>> /\ status = "running"
  BY DEF Kept, Underway, Ready, IsProgram
<1>5. Track'
  BY <1>3, <1>4 DEF Track
<1>6. Position' = Position /\ OpenCalls' = OpenCalls /\ Outcome' = "halted"
  BY <1>3, <1>4, MappedAfter DEF Position, OpenCalls, Silent, Kept
<1>7. A!On({"halt"})
  BY <1>1, <1>2, There
<1>8. A!Halt
  BY <1>4, <1>6, <1>7 DEF A!Halt
<1> QED
  BY <1>5, <1>8 DEF A!Next

-----------------------------------------------------------------------------
(* Calls and returns                                                       *)

Opened(f) == [n \in 1..(Len(f) - 1) |-> StatementAt(f[n + 1])]

(* One frame more is one open call more.                                   *)
LEMMA OpenedAppend ==
  ASSUME NEW f \in Seq(Nat), f # <<>>, NEW a \in Nat
  PROVE  Opened(Append(f, a)) = Append(Opened(f), StatementAt(a)) /\ Len(Opened(f)) = Len(f) - 1
<1> DEFINE n == Len(f)
           g == Append(f, a)
           V == {StatementAt(f[m + 1]) : m \in 1..(n - 1)}
           o == Opened(f)
<1>1. n \in Nat \ {0} /\ Len(g) = n + 1 /\ g[n + 1] = a /\ \A m \in 1..n : g[m] = f[m]
  OBVIOUS
<1>2. o \in [1..(n - 1) -> V] /\ n - 1 \in Nat
  BY <1>1 DEF Opened
<1>3. o \in Seq(V) /\ Len(o) = n - 1
  <2> HIDE DEF o, V, n
  <2> QED
    BY <1>2
<1>4. Append(o, StatementAt(a)) = [m \in 1..n |-> IF m = n THEN StatementAt(a) ELSE o[m]]
  <2> DEFINE e == StatementAt(a)
             W == V \cup {e}
             t == Append(o, e)
  <2>1. o \in Seq(W) /\ e \in W
    <3> HIDE DEF o, V, e
    <3> QED
      BY <1>3
  <2> HIDE DEF o, V, n, g, e, W
  <2>2. t \in Seq(W) /\ Len(t) = n /\ t[n] = e /\ \A m \in 1..(n - 1) : t[m] = o[m]
    BY <1>1, <1>3, <2>1
  <2> HIDE DEF t
  <2>3. t \in [1..n -> W]
    BY <2>2
  <2>4. \A m \in 1..n : t[m] = IF m = n THEN e ELSE o[m]
    <3>1. \A m \in 1..n : m # n => m \in 1..(n - 1)
      BY <1>1
    <3> QED
      BY <2>2, <3>1
  <2>5. t = [m \in 1..n |-> IF m = n THEN e ELSE o[m]]
    BY <2>3, <2>4
  <2> QED
    BY <2>5 DEF t, e
<1>5. Opened(g) = [m \in 1..n |-> StatementAt(g[m + 1])]
  BY <1>1 DEF Opened
<1>6. \A m \in 1..n : StatementAt(g[m + 1]) = IF m = n THEN StatementAt(a) ELSE o[m]
  <2> SUFFICES ASSUME NEW m \in 1..n
               PROVE  StatementAt(g[m + 1]) = IF m = n THEN StatementAt(a) ELSE o[m]
    OBVIOUS
  <2>1. CASE m = n
    BY <1>1, <2>1
  <2>2. CASE m # n
    <3>1. m \in 1..(n - 1) /\ m + 1 \in 1..n
      BY <1>1, <2>2
    <3>2. g[m + 1] = f[m + 1] /\ o[m] = StatementAt(f[m + 1])
      BY <1>1, <3>1 DEF Opened
    <3> QED
      BY <2>2, <3>2
  <2> QED
    BY <2>1, <2>2
<1> HIDE DEF g, o, n, V
<1>7. Opened(g) = Append(o, StatementAt(a))
  BY <1>4, <1>5, <1>6
<1> QED
  BY <1>3, <1>7 DEF g, o, n

(* One frame fewer is one open call fewer, and the last return address is  *)
(* that of the last open call.                                             *)
LEMMA OpenedFront ==
  ASSUME NEW f \in Seq(Nat), Len(f) > 1
  PROVE  /\ Opened(f) # <<>>
         /\ A!Last(Opened(f)) = StatementAt(f[Len(f)])
         /\ A!Front(Opened(f)) = Opened(SubSeq(f, 1, Len(f) - 1))
<1> DEFINE n == Len(f)
           g == SubSeq(f, 1, n - 1)
           V == {StatementAt(f[m + 1]) : m \in 1..(n - 1)}
           o == Opened(f)
<1>1. n \in Nat /\ n > 1 /\ n - 1 \in Nat /\ n - 2 \in Nat /\ n - 1 + 1 = n /\ n - 1 - 1 = n - 2
  OBVIOUS
<1>2. o \in [1..(n - 1) -> V]
  BY <1>1 DEF Opened
<1>3. o \in Seq(V) /\ Len(o) = n - 1
  <2> HIDE DEF o, V, n
  <2> QED
    BY <1>1, <1>2
<1>4. g \in Seq(Nat) /\ Len(g) = n - 1 /\ \A m \in 1..(n - 1) : g[m] = f[m]
  <2>1. n - 1 <= n
    BY <1>1
  <2> QED
    BY <1>1, <2>1
<1>5. o # <<>>
  <2> HIDE DEF o, V, n
  <2> QED
    BY <1>1, <1>3
<1>6. A!Last(o) = StatementAt(f[n])
  <2>1. A!Last(o) = o[n - 1]
    BY <1>3 DEF A!Last
  <2>2. n - 1 \in 1..(n - 1)
    BY <1>1
  <2>3. o[n - 1] = StatementAt(f[n - 1 + 1])
    BY <2>2 DEF Opened
  <2> QED
    BY <1>1, <2>1, <2>3
<1>7. A!Front(o) = [m \in 1..(n - 2) |-> o[m]]
  <2>1. A!Front(o) = SubSeq(o, 1, n - 2)
    BY <1>1, <1>3 DEF A!Front
  <2>2. n - 2 - 1 + 1 = n - 2 /\ \A m \in 1..(n - 2) : 1 + m - 1 = m
    BY <1>1
  <2> HIDE DEF o, V, n
  <2>3. SubSeq(o, 1, n - 2) = [m \in 1..(n - 2) |-> o[m]]
    BY <1>1, <1>3, <2>2
  <2> QED
    BY <2>1, <2>3
<1>8. Opened(g) = [m \in 1..(n - 2) |-> StatementAt(g[m + 1])]
  BY <1>1, <1>4 DEF Opened
<1>9. \A m \in 1..(n - 2) : StatementAt(g[m + 1]) = o[m]
  <2> SUFFICES ASSUME NEW m \in 1..(n - 2)
               PROVE  StatementAt(g[m + 1]) = o[m]
    OBVIOUS
  <2>1. m \in 1..(n - 1) /\ m + 1 \in 1..(n - 1)
    BY <1>1
  <2>2. g[m + 1] = f[m + 1]
    BY <1>4, <2>1
  <2>3. o[m] = StatementAt(f[m + 1])
    BY <2>1 DEF Opened
  <2> QED
    BY <2>2, <2>3
<1> HIDE DEF g, o, n, V
<1>10. A!Front(o) = Opened(g)
  BY <1>7, <1>8, <1>9
<1> QED
  BY <1>5, <1>6, <1>10 DEF g, o, n

(* The document's view of a frame stack is that of its return addresses.   *)
LEMMA CallsAre ==
  ASSUME Underway, Kept
  PROVE  /\ OpenCalls = Opened(frames) /\ prog # <<>>
         /\ frames' # <<>> => OpenCalls' = Opened(frames')
<1>1. prog # <<>> /\ frames # <<>>
  BY DEF Underway, Ready, Track, OnTrack
<1> QED
  BY <1>1, MappedAfter DEF OpenCalls, Opened, Silent, Kept

(* Entering procedure 0 is where the document begins.                      *)
LEMMA EnterIsStutter ==
  ASSUME Ready, Track, Kept, X!Enter \/ X!EnterFails
  PROVE  Track' /\ UNCHANGED A!vars
<1>1. IsProgram(prog) /\ prog # <<>> /\ status = "ready" /\ frames = <<>>
  BY DEF Ready, Track, X!Enter, X!EnterFails
<1>2. PICK k \in 1..Len(prog) : prog[k].id = 0
  BY <1>1 DEF IsProgram
<1>3. Len(image.table) = Len(prog) /\ Len(prog) \in Nat /\ image.table[1].address = Address(k, 1)
  <2>1. image.table[prog[k].id + 1].address = Address(k, 1)
    BY LoadedProgram
  <2>2. prog[k].id + 1 = 1
    BY <1>2
  <2> QED
    BY <2>1, <2>2, LoadedProgram
<1>4. X!Enter
  <2>1. Len(image.table) # 0
    BY <1>2, <1>3
  <2> QED
    BY <2>1 DEF X!EnterFails
<1>5. First = Address(k, 1)
  <2>1. \A l \in 1..Len(prog) : prog[l].id = 0 => l = k
    BY <1>1, <1>2 DEF IsProgram
  <2>2. (CHOOSE l \in 1..Len(prog) : prog[l].id = 0) = k
    BY <1>2, <2>1
  <2> QED
    BY <1>2, <2>2 DEF First
<1>6. ip' = Address(k, 1) /\ frames' = <<0>> /\ status' = "running" /\ frames' # <<>>
  BY <1>3, <1>4 DEF X!Enter, X!Junk
<1>7. 1 \in 1..Len(prog[k].body)
  <2>1. Len(prog[k].body) \in Nat \ {0}
    BY <1>1, BodyIs
  <2> QED
    BY <2>1
<1>8. PICK j : On(k, j, Address(k, 1))
  BY <1>1, <1>7, FromIs
<1>9. Track'
  <2>1. ASSUME NEW n \in 2..(Len(frames') + 1)
        PROVE  \E l, i : On(l, i, Append(frames', ip')[n]) /\ (n = 2 => prog[l].id = 0)
    <3>1. Len(frames') = 1 /\ frames' \in Seq(Nat) /\ ip' \in Nat
      BY <1>6, <1>8, InCode
    <3>2. n = 2
      BY <3>1
    <3>3. Append(frames', ip')[Len(frames') + 1] = ip'
      <4>1. \A s \in Seq(Nat), a \in Nat : Append(s, a)[Len(s) + 1] = a
        BY SMTT(30)
      <4> QED
        BY <3>1, <4>1
    <3>4. Append(frames', ip')[n] = ip'
      BY <3>1, <3>3
    <3> QED
      BY <1>2, <1>6, <1>8, <3>4
  <2> QED
    BY <1>6, <2>1, StaysOnTrack
<1>10. Position' = Position
  BY <1>1, <1>5, <1>6, MappedAfter DEF Position, Silent, Kept
<1>11. OpenCalls' = <<>> /\ OpenCalls = <<>>
  <2>1. OpenCalls = <<>>
    BY <1>1 DEF OpenCalls
  <2>2. OpenCalls' = [n \in 1..(1 - 1) |-> StatementAt(frames'[n + 1])]
    <3>1. Len(frames') = 1
      BY <1>6
    <3> QED
      BY <1>1, <1>6, <3>1, MappedAfter
  <2>3. 1..(1 - 1) = {}
    OBVIOUS
  <2> QED
    BY <2>1, <2>2, <2>3
<1>12. Outcome' = Outcome
  BY <1>1, <1>6, MappedAfter DEF Outcome, Silent, Kept
<1> QED
  BY <1>9, <1>10, <1>11, <1>12 DEF A!vars, Kept

(* A call that is made goes where the document says and comes back there.  *)
LEMMA CallIsCall ==
  ASSUME Underway, Kept, NEW id \in 0..MaxId, X!Call(id)
  PROVE  Track' /\ A!Next
<1>1. PICK k, i : On(k, i, ip)
  BY Here
<1>2. /\ IsProgram(prog) /\ Ready /\ k \in 1..Len(prog) /\ status = "running"
      /\ prog[k].body[i].op = "call" /\ X!Behind = Address(k, i + 1)
  BY <1>1, Fetch DEF Underway, Ready, On, X!Call, X!At
<1>3. i + 1 \in 1..Len(prog[k].body)
  BY <1>1, <1>2, NotLast
<1>4. /\ frames' = Append(frames, Address(k, i + 1)) /\ ip' = image.table[id + 1].address
      /\ status' = status /\ Len(frames) < MaxCalls /\ id < Len(image.table)
  BY <1>2 DEF X!Call, X!Callable
<1>5. frames \in Seq(Nat) /\ Len(frames) \in Nat \ {0} /\ ip \in Nat /\ Address(k, i + 1) \in Nat
  BY <1>1, <1>2, Here, InCode
<1>6. PICK l \in 1..Len(prog) : prog[l].id = id
  <2>1. Len(image.table) = Len(prog) /\ Len(prog) \in Nat
    BY <1>2, LoadedProgram
  <2>2. id \in 0..(Len(prog) - 1)
    BY <1>4, <2>1
  <2> QED
    BY <1>2, <2>2, LoadedProgram
<1>7. ip' = Address(l, 1)
  BY <1>2, <1>4, <1>6, LoadedProgram
<1>8. 1 \in 1..Len(prog[l].body)
  <2>1. Len(prog[l].body) \in Nat \ {0}
    BY <1>2, <1>6, BodyIs
  <2> QED
    BY <2>1
<1>9. PICK j : On(k, j, Address(k, i + 1))
  BY <1>2, <1>3, FromIs
<1>10. PICK m : On(l, m, ip')
  BY <1>2, <1>7, <1>8, FromIs
<1>11. Len(frames') = Len(frames) + 1 /\ frames' \in Seq(Nat) /\ frames' # <<>> /\ ip' \in Nat
  <2>1. ip' \in Nat
    BY <1>2, <1>10, InCode
  <2> QED
    BY <1>4, <1>5, <2>1
<1>12. Track'
  <2>1. ASSUME NEW n \in 2..(Len(frames') + 1)
        PROVE  \E p, o : On(p, o, Append(frames', ip')[n]) /\ (n = 2 => prog[p].id = 0)
    <3>1. CASE n = Len(frames) + 2
      <4>1. Append(frames', ip')[n] = ip' /\ n # 2
        BY <1>5, <1>11, <3>1
      <4> QED
        BY <1>10, <4>1
    <3>2. CASE n = Len(frames) + 1
      <4>1. Append(frames', ip')[n] = Address(k, i + 1) /\ Append(frames, ip)[n] = ip
            /\ n \in 2..(Len(frames) + 1)
        BY <1>4, <1>5, <1>11, <3>2
      <4>2. PICK p, o : On(p, o, ip) /\ (n = 2 => prog[p].id = 0)
        BY <4>1 DEF Underway, Track, OnTrack, Ready
      <4>3. StatementAt(ip) = <<p, o>> /\ StatementAt(ip) = <<k, i>>
        BY <1>1, <1>2, <4>2, StatementAtAddress
      <4>4. p = k
        BY <4>3
      <4> QED
        BY <1>9, <4>1, <4>2, <4>4
    <3>3. CASE n < Len(frames) + 1
      <4>1. n \in 1..Len(frames) /\ n \in 2..(Len(frames) + 1) /\ n \in 1..Len(frames')
        BY <1>5, <1>11, <3>3
      <4>2. Append(frames, ip)[n] = frames[n] /\ frames'[n] = frames[n]
        BY <1>4, <1>5, <4>1
      <4>3. Append(frames', ip')[n] = Append(frames, ip)[n]
        BY <1>11, <4>1, <4>2
      <4>4. \E p, o : On(p, o, Append(frames, ip)[n]) /\ (n = 2 => prog[p].id = 0)
        BY <4>1 DEF Underway, Track, OnTrack, Ready
      <4> QED
        BY <4>3, <4>4
    <3> QED
      BY <1>5, <1>11, <3>1, <3>2, <3>3
  <2> QED
    BY <1>2, <1>4, <1>11, <2>1, StaysOnTrack
<1>13. Position' = A!Entry(id)
  <2>1. Position' = A!From(l, 1)
    <3>1. Position' = StatementAt(Address(l, 1))
      BY <1>2, <1>4, <1>7, MappedAfter DEF Silent, Kept, IsProgram
    <3> QED
      BY <1>2, <1>6, <1>8, <3>1, AtIsFrom
  <2>2. \A p \in 1..Len(prog) : prog[p].id = id => p = l
    BY <1>2, <1>6 DEF IsProgram
  <2>3. (CHOOSE p \in 1..Len(prog) : prog[p].id = id) = l
    BY <1>6, <2>2
  <2> QED
    BY <2>1, <2>3 DEF A!Entry
<1>14. Position = <<k, i>> /\ A!On({"call"}) /\ Outcome' = Outcome
  <2>1. Outcome' = Outcome
    BY <1>4, MappedAfter DEF Outcome, Silent, Kept
  <2> QED
    BY <1>1, <1>2, <2>1, There
<1>15. OpenCalls' = Append(OpenCalls, A!Behind(Position)) /\ Len(OpenCalls) = Len(frames) - 1
  <2>1. OpenCalls = Opened(frames) /\ OpenCalls' = Opened(Append(frames, Address(k, i + 1)))
    BY <1>4, <1>11, CallsAre
  <2>2. /\ OpenCalls' = Append(OpenCalls, StatementAt(Address(k, i + 1)))
        /\ Len(OpenCalls) = Len(frames) - 1
    <3>1. frames # <<>>
      BY <1>5
    <3> QED
      BY <1>5, <2>1, <3>1, OpenedAppend
  <2>3. A!Behind(Position) = A!From(k, i + 1)
    BY <1>14 DEF A!Behind
  <2> QED
    BY <1>2, <1>3, <2>2, <2>3, AtIsFrom
<1>16. A!Call(id)
  <2>1. Len(OpenCalls) + 1 < MaxCalls
    BY <1>4, <1>5, <1>15
  <2> QED
    BY <1>13, <1>14, <1>15, <2>1 DEF A!Call, Kept
<1>17. id \in A!Ids
  BY <1>6 DEF A!Ids
<1> QED
  BY <1>12, <1>16, <1>17 DEF A!Next

(* A return goes on behind the call.                                       *)
LEMMA ReturnIsReturn ==
  ASSUME Underway, Kept, X!Return
  PROVE  Track' /\ A!Next
<1>1. PICK k, i : On(k, i, ip) /\ (Len(frames) = 1 => prog[k].id = 0)
  BY Here
<1>2. /\ IsProgram(prog) /\ Ready /\ k \in 1..Len(prog) /\ i \in 1..Len(prog[k].body)
      /\ status = "running" /\ prog[k].body[i].op \in {"ret", "retval"}
  BY <1>1, Fetch DEF Underway, Ready, On, X!Return, X!At
<1>3. frames \in Seq(Nat) /\ Len(frames) \in Nat \ {0} /\ ip \in Nat
  BY Here
<1>4. Len(frames) > 1
  <2>1. prog[k].id # 0
    BY <1>2 DEF IsProgram
  <2>2. Len(frames) # 1
    BY <1>1, <2>1
  <2>3. \A m \in Nat : m # 0 /\ m # 1 => m > 1
    OBVIOUS
  <2>4. Len(frames) \in Nat /\ Len(frames) # 0
    BY <1>3
  <2> QED
    BY <2>2, <2>3, <2>4
<1> DEFINE n == Len(frames)
<1>5. /\ ip' = frames[n] /\ frames' = SubSeq(frames, 1, n - 1) /\ status' = status
  <2>1. frames # <<>>
    BY <1>3
  <2> QED
    BY <1>4, <2>1 DEF X!Return, X!HasFrame, X!Last, X!Front
<1> HIDE DEF n
<1>6. n \in Nat /\ n > 1 /\ n - 1 \in Nat /\ n - 1 + 1 = n /\ n \in 1..n
  BY <1>3, <1>4 DEF n
<1>7. /\ frames' \in Seq(Nat) /\ Len(frames') = n - 1 /\ frames' # <<>> /\ ip' \in Nat
      /\ \A m \in 1..(n - 1) : frames'[m] = frames[m]
  <2>1. frames # <<>> /\ n - 1 <= n
    BY <1>3, <1>6
  <2>2. frames' \in Seq(Nat) /\ Len(frames') = n - 1
    BY <1>3, <1>5, <2>1, FrontIs DEF n
  <2>3. \A m \in 1..(n - 1) : frames'[m] = frames[m]
    BY <1>3, <1>5, <1>6, <2>1 DEF n
  <2>4. ip' \in Nat
    BY <1>3, <1>5, <1>6 DEF n
  <2> QED
    BY <1>6, <2>2, <2>3, <2>4
<1>8. Track'
  <2>1. ASSUME NEW m \in 2..(Len(frames') + 1)
        PROVE  \E p, o : On(p, o, Append(frames', ip')[m]) /\ (m = 2 => prog[p].id = 0)
    <3>1. m \in 2..n /\ m \in 2..(n + 1) /\ m \in 1..n
      BY <1>6, <1>7
    <3>2. Append(frames, ip)[m] = frames[m]
      BY <1>3, <3>1 DEF n
    <3>3. Append(frames', ip')[m] = frames[m]
      <4>1. CASE m = n
        BY <1>5, <1>6, <1>7, <4>1
      <4>2. CASE m # n
        <5>1. m \in 1..(n - 1)
          BY <1>6, <3>1, <4>2
        <5> QED
          BY <1>7, <5>1
      <4> QED
        BY <4>1, <4>2
    <3>4. \E p, o : On(p, o, Append(frames, ip)[m]) /\ (m = 2 => prog[p].id = 0)
      BY <3>1 DEF Underway, Track, OnTrack, Ready, n
    <3> QED
      BY <3>2, <3>3, <3>4
  <2> QED
    BY <1>2, <1>5, <1>7, <2>1, StaysOnTrack
<1>9. OpenCalls # <<>> /\ OpenCalls' = A!Front(OpenCalls) /\ A!Last(OpenCalls) = StatementAt(ip')
  <2>1. OpenCalls = Opened(frames) /\ OpenCalls' = Opened(SubSeq(frames, 1, Len(frames) - 1))
    BY <1>5, <1>7, CallsAre DEF n
  <2> QED
    BY <1>3, <1>4, <1>5, <2>1, OpenedFront DEF n
<1>10. Position' = StatementAt(ip') /\ Outcome' = Outcome
  <2>1. Outcome' = Outcome
    BY <1>5, MappedAfter DEF Outcome, Silent, Kept
  <2> QED
    BY <1>2, <1>5, <2>1, MappedAfter DEF Silent, Kept, IsProgram
<1>11. A!On({"ret", "retval"})
  BY <1>1, <1>2, There
<1>12. A!Return
  BY <1>9, <1>10, <1>11 DEF A!Return, Kept
<1> QED
  BY <1>8, <1>12 DEF A!Next

(* A step of the interpreter is a step of the document, or none.           *)
LEMMA ExecuteIsStep ==
  ASSUME Ready, Track, Kept, X!Next
  PROVE  Track' /\ [A!Next]_A!vars
<1>1. CASE X!Enter \/ X!EnterFails
  BY <1>1, EnterIsStutter
<1>2. CASE ~(X!Enter \/ X!EnterFails)
  <2>1. Underway
    <3>1. status = "running"
      BY <1>2 DEF X!Next, X!Overrun, X!NullFrame, X!Step, X!Illegal, X!CastFails, X!TypeError,
         X!Trap, X!FallThrough, X!Taken, X!IllegalJump, X!NotTaken, X!Call, X!CallFails,
         X!Return, X!Halt, X!At
    <3> QED
      BY <3>1 DEF Underway
  <2>2. CASE X!Overrun \/ X!NullFrame \/ X!IllegalJump
    BY <2>1, <2>2, NoFault, NoIllegalJump
  <2>3. CASE X!Step \/ X!NotTaken
    BY <2>1, <2>3, GoingOnIsGo
  <2>4. CASE X!Taken
    BY <2>1, <2>4, TakenIsJump
  <2>5. CASE \/ X!Illegal \/ X!CastFails \/ X!TypeError \/ X!Trap \/ X!FallThrough
             \/ \E id \in 0..MaxId : X!CallFails(id)
    BY <2>1, <2>5, FailingIsFail
  <2>6. ASSUME NEW id \in 0..MaxId, X!Call(id)
        PROVE  Track' /\ [A!Next]_A!vars
    BY <2>1, <2>6, CallIsCall
  <2>7. CASE X!Return
    BY <2>1, <2>7, ReturnIsReturn
  <2>8. CASE X!Halt
    BY <2>1, <2>8, HaltIsHalt
  <2> QED
    BY <1>2, <2>2, <2>3, <2>4, <2>5, <2>6, <2>7, <2>8 DEF X!Next
<1> QED
  BY <1>1, <1>2

(* Without a program there is nothing to follow.                           *)
LEMMA NothingToFollow ==
  ASSUME prog = <<>>
  PROVE  \A a : StatementAt(a) = <<0, 0>>
<1>1. Statements = {}
  <2>1. 1..Len(prog) = {}
    OBVIOUS
  <2> QED
    BY <2>1 DEF Statements
<1> QED
  BY <1>1 DEF StatementAt

(* While nothing of the program runs, the document stands still.           *)
LEMMA SilentStutters ==
  ASSUME Silent, Silent', prog' = prog
  PROVE  UNCHANGED A!vars
<1>1. Position = StatementAt(First) /\ Position' = StatementAt(First)'
  BY DEF Position
<1>2. StatementAt(First)' = StatementAt(First)
  BY DEF StatementAt, Statements, First, Address, Bases, Begins, Sums, Bytes
<1> QED
  BY <1>1, <1>2 DEF A!vars, OpenCalls, Outcome

(* What the document speaks of, before the run.                            *)
LEMMA BeforeTheRun ==
  /\ status = "ready" => Position = StatementAt(First) /\ Outcome = "running"
  /\ frames = <<>> => OpenCalls = <<>>
BY DEF Position, Outcome, OpenCalls

(* A step that moves no register moves nothing the document speaks of, nor *)
(* does finding an image to run.                                           *)
LEMMA NothingMoves ==
  ASSUME Track, prog' = prog, UNCHANGED executed,
         stage' = stage \/ (status = "ready" /\ frames = <<>>)
  PROVE  Track' /\ UNCHANGED A!vars
<1>1. prog' = prog /\ ip' = ip /\ frames' = frames /\ status' = status
  BY DEF executed
<1>2. Track'
  <2>1. (IsProgram(prog)' <=> IsProgram(prog)) /\ (OnTrack' <=> OnTrack)
    BY <1>1 DEF IsProgram, OnTrack, On, Address, Bases, Begins, Sums, Bytes
  <2> QED
    BY <1>1, <2>1 DEF Track
<1>3. CASE stage' = stage
  <2>1. Position' = Position /\ OpenCalls' = OpenCalls /\ Outcome' = Outcome
    BY <1>1, <1>3 DEF Position, OpenCalls, Outcome, Silent, StatementAt, Statements, First, Address,
       Bases, Begins, Sums, Bytes
  <2> QED
    BY <1>1, <1>2, <2>1 DEF A!vars
<1>4. CASE status = "ready" /\ frames = <<>>
  <2>1. Position' = StatementAt(First)' /\ OpenCalls' = <<>> /\ Outcome' = "running"
    BY <1>1, <1>4 DEF Position, OpenCalls, Outcome
  <2>2. StatementAt(First)' = StatementAt(First)
    BY <1>1 DEF StatementAt, Statements, First, Address, Bases, Begins, Sums, Bytes
  <2> QED
    BY <1>1, <1>2, <1>4, <2>1, <2>2, BeforeTheRun DEF A!vars
<1> QED
  BY <1>3, <1>4

(* The runtime never becomes ready again.                                  *)
LEMMA NotReadyAgain == ASSUME X!Next PROVE status' # "ready"
BY DEF X!Next, X!Enter, X!EnterFails, X!Overrun, X!NullFrame, X!Step, X!Illegal, X!CastFails,
       X!TypeError, X!Trap, X!FallThrough, X!Taken, X!IllegalJump, X!NotTaken, X!Call,
       X!CallFails, X!Return, X!Halt, X!At, X!Goto, X!EndAs

(* Every step of the program is a step of the document, or none.           *)
LEMMA StepIsStep ==
  ASSUME Inv, Assembled, Track, [Next]_vars
  PROVE  Track' /\ [A!Next]_A!vars
<1>1. CASE Tokenize \/ Resolve
  BY <1>1, NothingMoves DEF Tokenize, Resolve, executed, stored
<1>2. CASE Generate \/ Load
  <2>1. prog' = prog /\ UNCHANGED executed /\ stage \in {"none", "written", "kept"}
    BY <1>2 DEF Generate, Load, I!Overflow, I!Write, I!WriteFails, I!OpenFails, I!Load,
                I!LoadFails, I!LoadCrashes, I!InFile
  <2>2. CASE prog = <<>>
    <3>1. Track'
      BY <2>1, <2>2 DEF Track
    <3>2. Silent /\ Silent'
      BY <2>1, <2>2 DEF Silent
    <3> QED
      BY <2>1, <3>1, <3>2, SilentStutters
  <2>3. CASE prog # <<>>
    <3>1. status = "ready" /\ frames = <<>>
      BY <2>1, <2>3 DEF Track
    <3> QED
      BY <2>1, <3>1, NothingMoves
  <2> QED
    BY <2>2, <2>3
<1>3. CASE Execute
  <2>1. stage \in {"loaded", "stale"} /\ prog' = prog /\ stage' = stage /\ X!Next
    BY <1>3 DEF Execute
  <2>2. CASE prog # <<>> /\ stage = "loaded"
    <3>1. Ready /\ Kept
      BY <2>1, <2>2 DEF Ready, Track, Kept
    <3> QED
      BY <2>1, <3>1, ExecuteIsStep
  <2>3. CASE prog = <<>> \/ stage = "stale"
    <3>1. Silent /\ Silent'
      BY <2>1, <2>3 DEF Silent
    <3>2. Track'
      <4>1. IsProgram(prog)' <=> IsProgram(prog)
        BY <2>1 DEF IsProgram
      <4> QED
        BY <2>1, <2>3, <4>1, NotReadyAgain DEF Track
    <3> QED
      BY <2>1, <3>1, <3>2, SilentStutters
  <2> QED
    BY <2>1, <2>2, <2>3
<1>4. CASE UNCHANGED vars
  BY <1>4, NothingMoves DEF vars, executed, stored
<1> QED
  BY <1>1, <1>2, <1>3, <1>4 DEF Next, Assemble

(* At first the document is at the first statement of procedure 0, and so  *)
(* is the pointer that is to be.                                           *)
LEMMA FirstIsFirst == ASSUME Init PROVE Track /\ A!Init
<1>1. ip = 0 /\ frames = <<>> /\ status = "ready"
  BY DEF Init, X!Init, X!Junk
<1>2. prog = <<>> \/ IsProgram(prog)
  <2>1. PICK s \in Sources : prog = s.prog
    BY DEF Init
  <2>2. s.prog = <<>> \/ IsProgram(s.prog)
    BY ToolchainAssumption
  <2> QED
    BY <2>1, <2>2
<1>3. Track
  BY <1>1, <1>2 DEF Track
<1>4. OpenCalls = <<>> /\ Outcome = "running"
  BY <1>1 DEF OpenCalls, Outcome
<1>5. CASE prog = <<>>
  <2>1. Position = <<0, 0>>
    BY <1>5, NothingToFollow DEF Position
  <2>2. 0 \notin A!Ids
    <3>1. 1..Len(prog) = {}
      BY <1>5
    <3> QED
      BY <3>1 DEF A!Ids
  <2> QED
    BY <1>3, <1>4, <2>1, <2>2 DEF A!Init, A!Nowhere
<1>6. CASE prog # <<>>
  <2>1. IsProgram(prog)
    BY <1>2, <1>6
  <2>2. PICK k \in 1..Len(prog) : prog[k].id = 0
    BY <2>1 DEF IsProgram
  <2>3. (CHOOSE l \in 1..Len(prog) : prog[l].id = 0) = k
    <3>1. \A l \in 1..Len(prog) : prog[l].id = 0 => l = k
      BY <2>1, <2>2 DEF IsProgram
    <3> QED
      BY <2>2, <3>1
  <2>4. First = Address(k, 1)
    BY <2>2, <2>3 DEF First
  <2>5. A!Entry(0) = A!From(k, 1)
    BY <2>3 DEF A!Entry
  <2>6. 1 \in 1..Len(prog[k].body)
    <3>1. Len(prog[k].body) \in Nat \ {0}
      BY <2>1, BodyIs
    <3> QED
      BY <3>1
  <2>7. Position = A!Entry(0)
    BY <1>1, <2>1, <2>4, <2>5, <2>6, AtIsFrom DEF Position
  <2>8. 0 \in A!Ids
    BY <2>2 DEF A!Ids
  <2> QED
    BY <1>3, <1>4, <2>7, <2>8 DEF A!Init
<1> QED
  BY <1>5, <1>6

(* A program that was assembled as Assembled says runs as its source says: *)
(* no jump, call or return goes anywhere else, no operand is taken for an  *)
(* opcode, and only what may fail fails.                                   *)
THEOREM RunsAsWritten == FairSpec /\ []Assembled => ImplementsSource
<1>1. Init => Track /\ A!Init
  BY FirstIsFirst
<1>2. Inv /\ Assembled /\ Track /\ [Next]_vars => Track' /\ [A!Next]_A!vars
  BY StepIsStep
<1> QED
  BY <1>1, <1>2, InvHolds, PTL DEF FairSpec, ImplementsSource, A!Spec

-----------------------------------------------------------------------------
(* From tokens to bytes                                                    *)

(* The operand bytes of an instruction are its slots and, if it is wide,   *)
(* four more.                                                              *)
LEMMA SlotsAre ==
  ASSUME NEW w \in Mnemonic
  PROVE  /\ Slots(w) \in Nat /\ w # "@"
         /\ OperandBytes(w) = Slots(w) + (IF w \in Wide THEN 4 ELSE 0)
<1>1. w # "@"
  BY DEF Mnemonic, Opcode
<1>2. OperandBytes(w) \in Nat
  BY DEF OperandBytes
<1>3. w \in Wide => OperandBytes(w) \in {4, 5}
  BY DEF Wide, Jumps, OnFlags, OnSlot, OperandBytes
<1> QED
  BY <1>1, <1>2, <1>3 DEF Slots

(* An opcode's byte names it.                                              *)
LEMMA HandlerOfOpcode == ASSUME NEW w \in Mnemonic PROVE Handler(Opcode[w]) = w
<1>1. \A v \in Mnemonic : Opcode[v] = Opcode[w] => v = w
  BY DEF Mnemonic, Opcode
<1> QED
  BY <1>1 DEF Handler

(* Four bytes hold every number of 32 bits.                                *)
LEMMA FourBytes ==
  ASSUME NEW n \in Int, n >= -2147483648, n <= 2147483647
  PROVE  Int4(Bytes4(n)) = n
<1> DEFINE m == n \div 256
           o == n \div 65536
           e == n \div 16777216
           a == n % 256
           b == m % 256
           d == o % 256
<1>1. m \in Int /\ o = m \div 256 /\ o \in Int /\ e = o \div 256 /\ e \in Int
  <2>1. \A k \in Int : k \div 256 \in Int
    BY SMT
  <2>2. \A k \in Int : k \div 65536 = (k \div 256) \div 256
    BY SMT
  <2>3. \A k \in Int : k \div 16777216 = (k \div 65536) \div 256
    BY SMT
  <2>4. m \in Int /\ o = m \div 256
    BY <2>1, <2>2, SMT
  <2>5. o \in Int
    BY <2>1, <2>4, SMT
  <2>6. e = o \div 256
    BY <2>3, SMT
  <2> QED
    BY <2>1, <2>4, <2>5, <2>6, SMT
<1>2. n = 256 * m + a /\ m = 256 * o + b /\ o = 256 * e + d /\ a \in Int /\ b \in Int /\ d \in Int
  <2>1. \A k, x, y \in Int : x = k \div 256 /\ y = k % 256 => k = 256 * x + y
    BY SMT
  <2>2. a \in Int /\ b \in Int /\ d \in Int
    BY <1>1, SMT
  <2>3. m = n \div 256 /\ a = n % 256 /\ b = m % 256 /\ d = o % 256
    BY SMT
  <2> HIDE DEF m, o, e, a, b, d
  <2> QED
    BY <1>1, <2>1, <2>2, <2>3, SMT
<1>3. (IF e % 256 >= 128 THEN (e % 256) - 256 ELSE e % 256) = e
  <2>1. \A k \in Int : k >= -2147483648 /\ k <= 2147483647 => k \div 16777216 \in -128..127
    BY SMT
  <2>2. \A k \in Int : k \in -128..127 => (IF k % 256 >= 128 THEN (k % 256) - 256 ELSE k % 256) = k
    BY SMT
  <2>3. e \in -128..127
    BY <2>1, SMT
  <2> HIDE DEF e
  <2> QED
    BY <1>1, <2>2, <2>3, SMT
<1> HIDE DEF a, b, d, e, m, o
<1>4. Bytes4(n) = <<a, b, d, e % 256>>
  BY SMT DEF Bytes4, a, b, d, e, m, o
<1>5. Int4(<<a, b, d, e % 256>>) = a + 256 * b + 65536 * d + 16777216 * e
  <2> DEFINE t == <<a, b, d, e % 256>>
  <2>1. t[1] = a /\ t[2] = b /\ t[3] = d /\ t[4] = e % 256
    BY SMT
  <2> HIDE DEF t
  <2>2. Int4(t) = a + 256 * b + 65536 * d + 16777216 * (IF e % 256 >= 128 THEN (e % 256) - 256 ELSE e % 256)
    BY <2>1, SMT DEF Int4
  <2> QED
    BY <1>3, <2>2, SMT DEF t
<1>6. n = a + 256 * b + 65536 * d + 16777216 * e
  <2>1. \A k, x, y, z, f, g, h \in Int :
          k = 256 * x + f /\ x = 256 * y + g /\ y = 256 * z + h
          => k = f + 256 * g + 65536 * h + 16777216 * z
    BY SMT
  <2> QED
    BY <1>1, <1>2, <2>1, SMT
<1> QED
  BY <1>4, <1>5, <1>6, SMT

(* The tokens of a body, and how many stand before each statement.         *)
LEMMA BeforeIs ==
  ASSUME IsProgram(prog), NEW k \in 1..Len(prog)
  PROVE  /\ Before(prog[k].body) \in [0..Len(prog[k].body) -> Nat]
         /\ Before(prog[k].body)[0] = 0
         /\ \A i \in 1..Len(prog[k].body) :
              /\ Lexemes(prog[k].body[i]) \in Nat
              /\ Before(prog[k].body)[i] = Before(prog[k].body)[i - 1] + Lexemes(prog[k].body[i])
<1> DEFINE body == prog[k].body
           N == Len(body)
           counts == [i \in 1..N |-> Lexemes(body[i])]
<1>1. N \in Nat /\ \A i \in 1..N : body[i].op \in Mnemonic \cup {"@"}
  BY BodyIs
<1>2. \A i \in 1..N : Lexemes(body[i]) \in Nat
  <2> SUFFICES ASSUME NEW i \in 1..N
               PROVE  Lexemes(body[i]) \in Nat
    OBVIOUS
  <2>1. body[i].op = "@" \/ Slots(body[i].op) \in Nat
    BY <1>1, SlotsAre
  <2> HIDE DEF body
  <2> QED
    BY <2>1 DEF Lexemes
<1> HIDE DEF body
<1>3. counts \in Seq(Nat) /\ Len(counts) = N /\ \A i \in 1..N : counts[i] = Lexemes(body[i])
  <2> HIDE DEF N
  <2> QED
    BY <1>1, <1>2
<1>4. Before(body) = Sums(counts)
  BY DEF Before
<1> HIDE DEF counts, N
<1>5. /\ Sums(counts) \in [0..N -> Nat] /\ Sums(counts)[0] = 0
      /\ \A i \in 1..N : Sums(counts)[i] = Sums(counts)[i - 1] + counts[i]
  BY <1>3, SumsAre
<1> QED
  BY <1>1, <1>2, <1>3, <1>4, <1>5 DEF body, N

(* Where the tokens of the procedures begin: each behind the one before.   *)
LEMMA StartsAre ==
  ASSUME IsProgram(prog)
  PROVE  /\ Starts \in [0..Len(prog) -> Nat] /\ Starts[0] = 0
         /\ \A k \in 1..Len(prog) :
              Starts[k] = Starts[k - 1] + (7 + Before(prog[k].body)[Len(prog[k].body)])
<1> DEFINE N == Len(prog)
           counts == [k \in 1..N |-> 7 + Before(prog[k].body)[Len(prog[k].body)]]
<1>1. N \in Nat
  BY DEF IsProgram
<1>2. ASSUME NEW k \in 1..N
      PROVE  7 + Before(prog[k].body)[Len(prog[k].body)] \in Nat
  <2>1. /\ Len(prog[k].body) \in Nat
        /\ Before(prog[k].body) \in [0..Len(prog[k].body) -> Nat]
    BY BodyIs, BeforeIs
  <2>2. Before(prog[k].body)[Len(prog[k].body)] \in Nat
    BY <2>1
  <2> QED
    BY <2>2
<1>3. /\ counts \in Seq(Nat) /\ Len(counts) = N
      /\ \A k \in 1..N : counts[k] = 7 + Before(prog[k].body)[Len(prog[k].body)]
  <2> HIDE DEF N
  <2> QED
    BY <1>1, <1>2
<1>4. Starts = Sums(counts)
  BY DEF Starts
<1> HIDE DEF counts, N
<1>5. /\ Sums(counts) \in [0..N -> Nat] /\ Sums(counts)[0] = 0
      /\ \A k \in 1..N : Sums(counts)[k] = Sums(counts)[k - 1] + counts[k]
  BY <1>3, SumsAre
<1> QED
  BY <1>1, <1>3, <1>4, <1>5 DEF N

(* The tokens of a statement end where those of the next begin; the last   *)
(* is followed by the brace that ends the procedure.                       *)
LEMMA PlaceStep ==
  ASSUME IsProgram(prog), NEW k \in 1..Len(prog)
  PROVE  /\ Starts[k - 1] \in Nat /\ Starts[k] \in Nat
         /\ Place(k, 1) = Starts[k - 1] + 6
         /\ Place(k, Len(prog[k].body) + 1) = Starts[k] - 1
         /\ \A i \in 1..Len(prog[k].body) :
              /\ Place(k, i) \in Nat
              /\ Place(k, i + 1) = Place(k, i) + Lexemes(prog[k].body[i])
<1> DEFINE n == Len(prog[k].body)
           b == Before(prog[k].body)
           p == Starts[k - 1]
           q == Starts[k]
<1>1. n \in Nat /\ b \in [0..n -> Nat] /\ b[0] = 0
  BY BodyIs, BeforeIs
<1>2. ASSUME NEW i \in 1..n
      PROVE  Lexemes(prog[k].body[i]) \in Nat /\ b[i] = b[i - 1] + Lexemes(prog[k].body[i])
  BY BeforeIs
<1>3. p \in Nat /\ q \in Nat /\ q = p + (7 + b[n])
  <2>1. /\ Starts \in [0..Len(prog) -> Nat] /\ Len(prog) \in Nat
        /\ Starts[k] = Starts[k - 1] + (7 + Before(prog[k].body)[Len(prog[k].body)])
    BY StartsAre, BasesAre
  <2>2. k \in 0..Len(prog) /\ k - 1 \in 0..Len(prog)
    BY <2>1
  <2> QED
    BY <2>1, <2>2
<1>4. \A i : Place(k, i) = p + 6 + b[i - 1]
  BY DEF Place
<1> HIDE DEF b, n, p, q
<1>5. Place(k, 1) = p + 6
  <2>1. 1 - 1 = 0
    OBVIOUS
  <2> QED
    BY <1>1, <1>3, <1>4, <2>1
<1>6. Place(k, n + 1) = q - 1
  <2>1. n + 1 - 1 = n /\ n \in 0..n /\ b[n] \in Nat
    BY <1>1
  <2>2. Place(k, n + 1) = p + 6 + b[n]
    BY <1>4, <2>1
  <2> QED
    BY <1>3, <2>1, <2>2
<1>7. ASSUME NEW i \in 1..n
      PROVE  Place(k, i) \in Nat /\ Place(k, i + 1) = Place(k, i) + Lexemes(prog[k].body[i])
  <2>1. i + 1 - 1 = i /\ i - 1 \in 0..n /\ b[i - 1] \in Nat
    BY <1>1
  <2>2. Place(k, i) = p + 6 + b[i - 1] /\ Place(k, i + 1) = p + 6 + b[i]
    BY <1>4, <2>1
  <2> QED
    BY <1>2, <1>3, <2>1, <2>2
<1> QED
  BY <1>3, <1>5, <1>6, <1>7 DEF n, p, q

(* Where a procedure's code begins and ends.                               *)
LEMMA AddressEnds ==
  ASSUME IsProgram(prog), NEW k \in 1..Len(prog)
  PROVE  /\ Address(k, 1) = Bases[k - 1] /\ Address(k, Len(prog[k].body) + 1) = Bases[k]
         /\ Bases[k - 1] \in Nat /\ Bases[k] \in Nat /\ Bases[0] = 0
<1> DEFINE n == Len(prog[k].body)
           b == Begins(prog[k].body)
<1>1. n \in Nat \ {0} /\ b \in [0..n -> Nat] /\ b[0] = 0
  BY BodyIs
<1>2. Bases[k] = Bases[k - 1] + b[n]
  BY BasesAre
<1>3. 1 \in 1..Len(prog[k].body)
  BY <1>1
<1>4. Bases[k - 1] \in Nat /\ Bases[k] \in Nat
  BY <1>3, AddressStep
<1>5. Bases[0] = 0
  BY BasesAre
<1>6. /\ Address(k, 1) = Bases[k - 1] + b[1 - 1]
      /\ Address(k, n + 1) = Bases[k - 1] + b[n + 1 - 1]
  BY DEF Address
<1> HIDE DEF b, n
<1>7. 1 - 1 = 0 /\ n + 1 - 1 = n
  BY <1>1
<1>8. Address(k, 1) = Bases[k - 1] /\ Address(k, n + 1) = Bases[k]
  BY <1>1, <1>2, <1>4, <1>6, <1>7
<1> QED
  BY <1>4, <1>5, <1>8 DEF n

(* The places and addresses of a program do not change.                    *)
LEMMA PlacesStay ==
  ASSUME prog' = prog
  PROVE  /\ Bases' = Bases /\ \A k, i : Address(k, i)' = Address(k, i)
         /\ Starts' = Starts /\ \A k, i : Place(k, i)' = Place(k, i)
         /\ \A s : A!LabelAt(s)' = A!LabelAt(s)
<1>1. Bases' = Bases
  BY DEF Bases, Begins, Sums, Bytes
<1>2. Starts' = Starts
  BY DEF Starts, Before, Sums, Lexemes
<1>3. \A k, i : Address(k, i)' = Address(k, i)
  BY <1>1 DEF Address, Begins, Sums, Bytes
<1>4. \A k, i : Place(k, i)' = Place(k, i)
  BY <1>2 DEF Place, Before, Sums, Lexemes
<1>5. \A s : A!LabelAt(s)' = A!LabelAt(s)
  BY DEF A!LabelAt, A!At
<1> QED
  BY <1>1, <1>2, <1>3, <1>4, <1>5

(* The code so far only grows.                                             *)
Grows == /\ prog' = prog
         /\ Len(instructions) \in Nat /\ Len(instructions)' \in Nat
         /\ Len(instructions) <= Len(instructions)'
         /\ \A m \in 1..Len(instructions) : instructions'[m] = instructions[m]

(* Four bytes of the code.                                                 *)
LEMMA FourOf ==
  ASSUME NEW f, NEW e \in Nat, e >= 4
  PROVE  /\ SubSeq(f, e - 3, e) = [i \in 1..4 |-> f[i + (e - 3) - 1]]
         /\ \A i \in 1..4 : i + (e - 3) - 1 \in (e - 3)..e
<1>1. e - (e - 3) + 1 = 4 /\ e - 3 \in Int
  OBVIOUS
<1> QED
  BY <1>1

(* What is coded stays coded.                                              *)
LEMMA CodedStays ==
  ASSUME IsProgram(prog), Grows,
         NEW k \in 1..Len(prog), NEW i \in 1..Len(prog[k].body), prog[k].body[i].op # "@",
         Address(k, i + 1) <= Len(instructions), Coded(k, i)
  PROVE  Coded(k, i)'
<1> DEFINE op == prog[k].body[i].op
           a == Address(k, i)
           e == Address(k, i + 1)
           L == Len(instructions)
           to == A!LabelAt(<<k, i>>)
<1>1. prog' = prog /\ a' = a /\ e' = e /\ to' = to /\ (\A j : Address(k, j)' = Address(k, j))
  BY PlacesStay DEF Grows
<1>2. a \in Nat /\ e = a + Bytes(prog[k].body[i]) /\ op \in Mnemonic
  BY AddressStep, BodyIs
<1>3. Bytes(prog[k].body[i]) = 1 + OperandBytes(op) /\ OperandBytes(op) \in Nat
  BY <1>2, SlotsAre DEF Bytes
<1>4. L \in Nat /\ \A m \in 1..L : instructions'[m] = instructions[m]
  BY DEF Grows
<1>5. instructions'[a + 1] = instructions[a + 1]
  <2>1. a + 1 \in 1..L
    BY <1>2, <1>3, <1>4
  <2> QED
    BY <1>4, <2>1
<1>6. op \in Jumps => SubSeq(instructions, e - 3, e)' = SubSeq(instructions, e - 3, e)
  <2> SUFFICES ASSUME op \in Jumps
               PROVE  SubSeq(instructions', e - 3, e) = SubSeq(instructions, e - 3, e)
    BY <1>1
  <2>1. OperandBytes(op) >= 4
    BY DEF OperandBytes, Jumps, OnFlags, OnSlot
  <2>2. e \in Nat /\ e >= 4 /\ e <= L
    BY <1>2, <1>3, <2>1
  <2> HIDE DEF e, L
  <2>3. (e - 3)..e \subseteq 1..L
    BY <1>4, <2>2
  <2> DEFINE f == instructions
             g == instructions'
  <2>4. \A m \in 1..4 : g[m + (e - 3) - 1] = f[m + (e - 3) - 1]
    BY <1>4, <2>2, <2>3, FourOf
  <2> HIDE DEF f, g
  <2>5. SubSeq(f, e - 3, e) = SubSeq(g, e - 3, e)
    BY <2>2, <2>4, FourOf
  <2> QED
    BY <2>5 DEF f, g
<1>7. Coded(k, i)' <=>
        /\ Handler(instructions'[a + 1]) = op
        /\ op \in Jumps => e + Int4(SubSeq(instructions, e - 3, e)') = Address(k, to)
  BY <1>1 DEF Coded
<1>8. Coded(k, i) <=>
        /\ Handler(instructions[a + 1]) = op
        /\ op \in Jumps => e + Int4(SubSeq(instructions, e - 3, e)) = Address(k, to)
  BY DEF Coded
<1> HIDE DEF a, e, op, to
<1> QED
  BY <1>5, <1>6, <1>7, <1>8

-----------------------------------------------------------------------------
(* The resolver follows the program                                        *)

(* The first n procedures are in the table and in the code.                *)
Listed(n) ==
  \A k \in 1..n :
    /\ procedures[k] = [id |-> prog[k].id, arg_count |-> prog[k].args, address |-> Address(k, 1)]
    /\ \A i \in 1..Len(prog[k].body) : prog[k].body[i].op # "@" => Coded(k, i)

Finished(n) == Len(procedures) = n /\ Listed(n)

(* So are the statements of procedure k before number i, and its labels    *)
(* are known; no jump waits for one.                                       *)
Emitted(k, i) == \A j \in 1..(i - 1) : prog[k].body[j].op # "@" => Coded(k, j)

Labelled(k, i) ==
  \A j \in 1..(i - 1) : prog[k].body[j].op = "@" =>
    <<prog[k].body[j].to>> \in DOMAIN labels /\ labels[<<prog[k].body[j].to>>] = Address(k, j)

Begun(k, i) ==
  /\ Finished(k - 1) /\ Emitted(k, i) /\ Labelled(k, i)
  /\ procedure = [id |-> prog[k].id, arg_count |-> prog[k].args, address |-> Address(k, 1)]
  /\ patches = <<>>

(* Where the resolver may be: before a procedure, in its head, before a    *)
(* statement or the brace, before operand n, behind the last, or at the    *)
(* end.                                                                    *)
AtProcedure(k) == next = Starts[k] /\ Len(instructions) = Bases[k] /\ Finished(k)
AtHead(k) == next = Starts[k - 1] + 1 /\ Len(instructions) = Bases[k - 1] /\ Finished(k - 1)
AtStatement(k, i) == next = Place(k, i) /\ Len(instructions) = Address(k, i) /\ Begun(k, i)
AtSlot(k, i, n) ==
  /\ next = Place(k, i) + 1 + 2 * n /\ Len(instructions) = Address(k, i) + 1 + n
  /\ Handler(instructions[Address(k, i) + 1]) = prog[k].body[i].op /\ Begun(k, i)
AtSemicolon(k, i) ==
  /\ next = Place(k, i + 1) - 1 /\ Len(instructions) = Address(k, i + 1)
  /\ Coded(k, i) /\ Begun(k, i)

Assembling ==
  mode = "done" /\ prog # <<>> =>
    \/ at = "top" /\ \E k \in 0..Len(prog) : AtProcedure(k)
    \/ at = "head" /\ \E k \in 1..Len(prog) : AtHead(k)
    \/ at = "body" /\ \E k \in 1..Len(prog) : \E i \in 1..(Len(prog[k].body) + 1) : AtStatement(k, i)
    \/ at = "operands" /\ \E k \in 1..Len(prog) : \E i \in 1..Len(prog[k].body) :
                            /\ prog[k].body[i].op # "@"
                            /\ (\E n \in 0..Slots(prog[k].body[i].op) : AtSlot(k, i, n)) \/ AtSemicolon(k, i)
    \/ at = "done" /\ Len(instructions) = Bases[Len(prog)] /\ Finished(Len(prog))

(* The resolver reads the tokens of a program whose jumps go back.         *)
Assembles == Inv /\ mode = "done" /\ prog # <<>> /\ IsProgram(prog) /\ Straight /\ Spelt

(* What is finished stays finished.                                        *)
LEMMA ListedStays ==
  ASSUME IsProgram(prog), Grows, NEW n \in 0..Len(prog), \A k \in 1..n : procedures'[k] = procedures[k],
         Bases[n] <= Len(instructions), Listed(n)
  PROVE  Listed(n)'
<1>2. ASSUME NEW k \in 1..n
      PROVE  /\ k \in 1..Len(prog) /\ Bases[k] <= Len(instructions)
             /\ \A i \in 1..Len(prog[k].body) : Address(k, i + 1) <= Len(instructions)
  <2>1. Len(prog) \in Nat /\ \A l, m \in 0..Len(prog) : l <= m => Bases[l] <= Bases[m]
    BY BasesAre
  <2>2. k \in 1..Len(prog) /\ k \in 0..Len(prog) /\ k <= n
    BY <2>1
  <2>3. Bases[k] <= Bases[n] /\ Bases[k] \in Nat /\ Bases[n] \in Nat
    BY <2>1, <2>2, BasesAre
  <2>4. Bases[k] <= Len(instructions) /\ Len(instructions) \in Nat
    BY <2>3 DEF Grows
  <2>5. ASSUME NEW i \in 1..Len(prog[k].body)
        PROVE  Address(k, i + 1) <= Len(instructions)
    <3>1. Address(k, i + 1) <= Bases[k] /\ Address(k, i + 1) \in Int
      <4>1. Bytes(prog[k].body[i]) \in Nat
        BY <2>2, BodyIs
      <4> QED
        BY <2>2, <4>1, AddressStep
    <3> QED
      BY <2>3, <2>4, <3>1
  <2> QED
    BY <2>2, <2>4, <2>5
<1>3. ASSUME NEW k \in 1..n
      PROVE  procedures'[k] = [id |-> prog'[k].id, arg_count |-> prog'[k].args, address |-> Address(k, 1)']
  BY PlacesStay DEF Listed, Grows
<1>4. ASSUME NEW k \in 1..n, NEW i \in 1..Len(prog[k].body), prog[k].body[i].op # "@"
      PROVE  Coded(k, i)'
  <2>1. Coded(k, i)
    BY <1>4 DEF Listed
  <2> QED
    BY <1>2, <1>4, <2>1, CodedStays
<1>5. \A k \in 1..n : \A i \in 1..Len(prog'[k].body) : prog'[k].body[i].op # "@" => Coded(k, i)'
  BY <1>4 DEF Grows
<1> QED
  BY <1>3, <1>5 DEF Listed

LEMMA FinishedStays ==
  ASSUME IsProgram(prog), Grows, procedures' = procedures,
         NEW n \in 0..Len(prog), Bases[n] <= Len(instructions), Finished(n)
  PROVE  Finished(n)'
BY ListedStays DEF Finished

(* And what is begun stays as it is.                                       *)
LEMMA BegunStays ==
  ASSUME IsProgram(prog), Grows, UNCHANGED <<procedures, procedure, patches>>,
         NEW k \in 1..Len(prog), NEW i \in 1..(Len(prog[k].body) + 1),
         Address(k, i) <= Len(instructions), Begun(k, i), Labelled(k, i)'
  PROVE  Begun(k, i)'
<1>1. Len(prog[k].body) \in Nat /\ Len(prog) \in Nat /\ prog' = prog /\ Len(instructions) \in Nat
  BY BodyIs DEF Grows
<1>2. ASSUME NEW j \in 1..(i - 1)
      PROVE  /\ j \in 1..Len(prog[k].body)
             /\ Address(k, j + 1) <= Address(k, i) /\ Address(k, j + 1) \in Nat /\ Address(k, i) \in Nat
  <2> DEFINE n == Len(prog[k].body)
             b == Begins(prog[k].body)
  <2>1. /\ b \in [0..n -> Nat] /\ Bases[k - 1] \in Nat
        /\ \A l, m \in 0..n : l <= m => b[l] <= b[m]
    BY BodyIs, AddressEnds
  <2>2. Address(k, j + 1) = Bases[k - 1] + b[j + 1 - 1] /\ Address(k, i) = Bases[k - 1] + b[i - 1]
    BY DEF Address
  <2> HIDE DEF n, b
  <2>3. n = Len(prog[k].body)
    BY DEF n
  <2>4. j \in 1..n /\ j + 1 - 1 = j /\ j \in 0..n /\ i - 1 \in 0..n /\ j <= i - 1
    BY <1>1, <2>3
  <2>5. b[j] <= b[i - 1] /\ b[j] \in Nat /\ b[i - 1] \in Nat
    BY <2>1, <2>4
  <2> QED
    BY <2>1, <2>2, <2>3, <2>4, <2>5
<1>3. Finished(k - 1)'
  <2>1. k - 1 \in 0..Len(prog)
    BY <1>1
  <2>2. Bases[k - 1] <= Address(k, i) /\ Bases[k - 1] \in Nat /\ Address(k, i) \in Nat
    <3>1. CASE i = Len(prog[k].body) + 1
      <4>1. Bases[k - 1] <= Bases[k]
        <5>1. k \in 0..Len(prog) /\ k - 1 <= k
          BY <1>1
        <5> QED
          BY <2>1, <5>1, BasesAre
      <4>2. Address(k, i) = Bases[k]
        BY <3>1, AddressEnds
      <4> QED
        BY <4>1, <4>2, AddressEnds
    <3>2. CASE i # Len(prog[k].body) + 1
      <4>1. i \in 1..Len(prog[k].body)
        BY <1>1, <3>2
      <4> QED
        BY <4>1, AddressStep
    <3> QED
      BY <3>1, <3>2
  <2>3. Bases[k - 1] <= Len(instructions)
    BY <1>1, <2>2
  <2> QED
    BY <2>1, <2>3, FinishedStays DEF Begun
<1>4. procedure' = [id |-> prog'[k].id, arg_count |-> prog'[k].args, address |-> Address(k, 1)']
  BY <1>1, PlacesStay DEF Begun
<1>5. ASSUME NEW j \in 1..(i - 1), prog[k].body[j].op # "@"
      PROVE  Coded(k, j)'
  <2>1. Coded(k, j)
    BY <1>5 DEF Begun, Emitted
  <2>2. Address(k, j + 1) <= Len(instructions)
    <3>1. Address(k, j + 1) <= Address(k, i) /\ Address(k, j + 1) \in Nat /\ Address(k, i) \in Nat
      BY <1>2
    <3> QED
      BY <1>1, <3>1
  <2>3. j \in 1..Len(prog[k].body)
    BY <1>2
  <2> QED
    BY <1>5, <2>1, <2>2, <2>3, CodedStays
<1>6. Emitted(k, i)'
  BY <1>1, <1>5 DEF Emitted
<1> QED
  BY <1>3, <1>4, <1>6 DEF Begun

LEMMA LabelledStays ==
  ASSUME prog' = prog, labels' = labels, NEW k, NEW i, Labelled(k, i)
  PROVE  Labelled(k, i)'
BY PlacesStay DEF Labelled

(* A word, a number, a float and a sign are told apart.                    *)
LEMMA TokensDiffer ==
  ASSUME NEW i
  PROVE  /\ \A m : Mark(stream, i, m) => /\ R!IsType(i, "Symbol") /\ R!Text(i) = <<m>>
                                 /\ \A l : R!Is(i, l) => l = m
         /\ \A w : Word(stream, i, w) => /\ R!IsType(i, "Word") /\ R!Text(i) = <<w>>
                                 /\ \A m \in Marks : ~R!Is(i, m)
         /\ \A t, u : R!IsType(i, t) /\ R!IsType(i, u) => t = u
<1>1. \A l, m : <<l>> = <<m>> => l = m
  OBVIOUS
<1> QED
  BY <1>1 DEF Mark, Word, R!Is, R!IsType, R!Text

(* A sign is no number.                                                    *)
LEMMA NumeralIs == ASSUME NEW i, Numeral(stream, i) PROVE \A m \in Marks : ~R!Is(i, m)
<1>1. ASSUME NEW m \in Marks
      PROVE  R!Figures(<<m>>) = <<>>
  <2>1. m \notin R!ToSet(R!Digits)
    <3> DEFINE d == R!Digits
    <3>1. DOMAIN d = 1..10
      BY DEF R!Digits
    <3>2. \A j \in 1..10 : d[j] \in {"0", "1", "2", "3", "4", "5", "6", "7", "8", "9"}
      BY DEF R!Digits
    <3> HIDE DEF d
    <3>3. R!ToSet(d) \subseteq {"0", "1", "2", "3", "4", "5", "6", "7", "8", "9"}
      BY <3>1, <3>2 DEF R!ToSet
    <3>4. m \notin {"0", "1", "2", "3", "4", "5", "6", "7", "8", "9"}
      BY DEF Marks
    <3> QED
      BY <3>3, <3>4 DEF d
  <2> DEFINE t == <<m>>
             Fits(n) == /\ \A j \in 1..n : t[j] \in R!ToSet(R!Digits)
                        /\ n < Len(t) => t[n + 1] \notin R!ToSet(R!Digits)
  <2>2. Len(t) = 1 /\ t[1] = m
    OBVIOUS
  <2> HIDE DEF t
  <2>3. Fits(0)
    BY <2>1, <2>2
  <2>4. \A n \in 0..Len(t) : Fits(n) => n = 0
    BY <2>1, <2>2
  <2>5. (CHOOSE n \in 0..Len(t) : Fits(n)) = 0
    <3>1. 0 \in 0..Len(t)
      BY <2>2
    <3> HIDE DEF Fits
    <3> QED
      BY <2>3, <2>4, <3>1
  <2>6. R!Figures(t) = SubSeq(t, 1, CHOOSE n \in 0..Len(t) : Fits(n))
    BY DEF R!Figures
  <2>7. SubSeq(t, 1, 0) = <<>>
    OBVIOUS
  <2> QED
    BY <2>5, <2>6, <2>7 DEF t
<1> QED
  BY <1>1 DEF Numeral, R!Numeric, R!Is, R!Text

(* The loop the resolver is in decides what it may do next.                *)
LEMMA NextAt ==
  ASSUME R!Next
  PROVE  /\ at = "top" => R!Proc \/ R!End
         /\ at = "head" => R!ProcHead \/ R!ProcHeadThrows
         /\ at = "body" => R!Label \/ R!Instruction \/ R!UnknownInstruction \/ R!EndProcedure
         /\ at = "operands" => \/ R!EndInstruction \/ R!Slot \/ R!SlotThrows
                               \/ R!IntOperand \/ R!IntOperandThrows
                               \/ R!FloatOperand \/ R!FloatOperandThrows
                               \/ R!Backward \/ R!Forward
         /\ at # "done"
BY DEF R!Next, R!Proc, R!End, R!ProcHead, R!ProcHeadThrows, R!Label, R!Instruction,
       R!UnknownInstruction, R!EndProcedure, R!EndInstruction, R!Slot, R!SlotThrows,
       R!IntOperand, R!IntOperandThrows, R!FloatOperand, R!FloatOperandThrows, R!Backward,
       R!Forward, R!InBody, R!InOperands

(* A step of the resolver.                                                 *)
Follows == R!Next /\ prog' = prog /\ mode' = mode

(* What the code is made of.                                               *)
LEMMA CodeIs == ASSUME Assembles PROVE instructions \in Seq(RP!Byte) /\ Len(instructions) \in Nat
BY DEF Assembles, Inv, Passes, RP!Inv, RP!Code

(* Nothing is emitted.                                                     *)
LEMMA NothingEmitted ==
  ASSUME Assembles, Follows, instructions' = instructions
  PROVE  Grows
BY CodeIs DEF Follows, Grows

(* The tokens of a procedure.                                              *)
LEMMA ProcedureTokens ==
  ASSUME Assembles, NEW k \in 1..Len(prog), NEW i, i = Starts[k - 1]
  PROVE  /\ Word(stream, i, "proc") /\ Counts(stream, i + 1, prog[k].id)
         /\ Mark(stream, i + 2, "(") /\ Counts(stream, i + 3, prog[k].args) /\ Mark(stream, i + 4, ")")
         /\ Mark(stream, i + 5, "{") /\ Mark(stream, Starts[k] - 1, "}")
         /\ \A j \in 1..Len(prog[k].body) :
              IF prog[k].body[j].op = "@" THEN LabelSpelt(stream, prog[k].body[j], Place(k, j))
                                          ELSE StatementSpelt(stream, prog[k].body[j], Place(k, j))
<1>1. mode = "done" /\ prog # <<>> /\ Spelt
  BY DEF Assembles
<1> QED
  BY <1>1 DEF Spelt, Spells

(* Between procedures comes the next one or the end of the stream.         *)
LEMMA FollowsProcedure ==
  ASSUME Assembles, Follows, at = "top", NEW k \in 0..Len(prog), AtProcedure(k)
  PROVE  Assembling'
<1>1. IsProgram(prog) /\ Len(prog) \in Nat /\ prog' = prog
  BY BasesAre DEF Assembles, Follows
<1>2. R!Proc \/ R!End
  BY NextAt DEF Follows
<1>3. instructions' = instructions /\ procedures' = procedures
  BY <1>2 DEF R!Proc, R!End
<1>4. Grows
  BY <1>3, NothingEmitted
<1>5. Finished(k)' /\ Len(instructions)' = Bases[k]
  <2>1. Bases[k] <= Len(instructions)
    BY CodeIs DEF AtProcedure
  <2> QED
    BY <1>1, <1>3, <1>4, <2>1, FinishedStays DEF AtProcedure
<1>6. CASE k = Len(prog)
  <2>1. R!IsType(next, "EndOfFile")
    <3>1. Len(stream) = Starts[k] + 1 /\ Starts[k] \in Nat
      BY <1>1, <1>6, StartsAre DEF Assembles, Spelt, Spells
    <3>2. stream[Len(stream)].type = "EndOfFile"
      BY DEF Assembles, Inv, Passes, RP!Inv, RP!StreamOK
    <3> QED
      BY <3>1, <3>2 DEF AtProcedure, R!IsType
  <2>2. at' = "done"
    BY <1>2, <2>1 DEF R!Proc, R!End
  <2> QED
    BY <1>1, <1>5, <1>6, <2>2, PlacesStay DEF Assembling
<1>7. CASE k # Len(prog)
  <2> DEFINE l == k + 1
  <2>1. l \in 1..Len(prog) /\ l - 1 = k
    BY <1>1, <1>7
  <2> HIDE DEF l
  <2>2. Word(stream, next, "proc")
    BY <2>1, ProcedureTokens DEF AtProcedure
  <2>3. ~R!IsType(next, "EndOfFile")
    BY <2>2, TokensDiffer
  <2>4. at' = "head" /\ next' = next + 1
    BY <1>2, <2>3 DEF R!Proc, R!End
  <2>5. AtHead(l)'
    BY <1>1, <1>5, <2>1, <2>4, PlacesStay DEF AtHead, AtProcedure
  <2> QED
    BY <1>1, <2>1, <2>4, <2>5 DEF Assembling
<1> QED
  BY <1>6, <1>7

(* The head of a procedure is read whole.                                  *)
LEMMA FollowsHead ==
  ASSUME Assembles, Follows, at = "head", NEW k \in 1..Len(prog), AtHead(k)
  PROVE  Assembling'
<1> DEFINE i == Starts[k - 1]
<1>1. IsProgram(prog) /\ Len(prog) \in Nat /\ prog' = prog /\ Len(prog[k].body) \in Nat /\ k - 1 \in 0..Len(prog)
  BY BasesAre, BodyIs DEF Assembles, Follows
<1>2. /\ Counts(stream, i + 1, prog[k].id) /\ Mark(stream, i + 2, "(") /\ Counts(stream, i + 3, prog[k].args)
      /\ Mark(stream, i + 4, ")") /\ Mark(stream, i + 5, "{")
  BY ProcedureTokens
<1>3. i \in Nat /\ Place(k, 1) = i + 6 /\ next = i + 1
  BY <1>1, PlaceStep DEF AtHead
<1>4. R!ProcHead \/ R!ProcHeadThrows
  BY NextAt DEF Follows
<1> HIDE DEF i
<1>5. /\ R!IsType(i + 1, "Int") /\ R!Number(R!Text(i + 1)) = prog[k].id /\ R!Is(i + 2, "(")
      /\ R!IsType(i + 3, "Int") /\ R!Number(R!Text(i + 3)) = prog[k].args /\ R!Is(i + 4, ")") /\ R!Is(i + 5, "{")
      /\ prog[k].id <= UIntMax /\ prog[k].args <= UIntMax
  BY <1>2 DEF Counts, Mark, R!Is, R!IsType, R!Text
<1>6. /\ next + 1 = i + 2 /\ i + 2 + 1 = i + 3 /\ i + 3 + 1 = i + 4 /\ i + 4 + 1 = i + 5 /\ i + 5 + 1 = i + 6
      /\ next = i + 1
  BY <1>3
<1>7. /\ val' = R!Text(i + 3) /\ next' = i + 6
      /\ procedure' = [id |-> prog[k].id, arg_count |-> prog[k].args, address |-> R!size]
      /\ labels' = <<>> /\ patches' = <<>> /\ at' = "body"
      /\ instructions' = instructions /\ procedures' = procedures
  <2>1. R!CountText = R!Text(i + 3)
    <3>1. next + 2 = i + 3
      BY <1>3
    <3> QED
      BY <1>5, <1>6, <3>1 DEF R!CountText
  <2>2. \A n \in Nat : n <= UIntMax => n <= ULongMax /\ R!Narrow(n) = n
    <3>1. UIntMax \in Nat /\ ULongMax \in Nat /\ UIntMax <= ULongMax
      BY ToolchainAssumption
    <3>2. \A n, m \in Nat : n < m => n % m = n
      OBVIOUS
    <3> QED
      BY <3>1, <3>2 DEF R!Narrow
  <2>3. prog[k].id \in Nat /\ prog[k].args \in Nat
    BY <1>1, BodyIs
  <2>4. R!Countable(R!Text(next)) /\ R!Countable(R!CountText)
    BY <1>5, <1>6, <2>1, <2>2, <2>3 DEF R!Countable
  <2>5. R!ProcHead
    BY <1>4, <1>5, <1>6, <2>4 DEF R!ProcHeadThrows
  <2>6. R!Narrow(prog[k].id) = prog[k].id /\ R!Narrow(prog[k].args) = prog[k].args
    BY <1>5, <2>2, <2>3
  <2> QED
    BY <1>5, <1>6, <2>1, <2>5, <2>6 DEF R!ProcHead, R!Skip
<1>8. Grows
  BY <1>7, NothingEmitted
<1>9. Finished(k - 1)' /\ Len(instructions)' = Address(k, 1) /\ R!size = Address(k, 1)
  <2>1. Bases[k - 1] <= Len(instructions) /\ Address(k, 1) = Bases[k - 1]
    BY <1>1, CodeIs, AddressEnds DEF AtHead
  <2>2. Finished(k - 1)'
    BY <1>1, <1>7, <1>8, <2>1, FinishedStays DEF AtHead
  <2> QED
    BY <1>7, <2>1, <2>2 DEF AtHead, R!size
<1>10. AtStatement(k, 1)'
  <2>1. Emitted(k, 1)' /\ Labelled(k, 1)'
    BY DEF Emitted, Labelled
  <2>2. Address(k, 1)' = Address(k, 1) /\ Place(k, 1)' = Place(k, 1)
    BY <1>1, PlacesStay
  <2>3. procedure' = [id |-> prog[k].id, arg_count |-> prog[k].args, address |-> Address(k, 1)]
    BY <1>7, <1>9
  <2> QED
    BY <1>1, <1>3, <1>7, <1>9, <2>1, <2>2, <2>3 DEF AtStatement, Begun
<1> QED
  BY <1>1, <1>7, <1>10 DEF Assembling

(* The brace ends the procedure; nothing is patched.                       *)
LEMMA FollowsBrace ==
  ASSUME Assembles, Follows, at = "body", NEW k \in 1..Len(prog), AtStatement(k, Len(prog[k].body) + 1)
  PROVE  Assembling'
<1> DEFINE n == Len(prog[k].body)
<1>1. IsProgram(prog) /\ Len(prog) \in Nat /\ prog' = prog /\ n \in Nat
  BY BasesAre, BodyIs DEF Assembles, Follows
<1>2. /\ next = Starts[k] - 1 /\ Starts[k] \in Nat /\ Mark(stream, next, "}")
      /\ Len(instructions) = Bases[k] /\ Begun(k, n + 1)
  BY <1>1, ProcedureTokens, PlaceStep, AddressEnds DEF AtStatement
<1>3. /\ R!EndProcedure /\ ~R!IsType(next, "EndOfFile")
  <2>1. R!Is(next, "}") /\ ~R!IsType(next, "EndOfFile")
    BY <1>2, TokensDiffer DEF Mark, R!Is, R!Text
  <2> QED
    BY <2>1, NextAt DEF Follows, R!Label, R!Instruction, R!UnknownInstruction, R!InBody
<1>4. /\ next' = Starts[k] /\ procedures' = Append(procedures, procedure) /\ at' = "top"
      /\ instructions' = [m \in 1..Len(instructions) |-> R!Patched(m)]
  <2>1. next' = R!Skip(next, ~R!IsType(next, "EndOfFile"))
    BY <1>3 DEF R!EndProcedure
  <2>2. next + 1 = Starts[k]
    <3>1. \A m \in Nat : m - 1 + 1 = m
      OBVIOUS
    <3> QED
      BY <1>2, <3>1
  <2>3. next' = Starts[k]
    BY <1>3, <2>1, <2>2 DEF R!Skip
  <2> QED
    BY <1>3, <2>3 DEF R!EndProcedure, R!size
<1>5. instructions' = instructions
  <2>1. \A m \in 1..Len(instructions) : R!Patched(m) = instructions[m]
    <3>1. DOMAIN patches = {}
      <4>1. patches = <<>>
        BY <1>2 DEF Begun
      <4>2. DOMAIN <<>> = 1..0 /\ 1..0 = {}
        OBVIOUS
      <4> QED
        BY <4>1, <4>2
    <3> QED
      BY <3>1 DEF R!Patched
  <2>2. instructions \in Seq(RP!Byte)
    BY CodeIs
  <2>3. instructions = [m \in 1..Len(instructions) |-> instructions[m]]
    BY <2>2
  <2> QED
    BY <1>4, <2>1, <2>3
<1>6. Grows
  BY <1>5, NothingEmitted
<1>7. /\ procedures \in Seq(RP!Procedure) /\ Len(procedures) = k - 1 /\ procedure \in RP!Procedure
      /\ procedure = [id |-> prog[k].id, arg_count |-> prog[k].args, address |-> Address(k, 1)]
      /\ Listed(k - 1) /\ Emitted(k, n + 1)
  BY <1>2 DEF Begun, Finished, Assembles, Inv, Passes, RP!Inv, RP!Code, RP!Pending
<1>8. Len(procedures') = k /\ procedures'[k] = procedure /\ \A l \in 1..(k - 1) : procedures'[l] = procedures[l]
  BY <1>1, <1>4, <1>7
<1>9. Listed(k - 1)'
  <2>1. k - 1 \in 0..Len(prog) /\ k \in 0..Len(prog) /\ k - 1 <= k
    BY <1>1
  <2>2. Bases[k - 1] <= Bases[k]
    BY <1>1, <2>1, BasesAre
  <2> QED
    BY <1>1, <1>2, <1>6, <1>7, <1>8, <2>1, <2>2, ListedStays
<1>10. \A i \in 1..n : prog[k].body[i].op # "@" => Coded(k, i)'
  <2> SUFFICES ASSUME NEW i \in 1..n, prog[k].body[i].op # "@"
               PROVE  Coded(k, i)'
    OBVIOUS
  <2>1. i \in 1..(n + 1 - 1)
    BY <1>1
  <2>2. Coded(k, i)
    BY <1>7, <2>1 DEF Emitted
  <2>3. Address(k, i + 1) <= Len(instructions)
    BY <1>1, <1>2, AddressStep
  <2> QED
    BY <1>1, <1>6, <2>2, <2>3, CodedStays
<1>11. Listed(k)'
  <2> SUFFICES ASSUME NEW l \in 1..k
               PROVE  /\ procedures'[l] = [id |-> prog[l].id, arg_count |-> prog[l].args, address |-> Address(l, 1)]
                      /\ \A i \in 1..Len(prog[l].body) : prog[l].body[i].op # "@" => Coded(l, i)'
    BY <1>1, PlacesStay DEF Listed
  <2>1. CASE l = k
    BY <1>7, <1>8, <1>10, <2>1
  <2>2. CASE l # k
    <3>1. l \in 1..(k - 1)
      BY <1>1, <2>2
    <3> QED
      BY <1>1, <1>9, <3>1, PlacesStay DEF Listed
  <2> QED
    BY <2>1, <2>2
<1>12. AtProcedure(k)' /\ k \in 0..Len(prog)
  <2>1. Starts' = Starts /\ Bases' = Bases
    BY <1>1, PlacesStay
  <2>2. Finished(k)'
    BY <1>8, <1>11 DEF Finished
  <2>3. k \in 0..Len(prog)
    BY <1>1
  <2> QED
    BY <1>2, <1>4, <1>5, <2>1, <2>2, <2>3 DEF AtProcedure
<1> QED
  BY <1>1, <1>4, <1>12 DEF Assembling

(* The codes of the resolver.                                              *)
LEMMA SameCodes == R!Mnemonic = Mnemonic /\ R!Opcode = Opcode /\ \A n : R!Bytes4(n) = Bytes4(n)
BY DEF R!Mnemonic, Mnemonic, R!Opcode, Opcode, R!Bytes4, Bytes4

(* Bytes are added at the end.                                             *)
LEMMA BytesEmitted ==
  ASSUME Assembles, Follows, NEW bytes \in Seq(RP!Byte), instructions' = instructions \o bytes
  PROVE  /\ Grows /\ Len(instructions)' = Len(instructions) + Len(bytes)
         /\ \A m \in 1..Len(bytes) : instructions'[Len(instructions) + m] = bytes[m]
<1>1. instructions \in Seq(RP!Byte) /\ Len(instructions) \in Nat
  BY CodeIs
<1>2. \A f, g \in Seq(RP!Byte) :
        /\ Len(f \o g) = Len(f) + Len(g) /\ Len(f) \in Nat /\ Len(g) \in Nat
        /\ \A m \in 1..Len(f) : (f \o g)[m] = f[m]
        /\ \A m \in 1..Len(g) : (f \o g)[Len(f) + m] = g[m]
  OBVIOUS
<1> QED
  BY <1>1, <1>2 DEF Follows, Grows

LEMMA ByteEmitted ==
  ASSUME Assembles, Follows, NEW b \in RP!Byte, instructions' = Append(instructions, b)
  PROVE  /\ Grows /\ Len(instructions)' = Len(instructions) + 1
         /\ instructions'[Len(instructions) + 1] = b
<1>1. instructions \in Seq(RP!Byte) /\ Len(instructions) \in Nat
  BY CodeIs
<1>2. \A f \in Seq(RP!Byte) :
        /\ Len(Append(f, b)) = Len(f) + 1 /\ Len(f) \in Nat
        /\ \A m \in 1..Len(f) : Append(f, b)[m] = f[m]
        /\ Append(f, b)[Len(f) + 1] = b
  OBVIOUS
<1> QED
  BY <1>1, <1>2 DEF Follows, Grows

(* A label becomes known at the address of what follows it.                *)
LEMMA FollowsLabel ==
  ASSUME Assembles, Follows, at = "body", NEW k \in 1..Len(prog), NEW i \in 1..Len(prog[k].body),
         AtStatement(k, i), prog[k].body[i].op = "@"
  PROVE  Assembling'
<1> DEFINE s == prog[k].body[i]
           p == Place(k, i)
           n == Len(prog[k].body)
<1>1. IsProgram(prog) /\ prog' = prog /\ mode' = "done" /\ prog # <<>> /\ n \in Nat
  BY BodyIs DEF Assembles, Follows
<1>2. next = p /\ Len(instructions) = Address(k, i) /\ Begun(k, i) /\ p \in Nat /\ Place(k, i + 1) = p + 3
  BY <1>1, PlaceStep DEF AtStatement, Lexemes
<1>3. Address(k, i + 1) = Address(k, i) /\ Address(k, i) \in Nat
  <2>1. Address(k, i) \in Nat /\ Address(k, i + 1) = Address(k, i) + Bytes(prog[k].body[i])
    BY <1>1, AddressStep
  <2>2. Bytes(prog[k].body[i]) = 0
    BY DEF Bytes
  <2> QED
    BY <2>1, <2>2
<1>4. /\ Mark(stream, p, "@") /\ Word(stream, p + 1, s.to) /\ Mark(stream, p + 2, ";")
  <2>1. LabelSpelt(stream, s, p)
    BY ProcedureTokens
  <2> QED
    BY <2>1 DEF LabelSpelt
<1>5. R!Label
  <2>1. R!Is(next, "@") /\ ~R!Is(next, "}") /\ ~R!IsType(next, "EndOfFile")
    BY <1>2, <1>4, TokensDiffer DEF Mark, R!Is, R!Text
  <2>2. ~R!Instruction /\ ~R!UnknownInstruction
    BY <2>1 DEF R!Instruction, R!UnknownInstruction
  <2>3. ~R!EndProcedure
    BY <2>1 DEF R!EndProcedure
  <2> QED
    BY <2>2, <2>3, NextAt DEF Follows
<1> HIDE DEF s, p
<1>6. /\ labels' = R!With(labels, <<s.to>>, R!size) /\ next' = p + 3 /\ at' = "body"
      /\ instructions' = instructions /\ procedures' = procedures /\ procedure' = procedure /\ patches' = patches
  <2>1. R!IsType(p + 1, "Word") /\ R!Text(p + 1) = <<s.to>> /\ R!Is(p + 2, ";")
    BY <1>4, TokensDiffer DEF Mark, R!Is, R!Text
  <2>2. p + 1 + 1 = p + 2 /\ p + 2 + 1 = p + 3
    BY <1>2
  <2> QED
    BY <1>2, <1>5, <2>1, <2>2 DEF R!Label, R!Skip
<1>7. Grows
  BY <1>6, NothingEmitted
<1>8. /\ <<s.to>> \in DOMAIN labels' /\ labels'[<<s.to>>] = Address(k, i)
      /\ \A t \in DOMAIN labels : t # <<s.to>> => t \in DOMAIN labels' /\ labels'[t] = labels[t]
  BY <1>2, <1>6 DEF R!With, R!size
<1>9. Labelled(k, i + 1)'
  <2> SUFFICES ASSUME NEW j \in 1..i, prog[k].body[j].op = "@"
               PROVE  /\ <<prog[k].body[j].to>> \in DOMAIN labels'
                      /\ labels'[<<prog[k].body[j].to>>] = Address(k, j)
    <3>1. i + 1 - 1 = i
      BY <1>1
    <3> QED
      BY <1>1, <3>1, PlacesStay DEF Labelled
  <2>1. CASE j = i
    BY <1>8, <2>1 DEF s
  <2>2. CASE j # i
    <3>1. j \in 1..(i - 1) /\ j \in 1..n
      BY <1>1, <2>2
    <3>2. <<prog[k].body[j].to>> \in DOMAIN labels /\ labels[<<prog[k].body[j].to>>] = Address(k, j)
      BY <1>2, <3>1 DEF Begun, Labelled
    <3>3. prog[k].body[j].to # s.to
      <4>1. Backwards(prog)
        BY DEF Assembles, Straight
      <4> QED
        BY <2>2, <3>1, <4>1 DEF Backwards, s
    <3>4. <<prog[k].body[j].to>> # <<s.to>>
      BY <3>3
    <3> QED
      BY <1>8, <3>2, <3>4
  <2> QED
    BY <2>1, <2>2
<1>10. Begun(k, i)' /\ Emitted(k, i + 1)'
  <2>1. Labelled(k, i)'
    <3>1. \A j \in 1..(i - 1) : j \in 1..(i + 1 - 1)
      BY <1>1
    <3> QED
      BY <1>9, <3>1 DEF Labelled
  <2>2. i \in 1..(n + 1) /\ Address(k, i) <= Len(instructions)
    BY <1>1, <1>2, <1>3
  <2>3. Begun(k, i)'
    BY <1>1, <1>2, <1>6, <1>7, <2>1, <2>2, BegunStays
  <2>4. \A j \in 1..(i + 1 - 1) : j # i => j \in 1..(i - 1)
    BY <1>1
  <2>5. Emitted(k, i)'
    BY <2>3 DEF Begun
  <2>6. ASSUME NEW j \in 1..(i + 1 - 1), prog[k].body[j].op # "@"
        PROVE  Coded(k, j)'
    <3>1. j \in 1..(i - 1)
      BY <2>4, <2>6
    <3> QED
      BY <1>1, <2>5, <2>6, <3>1 DEF Emitted
  <2>7. Emitted(k, i + 1)'
    BY <1>1, <2>6 DEF Emitted
  <2> QED
    BY <2>3, <2>7
<1>11. AtStatement(k, i + 1)'
  <2>1. Place(k, i + 1)' = p + 3 /\ Address(k, i + 1)' = Address(k, i)
    BY <1>1, <1>2, <1>3, PlacesStay
  <2>2. Begun(k, i + 1)'
    BY <1>9, <1>10 DEF Begun
  <2> QED
    BY <1>2, <1>6, <2>1, <2>2 DEF AtStatement
<1>12. i + 1 \in 1..(Len(prog'[k].body) + 1) /\ k \in 1..Len(prog')
  BY <1>1
<1> QED
  BY <1>1, <1>6, <1>11, <1>12 DEF Assembling

(* An instruction begins with its opcode.                                  *)
LEMMA FollowsOpcode ==
  ASSUME Assembles, Follows, at = "body", NEW k \in 1..Len(prog), NEW i \in 1..Len(prog[k].body),
         AtStatement(k, i), prog[k].body[i].op # "@"
  PROVE  Assembling'
<1> DEFINE op == prog[k].body[i].op
           p == Place(k, i)
<1>1. IsProgram(prog) /\ prog' = prog /\ mode' = "done" /\ prog # <<>> /\ op \in Mnemonic /\ Len(prog[k].body) \in Nat
  BY BodyIs DEF Assembles, Follows
<1>2. /\ next = p /\ Len(instructions) = Address(k, i) /\ Begun(k, i) /\ p \in Nat /\ Address(k, i) \in Nat
      /\ Slots(op) \in Nat
  BY <1>1, PlaceStep, AddressStep, SlotsAre DEF AtStatement
<1>3. Word(stream, p, op)
  <2>1. StatementSpelt(stream, prog[k].body[i], p)
    BY ProcedureTokens
  <2> QED
    BY <2>1 DEF StatementSpelt
<1> HIDE DEF p
<1>4. /\ R!IsType(next, "Word") /\ R!Text(next) = <<op>> /\ ~R!Is(next, "@") /\ ~R!Is(next, "}")
      /\ ~R!IsType(next, "EndOfFile")
  BY <1>2, <1>3, TokensDiffer DEF Marks
<1>5. R!Known(next)
  <2>1. Len(<<op>>) = 1 /\ <<op>>[1] = op
    OBVIOUS
  <2> QED
    BY <1>1, <1>4, <2>1, SameCodes DEF R!Known
<1>6. R!Instruction
  BY <1>4, <1>5, NextAt DEF Follows, R!Label, R!UnknownInstruction, R!EndProcedure
<1>7. /\ instructions' = Append(instructions, Opcode[op]) /\ next' = p + 1 /\ at' = "operands"
      /\ procedures' = procedures /\ procedure' = procedure /\ labels' = labels /\ patches' = patches
  <2>1. <<op>>[1] = op
    OBVIOUS
  <2> QED
    BY <1>2, <1>4, <1>6, <2>1, SameCodes DEF R!Instruction
<1>8. Opcode[op] \in RP!Byte
  <2>1. RP!Opcode = Opcode /\ RP!Mnemonic = Mnemonic
    BY DEF RP!Opcode, Opcode, RP!Mnemonic, Mnemonic
  <2> QED
    BY <1>1, <2>1, RP!OpcodeIsByte
<1>9. Grows /\ Len(instructions)' = Address(k, i) + 1 /\ instructions'[Address(k, i) + 1] = Opcode[op]
  BY <1>2, <1>7, <1>8, ByteEmitted
<1>10. Begun(k, i)'
  <2>1. i \in 1..(Len(prog[k].body) + 1) /\ Address(k, i) <= Len(instructions)
    BY <1>1, <1>2
  <2>2. Labelled(k, i)'
    BY <1>1, <1>2, <1>7, LabelledStays DEF Begun
  <2> QED
    BY <1>1, <1>2, <1>7, <1>9, <2>1, <2>2, BegunStays
<1>11. AtSlot(k, i, 0)'
  <2>1. Place(k, i)' = p /\ Address(k, i)' = Address(k, i)
    BY <1>1, PlacesStay DEF p
  <2>2. p + 1 + 2 * 0 = p + 1 /\ Address(k, i) + 1 + 0 = Address(k, i) + 1
    BY <1>2
  <2>3. Handler(instructions'[Address(k, i) + 1]) = op
    BY <1>1, <1>9, HandlerOfOpcode
  <2> QED
    BY <1>1, <1>7, <1>9, <1>10, <2>1, <2>2, <2>3 DEF AtSlot
<1>12. 0 \in 0..Slots(op)
  BY <1>2
<1> QED
  BY <1>1, <1>7, <1>11, <1>12 DEF Assembling

(* The tokens and bytes of an instruction's operands.                      *)
LEMMA OperandsAre ==
  ASSUME Assembles, NEW k \in 1..Len(prog), NEW i \in 1..Len(prog[k].body), prog[k].body[i].op # "@"
  PROVE  LET op == prog[k].body[i].op
             p == Place(k, i)
             n == Slots(op)
         IN  /\ op \in Mnemonic /\ n \in Nat /\ p \in Nat /\ Address(k, i) \in Nat
             /\ Place(k, i + 1) = p + 2 + 2 * n + (IF op \in Wide THEN 1 ELSE 0)
             /\ Address(k, i + 1) = Address(k, i) + 1 + n + (IF op \in Wide THEN 4 ELSE 0)
             /\ Address(k, i + 1) <= MaxOffset
             /\ \A m \in 0..(n - 1) : Mark(stream, p + 1 + 2 * m, "$") /\ Numeral(stream, p + 2 + 2 * m)
             /\ op \in Jumps => Word(stream, p + 1 + 2 * n, prog[k].body[i].to)
             /\ op \in Wide \ Jumps => Numeral(stream, p + 1 + 2 * n) \/ Fraction(stream, p + 1 + 2 * n)
             /\ Mark(stream, Place(k, i + 1) - 1, ";")
<1> DEFINE s == prog[k].body[i]
           op == s.op
           p == Place(k, i)
           n == Slots(op)
           w == IF op \in Wide THEN 1 ELSE 0
<1>1. IsProgram(prog) /\ prog # <<>> /\ Straight
  BY DEF Assembles
<1>2. op \in Mnemonic
  BY <1>1, BodyIs
<1>3. n \in Nat /\ OperandBytes(op) = n + (IF op \in Wide THEN 4 ELSE 0)
  BY <1>2, SlotsAre
<1>4. p \in Nat /\ Place(k, i + 1) = p + Lexemes(s)
  BY <1>1, PlaceStep
<1>5. /\ Address(k, i) \in Nat /\ Address(k, i + 1) = Address(k, i) + Bytes(s)
      /\ Address(k, i + 1) <= Bases[k] /\ Bases[k] <= Bases[Len(prog)] /\ Bases[k] \in Nat
  BY <1>1, AddressStep
<1>6. StatementSpelt(stream, s, p)
  BY ProcedureTokens
<1>7. Lexemes(s) = 2 + 2 * n + w
  BY DEF Lexemes
<1>8. Bytes(s) = 1 + OperandBytes(op)
  BY DEF Bytes
<1>9. Bases[Len(prog)] <= MaxOffset /\ Bases[Len(prog)] \in Nat
  <2>1. Len(prog) \in 0..Len(prog)
    BY <1>1, BasesAre
  <2> QED
    BY <1>1, <2>1, BasesAre DEF Straight
<1>10. /\ \A m \in 0..(n - 1) : Mark(stream, p + 1 + 2 * m, "$") /\ Numeral(stream, p + 2 + 2 * m)
       /\ op \in Jumps => Word(stream, p + 1 + 2 * n, s.to)
       /\ op \in Wide \ Jumps => Numeral(stream, p + 1 + 2 * n) \/ Fraction(stream, p + 1 + 2 * n)
       /\ Mark(stream, p + Lexemes(s) - 1, ";")
  BY <1>6 DEF StatementSpelt
<1> HIDE DEF n, p, op, s
<1>11. Place(k, i + 1) = p + 2 + 2 * n + w
  BY <1>3, <1>4, <1>7
<1>12. Address(k, i + 1) = Address(k, i) + 1 + n + (IF op \in Wide THEN 4 ELSE 0)
  BY <1>3, <1>5, <1>8
<1>13. Address(k, i + 1) <= MaxOffset
  <2>1. Address(k, i + 1) \in Int
    BY <1>3, <1>5, <1>12
  <2>2. MaxOffset \in Int
    BY SMT DEF MaxOffset
  <2> QED
    BY <1>5, <1>9, <2>1, <2>2
<1>14. Mark(stream, Place(k, i + 1) - 1, ";")
  <2>1. PICK q : q = p + (Lexemes(s) - 1)
    OBVIOUS
  <2>2. Mark(stream, q, ";")
    BY <1>10, <2>1
  <2>3. q = Place(k, i + 1) - 1
    <3>1. Lexemes(s) \in Int
      BY <1>3, <1>7
    <3> QED
      BY <1>4, <2>1, <3>1
  <2> QED
    BY <2>2, <2>3
<1> QED
  BY <1>2, <1>3, <1>4, <1>5, <1>10, <1>11, <1>12, <1>13, <1>14 DEF n, p, op, s

(* The semicolon ends the instruction.                                     *)
LEMMA FollowsSemicolon ==
  ASSUME Assembles, Follows, at = "operands", NEW k \in 1..Len(prog), NEW i \in 1..Len(prog[k].body),
         prog[k].body[i].op # "@", AtSemicolon(k, i)
  PROVE  Assembling'
<1> DEFINE p == Place(k, i + 1)
<1>1. IsProgram(prog) /\ prog' = prog /\ mode' = "done" /\ prog # <<>> /\ Len(prog[k].body) \in Nat
  BY BodyIs DEF Assembles, Follows
<1>2. /\ next = p - 1 /\ Len(instructions) = Address(k, i + 1) /\ Coded(k, i) /\ Begun(k, i)
  BY DEF AtSemicolon
<1>3. p \in Nat /\ Mark(stream, next, ";") /\ Address(k, i + 1) \in Nat /\ Address(k, i) \in Nat
      /\ Address(k, i) <= Address(k, i + 1)
  <2>1. /\ Address(k, i) \in Nat /\ Address(k, i + 1) = Address(k, i) + Bytes(prog[k].body[i])
        /\ Bytes(prog[k].body[i]) \in Nat
    BY <1>1, AddressStep, BodyIs
  <2>2. /\ Place(k, i) \in Nat /\ p = Place(k, i) + Lexemes(prog[k].body[i]) /\ Lexemes(prog[k].body[i]) \in Nat
    BY <1>1, PlaceStep, BeforeIs
  <2>3. Mark(stream, p - 1, ";")
    BY OperandsAre
  <2>4. p \in Nat
    BY <2>2
  <2>5. Address(k, i + 1) \in Nat /\ Address(k, i) <= Address(k, i + 1)
    BY <2>1
  <2> QED
    BY <1>2, <2>1, <2>3, <2>4, <2>5
<1>4. R!EndInstruction
  <2>1. R!IsType(next, "Symbol") /\ R!Is(next, ";")
    BY <1>3, TokensDiffer DEF Mark, R!Is, R!Text
  <2>2. ~R!IsType(next, "Int") /\ ~R!IsType(next, "Float") /\ ~R!IsType(next, "Word")
    BY <2>1 DEF R!IsType
  <2> QED
    BY <2>1, <2>2, NextAt DEF Follows, R!Slot, R!SlotThrows, R!IntOperand, R!IntOperandThrows,
       R!FloatOperand, R!FloatOperandThrows, R!Backward, R!Forward, R!InOperands
<1> HIDE DEF p
<1>5. /\ next' = p /\ at' = "body" /\ instructions' = instructions
      /\ procedures' = procedures /\ procedure' = procedure /\ labels' = labels /\ patches' = patches
  <2>1. next + 1 = p
    <3>1. \A m \in Nat : m - 1 + 1 = m
      OBVIOUS
    <3> QED
      BY <1>2, <1>3, <3>1
  <2> QED
    BY <1>4, <2>1 DEF R!EndInstruction
<1>6. Grows
  BY <1>5, NothingEmitted
<1>7. Begun(k, i)'
  <2>1. i \in 1..(Len(prog[k].body) + 1)
    BY <1>1
  <2>3. Address(k, i) <= Len(instructions)
    BY <1>2, <1>3
  <2>2. Labelled(k, i)'
    BY <1>1, <1>2, <1>5, LabelledStays DEF Begun
  <2> QED
    BY <1>1, <1>2, <1>5, <1>6, <2>1, <2>2, <2>3, BegunStays
<1>8. Coded(k, i)'
  <2>1. Address(k, i + 1) <= Len(instructions)
    <3>1. \A m \in Nat : m <= m
      OBVIOUS
    <3> QED
      BY <1>2, <1>3, <3>1
  <2> QED
    BY <1>1, <1>2, <1>6, <2>1, CodedStays
<1>9. Begun(k, i + 1)'
  <2>1. \A j \in 1..(i + 1 - 1) : j # i => j \in 1..(i - 1)
    BY <1>1
  <2>2. Emitted(k, i + 1)'
    BY <1>1, <1>7, <1>8, <2>1 DEF Emitted, Begun
  <2>3. Labelled(k, i + 1)'
    BY <1>1, <1>7, <2>1 DEF Labelled, Begun
  <2> QED
    BY <1>7, <2>2, <2>3 DEF Begun
<1>10. AtStatement(k, i + 1)'
  <2>1. Place(k, i + 1)' = p /\ Address(k, i + 1)' = Address(k, i + 1)
    BY <1>1, PlacesStay DEF p
  <2> QED
    BY <1>2, <1>5, <1>9, <2>1 DEF AtStatement
<1>11. i + 1 \in 1..(Len(prog'[k].body) + 1) /\ k \in 1..Len(prog')
  BY <1>1
<1> QED
  BY <1>1, <1>5, <1>10, <1>11 DEF Assembling

(* The numbers of the resolver are those its proofs speak of.              *)
LEMMA SameNumbers == \A t : R!Number(t) = RP!Number(t)
BY DEF R!Number, RP!Number, R!Figures, RP!Figures, R!Figure, RP!Figure, R!Digits, RP!Digits,
       R!ToSet, RP!ToSet

(* A number of the stream is read as one that is not negative.             *)
LEMMA NumeralIsNat ==
  ASSUME Assembles, NEW i \in Nat, Numeral(stream, i), i < Len(stream)
  PROVE  R!Number(R!Text(i)) \in Nat
<1>1. RP!Inv
  BY DEF Assembles, Inv, Passes
<1>2. i \in 0..(Len(stream) - 1)
  BY <1>1 DEF RP!Inv, RP!StreamOK
<1>3. RP!IsType(i, "Int") /\ R!Text(i) = RP!Text(i)
  BY DEF Numeral, R!IsType, RP!IsType, R!Text, RP!Text
<1>4. RP!Text(i) \in Seq(STRING)
  BY <1>1, <1>2, <1>3, RP!TextIs
<1> QED
  BY <1>3, <1>4, SameNumbers, RP!NumberIsNat

(* The tokens of a statement are tokens of the stream.                     *)
LEMMA PlaceInStream ==
  ASSUME Assembles, NEW k \in 1..Len(prog), NEW i \in 1..Len(prog[k].body)
  PROVE  /\ Place(k, i) \in Nat /\ Place(k, i + 1) \in Nat /\ Len(stream) \in Nat
         /\ Place(k, i) <= Place(k, i + 1) /\ Place(k, i + 1) < Len(stream)
<1> DEFINE N == Len(prog)
           n == Len(prog[k].body)
           b == Before(prog[k].body)
           lens == [j \in 1..n |-> Lexemes(prog[k].body[j])]
           sizes == [l \in 1..N |-> 7 + Before(prog[l].body)[Len(prog[l].body)]]
<1>1. IsProgram(prog) /\ N \in Nat /\ n \in Nat /\ Len(stream) = Starts[N] + 1
  BY BodyIs, BasesAre DEF Assembles, Spelt, Spells
<1>2. \A i1, j1 \in 0..n : i1 <= j1 => b[i1] <= b[j1]
  <2>1. \A j \in 1..n : Lexemes(prog[k].body[j]) \in Nat
    BY <1>1, BeforeIs
  <2>2. lens \in Seq(Nat) /\ Len(lens) = n
    <3> HIDE DEF n
    <3> QED
      BY <1>1, <2>1
  <2>3. b = Sums(lens)
    BY DEF Before
  <2> HIDE DEF lens, n, b
  <2> QED
    BY <2>2, <2>3, SumsGrow
<1>3. \A l, m \in 0..N : l <= m => Starts[l] <= Starts[m]
  <2>1. ASSUME NEW l \in 1..N
        PROVE  7 + Before(prog[l].body)[Len(prog[l].body)] \in Nat
    <3>1. /\ Len(prog[l].body) \in Nat
          /\ Before(prog[l].body) \in [0..Len(prog[l].body) -> Nat]
      BY <1>1, BodyIs, BeforeIs
    <3>2. Before(prog[l].body)[Len(prog[l].body)] \in Nat
      BY <3>1
    <3> QED
      BY <3>2
  <2>2. sizes \in Seq(Nat) /\ Len(sizes) = N
    <3> HIDE DEF N
    <3> QED
      BY <1>1, <2>1
  <2>3. Starts = Sums(sizes)
    BY DEF Starts
  <2> HIDE DEF sizes, N
  <2> QED
    BY <2>2, <2>3, SumsGrow
<1>4. /\ Place(k, i) \in Nat /\ Place(k, i + 1) = Place(k, i) + Lexemes(prog[k].body[i])
      /\ Lexemes(prog[k].body[i]) \in Nat
  BY <1>1, PlaceStep, BeforeIs
<1>5. Place(k, i + 1) <= Starts[k] - 1 /\ Starts[k] \in Nat
  <2>1. Place(k, n + 1) = Starts[k] - 1 /\ Starts[k] \in Nat
    BY <1>1, PlaceStep
  <2>2. Place(k, i + 1) = Starts[k - 1] + 6 + b[i + 1 - 1] /\ Place(k, n + 1) = Starts[k - 1] + 6 + b[n + 1 - 1]
    BY DEF Place
  <2>3. b \in [0..n -> Nat] /\ Starts[k - 1] \in Nat
    BY <1>1, BeforeIs, PlaceStep
  <2> HIDE DEF b, n
  <2>4. n = Len(prog[k].body)
    BY DEF n
  <2>5. i + 1 - 1 = i /\ n + 1 - 1 = n /\ i \in 0..n /\ n \in 0..n /\ i <= n
    BY <1>1, <2>4
  <2>6. b[i] <= b[n] /\ b[i] \in Nat /\ b[n] \in Nat
    BY <1>2, <2>3, <2>5
  <2> QED
    BY <2>1, <2>2, <2>3, <2>5, <2>6
<1>6. Starts[k] <= Starts[N] /\ Starts[N] \in Nat
  <2>1. k \in 0..N /\ N \in 0..N /\ k <= N
    BY <1>1
  <2>2. Starts \in [0..N -> Nat]
    BY <1>1, StartsAre
  <2> QED
    BY <1>3, <2>1, <2>2
<1>7. Len(stream) \in Nat /\ Place(k, i + 1) \in Nat /\ Place(k, i) <= Place(k, i + 1)
  <2> HIDE DEF N
  <2>1. \A x \in Nat : x + 1 \in Nat
    OBVIOUS
  <2>2. \A x, y \in Nat : x + y \in Nat /\ x <= x + y
    OBVIOUS
  <2> QED
    BY <1>1, <1>4, <1>6, <2>1, <2>2
<1>8. Place(k, i + 1) < Len(stream)
  <2> DEFINE x == Place(k, i + 1)
             y == Starts[k]
             z == Starts[N]
  <2>1. x \in Nat /\ y \in Nat /\ z \in Nat /\ x <= y - 1 /\ y <= z /\ Len(stream) = z + 1
    BY <1>1, <1>5, <1>6, <1>7
  <2> HIDE DEF x, y, z
  <2>2. x < z + 1
    BY <2>1
  <2> QED
    BY <2>1, <2>2 DEF x
<1> QED
  BY <1>4, <1>7, <1>8

(* Every slot is one byte.                                                 *)
LEMMA FollowsSlot ==
  ASSUME Assembles, Follows, at = "operands", NEW k \in 1..Len(prog), NEW i \in 1..Len(prog[k].body),
         prog[k].body[i].op # "@", NEW n \in 0..(Slots(prog[k].body[i].op) - 1), AtSlot(k, i, n)
  PROVE  Assembling'
<1> DEFINE op == prog[k].body[i].op
           p == Place(k, i)
           q == p + 1 + 2 * n
           r == p + 2 + 2 * n
           a == Address(k, i)
           z == Slots(op)
<1>1. IsProgram(prog) /\ prog' = prog /\ mode' = "done" /\ prog # <<>> /\ Len(prog[k].body) \in Nat
  BY BodyIs DEF Assembles, Follows
<1>2. /\ next = q /\ Len(instructions) = a + 1 + n /\ Handler(instructions[a + 1]) = op /\ Begun(k, i)
  BY DEF AtSlot
<1>3. op \in Mnemonic /\ z \in Nat /\ p \in Nat /\ a \in Nat
  BY OperandsAre
<1>4. Mark(stream, q, "$") /\ Numeral(stream, r)
  BY OperandsAre
<1>5. Place(k, i + 1) >= p + 2 + 2 * z /\ Place(k, i + 1) \in Nat /\ Len(stream) \in Nat /\ Place(k, i + 1) < Len(stream)
  <2>1. /\ Place(k, i + 1) = p + 2 + 2 * z + (IF op \in Wide THEN 1 ELSE 0)
    BY OperandsAre
  <2>2. Place(k, i + 1) \in Nat /\ Len(stream) \in Nat /\ Place(k, i + 1) < Len(stream)
    BY PlaceInStream
  <2> HIDE DEF p, z
  <2> QED
    BY <1>3, <2>1, <2>2
<1> HIDE DEF p, a, op, z
<1>6. n \in Nat /\ n + 1 <= z /\ n \in 0..z /\ n + 1 \in 0..z
  <2>1. z = Slots(prog[k].body[i].op)
    BY DEF z, op
  <2> QED
    BY <1>3, <2>1
<1>7. q \in Nat /\ r \in Nat /\ q + 1 = r /\ r + 1 = p + 1 + 2 * (n + 1) /\ r < Len(stream)
  BY <1>3, <1>5, <1>6
<1> HIDE DEF q, r
<1>8. R!Slot
  <2>1. R!IsType(q, "Symbol") /\ R!Is(q, "$") /\ ~R!Is(q, ";")
    BY <1>4, TokensDiffer DEF Mark, R!Is, R!Text
  <2>2. ~R!IsType(q, "Int") /\ ~R!IsType(q, "Float") /\ ~R!IsType(q, "Word")
    BY <2>1 DEF R!IsType
  <2>3. R!IsType(next + 1, "Int") /\ R!Numeric(R!Text(next + 1))
    BY <1>2, <1>4, <1>7 DEF Numeral, R!IsType, R!Text
  <2>4. ~R!SlotThrows
    BY <2>3 DEF R!SlotThrows
  <2> QED
    BY <1>2, <2>1, <2>2, <2>4, NextAt DEF Follows, R!EndInstruction, R!IntOperand, R!IntOperandThrows,
       R!FloatOperand, R!FloatOperandThrows, R!Backward, R!Forward
<1>9. PICK b \in RP!Byte : instructions' = Append(instructions, b)
  <2>1. R!Number(R!Text(r)) \in Nat
    BY <1>4, <1>7, NumeralIsNat
  <2>2. R!Number(R!Text(r)) % 256 \in RP!Byte
    <3>1. \A x \in Nat : x % 256 \in 0..255
      OBVIOUS
    <3> QED
      BY <2>1, <3>1 DEF RP!Byte
  <2>3. instructions' = Append(instructions, R!Number(R!Text(r)) % 256)
    BY <1>2, <1>4, <1>7, <1>8 DEF R!Slot, Numeral, R!IsType, R!Text
  <2> QED
    BY <2>2, <2>3
<1>10. /\ next' = r + 1 /\ at' = "operands" /\ procedures' = procedures /\ procedure' = procedure
       /\ labels' = labels /\ patches' = patches
  BY <1>2, <1>4, <1>7, <1>8 DEF R!Slot, Numeral, R!IsType, R!Text, R!Skip
<1>11. Grows /\ Len(instructions)' = a + 1 + (n + 1)
  <2>1. Grows /\ Len(instructions)' = Len(instructions) + 1
    BY <1>9, ByteEmitted
  <2> QED
    BY <1>2, <1>3, <1>6, <2>1
<1>12. instructions'[a + 1] = instructions[a + 1] /\ Address(k, i) <= Len(instructions)
  <2>1. a + 1 \in 1..Len(instructions) /\ a <= Len(instructions)
    BY <1>2, <1>3, <1>6
  <2> QED
    BY <1>11, <2>1 DEF Grows, a
<1>13. Begun(k, i)'
  <2>1. i \in 1..(Len(prog[k].body) + 1)
    BY <1>1
  <2>2. Labelled(k, i)'
    BY <1>1, <1>2, <1>10, LabelledStays DEF Begun
  <2> QED
    BY <1>1, <1>2, <1>10, <1>11, <1>12, <2>1, <2>2, BegunStays
<1>14. AtSlot(k, i, n + 1)'
  <2>1. Place(k, i)' = p /\ Address(k, i)' = a
    BY <1>1, PlacesStay DEF p, a
  <2>2. Handler(instructions'[a + 1]) = prog'[k].body[i].op
    BY <1>1, <1>2, <1>12 DEF op
  <2> DEFINE m == n + 1
  <2>3. next' = p + 1 + 2 * m /\ Len(instructions)' = a + 1 + m
    BY <1>7, <1>10, <1>11
  <2> HIDE DEF m
  <2>4. AtSlot(k, i, m)'
    BY <1>13, <2>1, <2>2, <2>3 DEF AtSlot
  <2> QED
    BY <2>4 DEF m
<1>15. n + 1 \in 0..Slots(prog[k].body[i].op)
  BY <1>6 DEF z, op
<1> QED
  BY <1>1, <1>10, <1>14, <1>15 DEF Assembling

(* Four bytes at the end of the code.                                      *)
LEMMA LastFour ==
  ASSUME NEW f, NEW bytes \in Seq(RP!Byte), Len(bytes) = 4, NEW l \in Nat,
         \A m \in 1..4 : f[l + m] = bytes[m]
  PROVE  SubSeq(f, l + 4 - 3, l + 4) = bytes
<1> DEFINE e == l + 4
<1>1. e \in Nat /\ e >= 4 /\ l + 4 - 3 = e - 3
  OBVIOUS
<1>2. \A m \in 1..4 : m + (e - 3) - 1 = l + m
  OBVIOUS
<1> HIDE DEF e
<1>3. SubSeq(f, e - 3, e) = [m \in 1..4 |-> f[m + (e - 3) - 1]]
  BY <1>1, FourOf
<1>4. [m \in 1..4 |-> f[m + (e - 3) - 1]] = [m \in 1..4 |-> bytes[m]]
  BY <1>2
<1>5. bytes = [m \in 1..4 |-> bytes[m]]
  OBVIOUS
<1> QED
  BY <1>1, <1>3, <1>4, <1>5 DEF e

(* Four bytes that lead a jump to its label end an instruction's code.     *)
LEMMA FollowsFour ==
  ASSUME Assembles, Follows, at = "operands", NEW k \in 1..Len(prog), NEW i \in 1..Len(prog[k].body),
         prog[k].body[i].op # "@", prog[k].body[i].op \in Wide, AtSlot(k, i, Slots(prog[k].body[i].op)),
         NEW bytes \in Seq(RP!Byte), Len(bytes) = 4, R!Operand(bytes), patches' = patches,
         prog[k].body[i].op \in Jumps =>
           Address(k, i + 1) + Int4(bytes) = Address(k, A!LabelAt(<<k, i>>))
  PROVE  Assembling'
<1> DEFINE op == prog[k].body[i].op
           a == Address(k, i)
           e == Address(k, i + 1)
           n == Slots(op)
           p == Place(k, i)
           l == Len(instructions)
           to == A!LabelAt(<<k, i>>)
<1>1. IsProgram(prog) /\ prog' = prog /\ mode' = "done" /\ prog # <<>> /\ Len(prog[k].body) \in Nat
  BY BodyIs DEF Assembles, Follows
<1>2. /\ next = p + 1 + 2 * n /\ l = a + 1 + n /\ Handler(instructions[a + 1]) = op /\ Begun(k, i)
  BY DEF AtSlot
<1>3. /\ n \in Nat /\ p \in Nat /\ a \in Nat
      /\ Place(k, i + 1) = p + 2 + 2 * n + 1 /\ e = a + 1 + n + 4
  BY OperandsAre
<1>4. /\ instructions' = instructions \o bytes /\ next' = next + 1 /\ at' = "operands"
      /\ procedures' = procedures /\ procedure' = procedure /\ labels' = labels /\ patches' = patches
  BY DEF R!Operand
<1>5. Grows /\ Len(instructions)' = l + 4 /\ \A m \in 1..4 : instructions'[l + m] = bytes[m]
  BY <1>4, BytesEmitted
<1>6. prog' = prog /\ a' = a /\ e' = e /\ to' = to /\ Place(k, i + 1)' = Place(k, i + 1)
      /\ (\A j : Address(k, j)' = Address(k, j))
  BY <1>1, PlacesStay
<1> HIDE DEF p, n, l
<1>7. a <= l /\ l \in Nat /\ a + 1 \in 1..l /\ e = l + 4 /\ next' = Place(k, i + 1) - 1
  <2> HIDE DEF a, e
  <2>1. next' = p + 1 + 2 * n + 1
    BY <1>2, <1>4
  <2> QED
    BY <1>2, <1>3, <2>1
<1>8. instructions'[a + 1] = instructions[a + 1]
  BY <1>5, <1>7 DEF Grows, l
<1>9. op \in Jumps => SubSeq(instructions, e - 3, e)' = bytes
  <2>1. SubSeq(instructions', l + 4 - 3, l + 4) = bytes
    <3> DEFINE f == instructions'
    <3>1. \A m \in 1..4 : f[l + m] = bytes[m]
      BY <1>5
    <3> HIDE DEF f
    <3>2. SubSeq(f, l + 4 - 3, l + 4) = bytes
      BY <1>7, <3>1, LastFour
    <3> QED
      BY <3>2 DEF f
  <2>2. SubSeq(instructions', e - 3, e) = bytes
    <3> HIDE DEF e
    <3>1. e - 3 = l + 4 - 3 /\ e = l + 4
      BY <1>7
    <3> QED
      BY <2>1, <3>1
  <2> QED
    BY <1>6, <2>2
<1>10. Coded(k, i)'
  <2>1. Coded(k, i)' <=>
          /\ Handler(instructions'[a + 1]) = op
          /\ op \in Jumps => e + Int4(SubSeq(instructions, e - 3, e)') = Address(k, to)
    BY <1>6 DEF Coded
  <2>2. op \in Jumps => e + Int4(bytes) = Address(k, to)
    OBVIOUS
  <2> HIDE DEF a, e, op, to
  <2> QED
    BY <1>2, <1>8, <1>9, <2>1, <2>2
<1>11. Begun(k, i)'
  <2>1. i \in 1..(Len(prog[k].body) + 1) /\ Address(k, i) <= Len(instructions)
    BY <1>1, <1>7 DEF l
  <2>2. Labelled(k, i)'
    BY <1>1, <1>2, <1>4, LabelledStays DEF Begun
  <2> QED
    BY <1>1, <1>2, <1>4, <1>5, <2>1, <2>2, BegunStays
<1>12. AtSemicolon(k, i)'
  BY <1>5, <1>6, <1>7, <1>10, <1>11 DEF AtSemicolon
<1> QED
  BY <1>1, <1>4, <1>12 DEF Assembling

(* The label of a jump that goes back is known when the jump is read.      *)
LEMMA LabelKnown ==
  ASSUME Assembles, NEW k \in 1..Len(prog), NEW i \in 1..Len(prog[k].body),
         prog[k].body[i].op \in Jumps, Labelled(k, i)
  PROVE  /\ <<prog[k].body[i].to>> \in DOMAIN labels
         /\ labels[<<prog[k].body[i].to>>] = Address(k, A!LabelAt(<<k, i>>))
         /\ Address(k, A!LabelAt(<<k, i>>)) \in Nat /\ Address(k, A!LabelAt(<<k, i>>)) <= MaxOffset
<1> DEFINE body == prog[k].body
<1>1. IsProgram(prog) /\ Backwards(prog) /\ Bases[Len(prog)] <= MaxOffset /\ Len(body) \in Nat /\ Len(prog) \in Nat
  BY BodyIs DEF Assembles, Straight
<1>2. PICK j \in 1..(i - 1) : body[j].op = "@" /\ body[j].to = body[i].to
  BY <1>1 DEF Backwards
<1>3. j \in 1..Len(body)
  BY <1>1
<1>4. \A m \in 1..Len(body) : body[m].op = "@" /\ body[m].to = body[i].to => m = j
  BY <1>1, <1>2, <1>3 DEF Backwards
<1>5. A!LabelAt(<<k, i>>) = CHOOSE m \in 1..Len(body) : body[m].op = "@" /\ body[m].to = body[i].to
  BY DEF A!LabelAt, A!At
<1>6. A!LabelAt(<<k, i>>) = j
  BY <1>2, <1>3, <1>4, <1>5
<1>7. <<body[j].to>> \in DOMAIN labels /\ labels[<<body[j].to>>] = Address(k, j)
  BY <1>2 DEF Labelled
<1>8. Address(k, j) \in Nat /\ Address(k, j) <= MaxOffset
  <2>1. /\ Address(k, j) \in Nat /\ Address(k, j + 1) = Address(k, j) + Bytes(body[j]) /\ Bytes(body[j]) = 0
        /\ Address(k, j + 1) <= Bases[k] /\ Bases[k] <= Bases[Len(prog)] /\ Bases[k] \in Nat
    BY <1>1, <1>2, <1>3, AddressStep, BodyIs
  <2>2. Bases[Len(prog)] \in Nat /\ MaxOffset \in Int
    <3>1. Len(prog) \in 0..Len(prog) /\ Bases \in [0..Len(prog) -> Nat]
      BY <1>1, BasesAre
    <3>2. MaxOffset \in Int
      BY SMT DEF MaxOffset
    <3> QED
      BY <3>1, <3>2
  <2> HIDE DEF body
  <2> QED
    BY <1>1, <2>1, <2>2
<1> QED
  BY <1>2, <1>6, <1>7, <1>8

(* A jump back is read as one, and its operand leads to its label.         *)
LEMMA FollowsJump ==
  ASSUME Assembles, Follows, at = "operands", NEW k \in 1..Len(prog), NEW i \in 1..Len(prog[k].body),
         prog[k].body[i].op # "@", prog[k].body[i].op \in Jumps, AtSlot(k, i, Slots(prog[k].body[i].op))
  PROVE  Assembling'
<1> DEFINE op == prog[k].body[i].op
           to == prog[k].body[i].to
           p == Place(k, i)
           n == Slots(op)
           a == Address(k, i)
           e == Address(k, i + 1)
           b == Address(k, A!LabelAt(<<k, i>>))
<1>1. op \in Wide
  BY DEF Wide
<1>2. next = p + 1 + 2 * n /\ Len(instructions) = a + 1 + n /\ Begun(k, i)
  BY DEF AtSlot
<1>3. n \in Nat /\ a \in Nat /\ e = a + 1 + n + 4 /\ e <= MaxOffset
  BY <1>1, OperandsAre
<1>4. Word(stream, next, to)
  <2>1. Word(stream, p + 1 + 2 * n, to)
    BY OperandsAre
  <2> QED
    BY <1>2, <2>1
<1>5. <<to>> \in DOMAIN labels /\ labels[<<to>>] = b /\ b \in Nat /\ b <= MaxOffset
  BY <1>2, LabelKnown DEF Begun
<1> HIDE DEF op, to, p, n, a, e, b
<1>6. R!IsType(next, "Word") /\ R!Text(next) = <<to>> /\ ~R!Is(next, ";") /\ ~R!Is(next, "$")
  BY <1>4, TokensDiffer DEF Marks
<1>7. R!Backward
  <2>1. ~R!IsType(next, "Int") /\ ~R!IsType(next, "Float")
    BY <1>6 DEF R!IsType
  <2>2. ~R!Forward
    BY <1>5, <1>6 DEF R!Forward
  <2> QED
    BY <1>6, <2>1, <2>2, NextAt DEF Follows, R!EndInstruction, R!Slot, R!SlotThrows, R!IntOperand,
       R!IntOperandThrows, R!FloatOperand, R!FloatOperandThrows
<1>8. R!Offset(R!Text(next)) = b - e
  <2>1. R!Offset(R!Text(next)) = b - (a + 1 + n + 4)
    BY <1>2, <1>5, <1>6 DEF R!Offset, R!size
  <2> QED
    BY <1>3, <2>1
<1>9. Int4(Bytes4(b - e)) = b - e /\ b - e \in Int
  <2>1. e \in Nat
    BY <1>3
  <2>2. \A x, y \in Nat : x <= 2147483647 /\ y <= 2147483647 =>
          x - y \in Int /\ x - y >= -2147483648 /\ x - y <= 2147483647
    BY SMT
  <2>3. b <= 2147483647 /\ e <= 2147483647
    BY <1>3, <1>5, SMT DEF MaxOffset
  <2>4. b - e \in Int /\ b - e >= -2147483648 /\ b - e <= 2147483647
    BY <1>5, <2>1, <2>2, <2>3, SMT
  <2> QED
    BY <2>4, FourBytes, SMT
<1>10. PICK bytes : bytes = Bytes4(b - e)
  OBVIOUS
<1>11. bytes \in Seq(RP!Byte) /\ Len(bytes) = 4
  <2>1. bytes = RP!Bytes4(b - e)
    BY <1>10 DEF RP!Bytes4, Bytes4
  <2> QED
    BY <1>9, <2>1, RP!BytesAre
<1>12. R!Operand(bytes) /\ patches' = patches
  <2>1. R!Bytes4(R!Offset(R!Text(next))) = bytes
    BY <1>8, <1>10, SameCodes
  <2> QED
    BY <1>7, <2>1 DEF R!Backward
<1>13. e + Int4(bytes) = b
  <2>1. e \in Nat
    BY <1>3
  <2> QED
    BY <1>5, <1>9, <1>10, <2>1
<1> QED
  BY <1>1, <1>11, <1>12, <1>13, FollowsFour DEF op, e, b

(* A number or a float is read as one.                                     *)
LEMMA FollowsNumber ==
  ASSUME Assembles, Follows, at = "operands", NEW k \in 1..Len(prog), NEW i \in 1..Len(prog[k].body),
         prog[k].body[i].op # "@", prog[k].body[i].op \in Wide \ Jumps,
         AtSlot(k, i, Slots(prog[k].body[i].op))
  PROVE  Assembling'
<1> DEFINE op == prog[k].body[i].op
           p == Place(k, i)
           n == Slots(op)
<1>1. next = p + 1 + 2 * n
  BY DEF AtSlot
<1>2. Numeral(stream, next) \/ Fraction(stream, next)
  <2>1. Numeral(stream, p + 1 + 2 * n) \/ Fraction(stream, p + 1 + 2 * n)
    BY OperandsAre
  <2> QED
    BY <1>1, <2>1
<1>3. next \in Nat /\ next < Len(stream)
  BY DEF Assembles, Inv, Passes, RP!Inv, RP!StreamOK, RP!Reading
<1> HIDE DEF op, p, n
<1>4. ~R!Is(next, ";") /\ ~R!Is(next, "$")
  BY <1>2, NumeralIs DEF Marks, Fraction, R!Is, R!Text
<1>5. CASE Numeral(stream, next)
  <2>1. R!IsType(next, "Int") /\ R!Numeric(R!Text(next)) /\ ~R!IsType(next, "Float") /\ ~R!IsType(next, "Word")
    BY <1>5 DEF Numeral, R!IsType, R!Text
  <2>2. R!IntOperand
    BY <1>4, <2>1, NextAt DEF Follows, R!EndInstruction, R!Slot, R!SlotThrows, R!IntOperandThrows,
       R!FloatOperand, R!FloatOperandThrows, R!Backward, R!Forward
  <2>3. PICK bytes : bytes = R!Bytes4(R!Number(R!Text(next)))
    OBVIOUS
  <2>4. bytes \in Seq(RP!Byte) /\ Len(bytes) = 4
    <3>1. R!Number(R!Text(next)) \in Int
      <4>1. R!Number(R!Text(next)) \in Nat
        BY <1>3, <1>5, NumeralIsNat
      <4> QED
        BY <4>1
    <3>2. \A m : R!Bytes4(m) = RP!Bytes4(m)
      BY DEF R!Bytes4, RP!Bytes4
    <3> QED
      BY <2>3, <3>1, <3>2, RP!BytesAre
  <2>5. R!Operand(bytes) /\ patches' = patches
    BY <2>2, <2>3 DEF R!IntOperand
  <2> QED
    BY <2>4, <2>5, FollowsFour
<1>6. CASE Fraction(stream, next)
  <2>1. R!IsType(next, "Float") /\ ~R!IsType(next, "Int") /\ ~R!IsType(next, "Word")
    BY <1>6 DEF Fraction, R!IsType, R!Text
  <2>2. R!FloatOperand
    <3>1. R!Text(next) \notin Unfit
      BY <1>6 DEF Fraction, R!Text
    <3> QED
      BY <1>4, <2>1, <3>1, NextAt DEF Follows, R!EndInstruction, R!Slot, R!SlotThrows,
         R!IntOperand, R!IntOperandThrows, R!FloatOperandThrows, R!Backward, R!Forward
  <2>3. FloatBytes \in Seq(RP!Byte) /\ Len(FloatBytes) = 4
    <3>1. FloatBytes \in Seq(0..255) /\ Len(FloatBytes) = 4
      BY ToolchainAssumption
    <3> QED
      BY <3>1 DEF RP!Byte
  <2>4. R!Operand(FloatBytes) /\ patches' = patches
    BY <2>2 DEF R!FloatOperand
  <2> QED
    BY <2>3, <2>4, FollowsFour
<1> QED
  BY <1>2, <1>5, <1>6

(* Behind the last slot of an instruction without four bytes comes its     *)
(* semicolon.                                                              *)
LEMMA BehindSlots ==
  ASSUME Assembles, NEW k \in 1..Len(prog), NEW i \in 1..Len(prog[k].body),
         prog[k].body[i].op # "@", prog[k].body[i].op \notin Wide,
         AtSlot(k, i, Slots(prog[k].body[i].op))
  PROVE  AtSemicolon(k, i)
<1> DEFINE op == prog[k].body[i].op
           p == Place(k, i)
           n == Slots(op)
           a == Address(k, i)
<1>1. /\ n \in Nat /\ p \in Nat /\ a \in Nat /\ Place(k, i + 1) = p + 2 + 2 * n + (IF op \in Wide THEN 1 ELSE 0)
      /\ Address(k, i + 1) = a + 1 + n + (IF op \in Wide THEN 4 ELSE 0)
  BY OperandsAre
<1>2. /\ next = p + 1 + 2 * n /\ Len(instructions) = a + 1 + n
      /\ Handler(instructions[a + 1]) = op /\ Begun(k, i)
  BY DEF AtSlot
<1>3. op \notin Wide /\ op \notin Jumps
  BY DEF Wide
<1>4. Coded(k, i)
  BY <1>2, <1>3 DEF Coded
<1> HIDE DEF op, p, n, a
<1>5. next = Place(k, i + 1) - 1 /\ Len(instructions) = Address(k, i + 1)
  BY <1>1, <1>2, <1>3
<1> QED
  BY <1>2, <1>4, <1>5 DEF AtSemicolon

(* Every step of the resolver leads from one place of the program to the   *)
(* next.                                                                   *)
LEMMA FollowsOperands ==
  ASSUME Assembles, Follows, at = "operands", NEW k \in 1..Len(prog), NEW i \in 1..Len(prog[k].body),
         prog[k].body[i].op # "@",
         (\E n \in 0..Slots(prog[k].body[i].op) : AtSlot(k, i, n)) \/ AtSemicolon(k, i)
  PROVE  Assembling'
<1> DEFINE op == prog[k].body[i].op
<1>1. CASE AtSemicolon(k, i)
  BY <1>1, FollowsSemicolon
<1>2. ASSUME NEW n \in 0..Slots(op), AtSlot(k, i, n)
      PROVE  Assembling'
  <2>1. Slots(op) \in Nat
    BY OperandsAre
  <2>2. CASE n # Slots(op)
    <3>1. n \in 0..(Slots(op) - 1)
      BY <2>1, <2>2
    <3> QED
      BY <1>2, <3>1, FollowsSlot
  <2>3. CASE n = Slots(op) /\ op \in Jumps
    BY <1>2, <2>3, FollowsJump
  <2>4. CASE n = Slots(op) /\ op \in Wide \ Jumps
    BY <1>2, <2>4, FollowsNumber
  <2>5. CASE n = Slots(op) /\ op \notin Wide
    BY <1>2, <2>5, BehindSlots, FollowsSemicolon
  <2> QED
    BY <2>2, <2>3, <2>4, <2>5
<1> QED
  BY <1>1, <1>2

LEMMA FollowsBody ==
  ASSUME Assembles, Follows, at = "body", NEW k \in 1..Len(prog), NEW i \in 1..(Len(prog[k].body) + 1),
         AtStatement(k, i)
  PROVE  Assembling'
<1>1. Len(prog[k].body) \in Nat
  BY BodyIs DEF Assembles
<1>2. CASE i = Len(prog[k].body) + 1
  BY <1>2, FollowsBrace
<1>3. CASE i # Len(prog[k].body) + 1
  <2>1. i \in 1..Len(prog[k].body)
    BY <1>1, <1>3
  <2> QED
    BY <2>1, FollowsLabel, FollowsOpcode
<1> QED
  BY <1>2, <1>3

LEMMA ResolveFollows == ASSUME Assembles, Assembling, Follows PROVE Assembling'
<1>1. at # "done"
  BY NextAt DEF Follows
<1>2. \/ at = "top" /\ \E k \in 0..Len(prog) : AtProcedure(k)
      \/ at = "head" /\ \E k \in 1..Len(prog) : AtHead(k)
      \/ at = "body" /\ \E k \in 1..Len(prog) : \E i \in 1..(Len(prog[k].body) + 1) : AtStatement(k, i)
      \/ at = "operands" /\ \E k \in 1..Len(prog) : \E i \in 1..Len(prog[k].body) :
                              /\ prog[k].body[i].op # "@"
                              /\ (\E n \in 0..Slots(prog[k].body[i].op) : AtSlot(k, i, n)) \/ AtSemicolon(k, i)
  BY <1>1 DEF Assembling, Assembles
<1>3. CASE at = "top" /\ \E k \in 0..Len(prog) : AtProcedure(k)
  BY <1>3, FollowsProcedure
<1>4. CASE at = "head" /\ \E k \in 1..Len(prog) : AtHead(k)
  BY <1>4, FollowsHead
<1>5. CASE at = "body" /\ \E k \in 1..Len(prog) : \E i \in 1..(Len(prog[k].body) + 1) : AtStatement(k, i)
  BY <1>5, FollowsBody
<1>6. CASE at = "operands" /\ \E k \in 1..Len(prog) : \E i \in 1..Len(prog[k].body) :
                                /\ prog[k].body[i].op # "@"
                                /\ (\E n \in 0..Slots(prog[k].body[i].op) : AtSlot(k, i, n)) \/ AtSemicolon(k, i)
  BY <1>6, FollowsOperands
<1> QED
  BY <1>2, <1>3, <1>4, <1>5, <1>6

(* Where the resolver is does not change while it rests.                   *)
LEMMA AssemblingStays ==
  ASSUME Assembling, UNCHANGED <<prog, mode, next, instructions, procedures, procedure, labels, patches, at>>
  PROVE  Assembling'
<1>1. /\ prog' = prog /\ mode' = mode /\ next' = next /\ instructions' = instructions
      /\ procedures' = procedures /\ procedure' = procedure /\ labels' = labels /\ patches' = patches
      /\ at' = at
  OBVIOUS
<1>2. /\ Bases' = Bases /\ (\A k, i : Address(k, i)' = Address(k, i))
      /\ Starts' = Starts /\ (\A k, i : Place(k, i)' = Place(k, i))
      /\ (\A s : A!LabelAt(s)' = A!LabelAt(s))
  BY <1>1, PlacesStay
<1>3. \A k, i : Coded(k, i)' <=> Coded(k, i)
  BY <1>1, <1>2 DEF Coded
<1>4. \A n : Finished(n)' <=> Finished(n)
  BY <1>1, <1>2, <1>3 DEF Finished, Listed
<1>5. \A k, i : Begun(k, i)' <=> Begun(k, i)
  BY <1>1, <1>2, <1>3, <1>4 DEF Begun, Emitted, Labelled
<1>6. \A k : (AtProcedure(k)' <=> AtProcedure(k)) /\ (AtHead(k)' <=> AtHead(k))
  BY <1>1, <1>2, <1>4 DEF AtProcedure, AtHead
<1>7. \A k, i : (AtStatement(k, i)' <=> AtStatement(k, i)) /\ (AtSemicolon(k, i)' <=> AtSemicolon(k, i))
  BY <1>1, <1>2, <1>3, <1>5 DEF AtStatement, AtSemicolon
<1>8. \A k, i, n : AtSlot(k, i, n)' <=> AtSlot(k, i, n)
  BY <1>1, <1>2, <1>5 DEF AtSlot
<1> QED
  BY <1>1, <1>2, <1>4, <1>6, <1>7, <1>8 DEF Assembling

(* The resolver begins before the first procedure.                         *)
LEMMA AssemblingStarts ==
  ASSUME prog = <<>> \/ IsProgram(prog), R!Init
  PROVE  Assembling
<1>1. CASE prog = <<>>
  BY <1>1 DEF Assembling
<1>2. CASE IsProgram(prog)
  <2>1. Starts[0] = 0 /\ Bases[0] = 0 /\ 0 \in 0..Len(prog)
    BY <1>2, StartsAre, BasesAre
  <2>2. next = 0 /\ instructions = <<>> /\ procedures = <<>> /\ at = "top"
    BY DEF R!Init
  <2>3. Len(instructions) = 0 /\ Len(procedures) = 0 /\ 1..0 = {}
    BY <2>2
  <2>4. Finished(0)
    BY <2>3 DEF Finished, Listed
  <2> QED
    BY <2>1, <2>2, <2>3, <2>4 DEF Assembling, AtProcedure
<1> QED
  BY <1>1, <1>2

(* The program that is assembled, and how far the resolver has come in it. *)
Written == (prog = <<>> \/ IsProgram(prog)) /\ Straight /\ Assembling

LEMMA SameProgram ==
  ASSUME prog' = prog, prog = <<>> \/ IsProgram(prog), Straight
  PROVE  (prog = <<>> \/ IsProgram(prog))' /\ Straight'
<1>1. Bases' = Bases
  BY PlacesStay
<1>2. IsProgram(prog)' <=> IsProgram(prog)
  BY DEF IsProgram
<1>3. Backwards(prog)' <=> Backwards(prog)
  BY DEF Backwards
<1> QED
  BY <1>1, <1>2, <1>3 DEF Straight

LEMMA StepIsWritten ==
  ASSUME Inv, Spelt, Written, [Next]_vars
  PROVE  Written'
<1>1. /\ prog' = prog
      /\ Tokenize => UNCHANGED <<next, instructions, procedures, procedure, labels, patches, at>>
      /\ Generate \/ Load \/ Execute \/ UNCHANGED vars =>
           UNCHANGED <<mode, next, instructions, procedures, procedure, labels, patches, at>>
  BY DEF Next, Assemble, Tokenize, Resolve, Generate, Load, Execute, vars, scanned, resolved,
     I!Overflow, I!Write, I!WriteFails, I!OpenFails, I!Load, I!LoadFails, I!LoadCrashes
<1>2. (prog = <<>> \/ IsProgram(prog))' /\ Straight'
  BY <1>1, SameProgram DEF Written
<1>3. CASE Tokenize
  <2>1. T!Next
    BY <1>3 DEF Tokenize
  <2>2. mode # "done"
    BY <2>1, SameTokenizer, TP!DoneStays DEF Inv, Passes
  <2>3. R!Init
    BY <2>2 DEF Inv, Passes
  <2>4. UNCHANGED <<next, instructions, procedures, procedure, labels, patches, val, at>>
    BY <1>3 DEF Tokenize, resolved
  <2>5. R!Init'
    BY <2>3, <2>4 DEF R!Init, R!NoProcedure
  <2>6. Assembling'
    BY <1>2, <2>5, AssemblingStarts, PTL
  <2> QED
    BY <1>2, <2>6 DEF Written
<1>4. CASE Resolve
  <2>1. mode = "done" /\ R!Next /\ mode' = mode
    BY <1>4 DEF Resolve, scanned
  <2>2. CASE prog = <<>>
    BY <1>1, <1>2, <2>2 DEF Written, Assembling
  <2>3. CASE prog # <<>>
    <3>1. Assembles
      BY <2>1, <2>3 DEF Assembles, Written
    <3>2. Follows
      BY <1>1, <2>1 DEF Follows
    <3> QED
      BY <1>2, <3>1, <3>2, ResolveFollows DEF Written
  <2> QED
    BY <2>2, <2>3
<1>5. CASE Generate \/ Load \/ Execute \/ UNCHANGED vars
  BY <1>1, <1>2, <1>5, AssemblingStays DEF Written
<1> QED
  BY <1>3, <1>4, <1>5 DEF Next, Assemble

(* The code of a program is the program: if its tokens are what was        *)
(* written and its jumps go back, no statement is missing, cut or out of   *)
(* place, every jump leads to its label and every procedure is listed with *)
(* its id, its address and its arguments when the resolver is done.        *)
THEOREM CodeIsAssembled == FairSpec /\ Straight /\ []Spelt => []Assembled
<1>1. Init /\ Straight => Written
  <2> SUFFICES ASSUME Init, Straight
               PROVE  Written
    OBVIOUS
  <2>1. prog = <<>> \/ IsProgram(prog)
    BY ToolchainAssumption DEF Init
  <2> QED
    BY <2>1, AssemblingStarts DEF Init, Written
<1>2. Inv /\ Spelt /\ Written /\ [Next]_vars => Written'
  BY StepIsWritten
<1>3. Inv /\ Written => Assembled
  <2> SUFFICES ASSUME Inv, Written, at = "done", prog # <<>>
               PROVE  Assembled
    BY DEF Assembled
  <2>1. mode = "done"
    BY AtDone DEF Inv
  <2>2. Len(instructions) = Bases[Len(prog)] /\ Finished(Len(prog))
    BY <2>1 DEF Written, Assembling
  <2> QED
    BY <2>2 DEF Assembled, Finished, Listed
<1> QED
  BY <1>1, <1>2, <1>3, InvHolds, PTL DEF FairSpec

(* Such a program runs as its source says.                                 *)
THEOREM ProgramsRun == FairSpec /\ Straight /\ []Spelt => ImplementsSource
BY CodeIsAssembled, RunsAsWritten, PTL

-----------------------------------------------------------------------------
(* The text of a program that is laid out as the documents lay one out     *)
(* spells it, so nothing about the tokens need be assumed.                 *)

(* The two instances of the tokenizer agree on layouts.                    *)
LEMMA SameLayout ==
  /\ T!KindsDiffer <=> TP!KindsDiffer
  /\ T!Lexeme = TP!Lexeme
  /\ \A list : T!WrittenAs(list) <=> TP!WrittenAs(list)
  /\ \A list : T!TokensOf(list) = TP!TokensOf(list)
BY DEF T!KindsDiffer, TP!KindsDiffer, T!Blank, TP!Blank, T!Lexeme, TP!Lexeme, T!WrittenAs, TP!WrittenAs,
       T!IsLexeme, TP!IsLexeme, T!Fills, TP!Fills, T!End, TP!End, T!Gap, TP!Gap, T!CharAt, TP!CharAt,
       T!mSize, TP!mSize, T!TokensOf, TP!TokensOf, T!Eof, TP!Eof

(* Letters, digits and what the tokenizer asks for are different.          *)
LEMMA KindsAre == TP!KindsDiffer /\ TP!NulEndsWords
<1>1. Letter \cap Digit = {} /\ (Letter \cup Digit) \cap {"NUL", " ", "\n", "\t", "#", "'", "\""} = {}
  BY ToolchainAssumption
<1> QED
  BY <1>1 DEF TP!KindsDiffer, TP!NulEndsWords, TP!Blank

(* The tokenizer keeps to the lexemes of the list, and hands them over.    *)
Along(list) == /\ LaidOutAs(list)
               /\ TP!OnWay(list)
               /\ mode = "done" => stream = T!Texts(T!TokensOf(list))
OnCourse == prog # <<>> => \E list \in Seq(T!Lexeme) : Along(list)

(* A layout is a matter of the program and the text.                       *)
LEMMA TextsStay ==
  ASSUME src' = src, NEW list
  PROVE  T!Texts(list)' = T!Texts(list)
BY DEF T!Texts, T!GetValue, T!Resolved, T!Escape, T!mSize

LEMMA LayoutStays ==
  ASSUME prog' = prog, src' = src, NEW list, LaidOutAs(list)
  PROVE  LaidOutAs(list)'
<1>1. T!WrittenAs(list)' <=> T!WrittenAs(list)
  BY DEF T!WrittenAs, T!IsLexeme, T!Fills, T!End, T!Gap, T!CharAt, T!mSize, T!Blank
<1>2. T!Texts(T!TokensOf(list))' = T!Texts(T!TokensOf(list))
  BY DEF T!Texts, T!GetValue, T!Resolved, T!Escape, T!mSize, T!TokensOf, T!Eof
<1>3. Starts' = Starts /\ \A k, i : Place(k, i)' = Place(k, i)
  BY PlacesStay
<1>4. PICK s : s = T!Texts(T!TokensOf(list))
  OBVIOUS
<1>5. Spells(s)' <=> Spells(s)
  <2>1. \A t : R!Number(t)' = R!Number(t) /\ (R!Numeric(t)' <=> R!Numeric(t))
    BY DEF R!Number, R!Numeric, R!Figures, R!Figure, R!Digits, R!ToSet
  <2>2. \A i, m : Mark(s, i, m)' <=> Mark(s, i, m)
    BY DEF Mark
  <2>3. \A i, w : Word(s, i, w)' <=> Word(s, i, w)
    BY DEF Word, Marks
  <2>4. \A i : (Numeral(s, i)' <=> Numeral(s, i)) /\ (Fraction(s, i)' <=> Fraction(s, i))
    BY <2>1 DEF Numeral, Fraction, Marks
  <2>5. \A i, n : Counts(s, i, n)' <=> Counts(s, i, n)
    BY <2>1 DEF Counts
  <2>6. \A stm, i : /\ LabelSpelt(s, stm, i)' <=> LabelSpelt(s, stm, i)
                    /\ StatementSpelt(s, stm, i)' <=> StatementSpelt(s, stm, i)
    BY <2>1, <2>2, <2>3, <2>4 DEF LabelSpelt, StatementSpelt, Lexemes, Slots
  <2> QED
    BY <1>3, <2>2, <2>3, <2>5, <2>6 DEF Spells
<1>6. Spells(T!Texts(T!TokensOf(list)))' <=> Spells(s)'
  BY <1>2, <1>4 DEF Spells, LabelSpelt, StatementSpelt
<1>7. Spells(T!Texts(T!TokensOf(list))) <=> Spells(s)
  BY <1>4
<1> QED
  BY <1>1, <1>5, <1>6, <1>7 DEF LaidOutAs

(* The tokenizer starts along every layout of its text.                    *)
LEMMA StartsAlong ==
  ASSUME Init, NEW list \in Seq(T!Lexeme), LaidOutAs(list)
  PROVE  Along(list)
<1>1. TP!Shape /\ TP!Init /\ mode # "done"
  BY InvInit, SameTokenizer DEF Init, T!Init, Inv, Passes, TP!Inv
<1>2. TP!KindsDiffer
  BY KindsAre
<1>3. list \in Seq(TP!Lexeme) /\ TP!WrittenAs(list)
  BY SameLayout DEF LaidOutAs
<1>4. TP!OnWay(list)
  BY <1>1, <1>2, <1>3, TP!StartsOnWay
<1> QED
  BY <1>1, <1>4 DEF Along

(* No step leaves it.                                                      *)
LEMMA StaysAlong ==
  ASSUME Inv, [Next]_vars, NEW list \in Seq(T!Lexeme), Along(list)
  PROVE  Along(list)'
<1>1. prog' = prog /\ src' = src
  BY DEF Next, Assemble, Tokenize, Resolve, Generate, Load, Execute, vars, scanned,
     T!Next, T!TokenizeWord, T!TokenizeNumber, T!TokenizeChar, T!TokenizeSymbol,
     T!BeginComment, T!ReadComment, T!BeginString, T!ReadString, T!EndString, T!EndOfFile
<1>2. LaidOutAs(list)'
  BY <1>1, LayoutStays DEF Along
<1>3. CASE Tokenize
  <2>1. TP!Next /\ TP!Shape
    BY <1>3, SameTokenizer DEF Tokenize, Inv, Passes, TP!Inv
  <2>2. TP!KindsDiffer /\ TP!NulEndsWords
    BY KindsAre
  <2>3. list \in Seq(TP!Lexeme) /\ TP!WrittenAs(list) /\ TP!OnWay(list)
    BY SameLayout DEF Along, LaidOutAs
  <2>4. TP!OnWay(list)'
    BY <2>1, <2>2, <2>3, TP!StaysOnWay
  <2>5. ASSUME mode' = "done"
        PROVE  stream' = T!Texts(T!TokensOf(list))'
    <3>1. tokens' = T!TokensOf(list)
      BY <2>4, <2>5, SameLayout DEF TP!OnWay, TP!TokensOf, T!TokensOf, TP!Eof, T!Eof
    <3>2. stream' = (T!Stream)'
      BY <1>3, <2>5 DEF Tokenize
    <3> QED
      BY <3>1, <3>2 DEF T!Stream, T!Texts, T!GetValue, T!TokensOf, T!Eof
  <2> QED
    BY <1>2, <2>4, <2>5 DEF Along
<1>4. CASE ~Tokenize
  <2>0. R!Next => stream' = stream
    BY DEF R!Next, R!Proc, R!End, R!ProcHead, R!ProcHeadThrows, R!Label, R!Instruction,
       R!UnknownInstruction, R!EndProcedure, R!EndInstruction, R!Slot, R!SlotThrows, R!Operand,
       R!IntOperand, R!IntOperandThrows, R!FloatOperand, R!FloatOperandThrows, R!Backward,
       R!Forward, R!Throw
  <2>1. UNCHANGED <<scanned, stream>>
    <3>1. CASE Resolve
      BY <2>0, <3>1 DEF Resolve
    <3>2. CASE Generate \/ Load \/ Execute
      BY <3>2 DEF Generate, Load, Execute
    <3>3. CASE UNCHANGED vars
      BY <3>3 DEF vars
    <3> QED
      BY <1>4, <3>1, <3>2, <3>3 DEF Next, Assemble
  <2>2. UNCHANGED <<src, place, tokens, mode, stream>>
    BY <2>1 DEF scanned
  <2>3. TP!OnWay(list)'
    BY <2>2, TP!StandsOnWay DEF Along
  <2>4. T!Texts(T!TokensOf(list))' = T!Texts(T!TokensOf(list))
    BY <1>1 DEF T!Texts, T!GetValue, T!Resolved, T!Escape, T!mSize, T!TokensOf, T!Eof
  <2> QED
    BY <1>2, <2>2, <2>3, <2>4 DEF Along
<1> QED
  BY <1>3, <1>4

(* Of a text laid out so the tokens are the lexemes, each whole and at its *)
(* place, and nothing else.                                                *)
THEOREM LexemesAreTokens ==
  ASSUME NEW list \in Seq(T!Lexeme)
  PROVE  FairSpec /\ LaidOutAs(list) => [](mode = "done" => tokens = T!TokensOf(list))
<1>1. Init /\ LaidOutAs(list) => Along(list)
  BY StartsAlong
<1>2. Inv /\ Along(list) /\ [Next]_vars => Along(list)'
  BY StaysAlong
<1>3. Along(list) => (mode = "done" => tokens = T!TokensOf(list))
  BY SameLayout DEF Along, TP!OnWay
<1> QED
  BY <1>1, <1>2, <1>3, InvHolds, PTL DEF FairSpec

(* The tokens of a program that is laid out so are what was written: no    *)
(* scan stops early, no comment swallows a statement and no two lexemes    *)
(* run together.                                                           *)
THEOREM TokensSpell == FairSpec /\ LaidOut => []Spelt
<1>1. Init /\ LaidOut => OnCourse
  BY StartsAlong DEF LaidOut, OnCourse
<1>2. Inv /\ OnCourse /\ [Next]_vars => OnCourse'
  <2> SUFFICES ASSUME Inv, OnCourse, [Next]_vars, prog' # <<>>
               PROVE  \E list \in Seq(T!Lexeme) : Along(list)'
    BY DEF OnCourse, T!Lexeme
  <2>1. prog # <<>>
    BY DEF Next, Assemble, Tokenize, Resolve, Generate, Load, Execute, vars
  <2>2. PICK list \in Seq(T!Lexeme) : Along(list)
    BY <2>1 DEF OnCourse
  <2> QED
    BY <2>2, StaysAlong
<1>3. OnCourse => Spelt
  BY DEF OnCourse, Along, LaidOutAs, Spelt
<1> QED
  BY <1>1, <1>2, <1>3, InvHolds, PTL DEF FairSpec

(* From the text of a program to its run: laid out as the documents do it, *)
(* with jumps that go back, it is assembled to its code and runs as its    *)
(* source says.                                                            *)
THEOREM TextRuns == FairSpec /\ LaidOut /\ Straight => []Assembled /\ ImplementsSource
BY TokensSpell, CodeIsAssembled, ProgramsRun, PTL
=============================================================================
