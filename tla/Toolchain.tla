------------------------------ MODULE Toolchain ------------------------------
(***************************************************************************)
(* From source text to a run: the tokenizer, the resolver, the code        *)
(* generator and the image file, the loader and the interpreter, composed  *)
(* as CtAssembler and cute_run compose them.  prog is the program the text *)
(* was written for, or <<>> for text that is no program; the code never    *)
(* sees it, the properties do.                                             *)
(***************************************************************************)
EXTENDS Instr, SequencesExt

CONSTANTS Letter, Digit, IntMax, UIntMax, ULongMax, FloatBytes, Unfit, Earlier,
          MaxCalls, MaxArgs, MaxId,
          Sources      \* what is assembled: pairs of a program and a text

\* What counts as a program: procedures with different ids, 0 among them, each of
\* which ends in a statement that leaves it and names only its own labels.
\* A return from procedure 0 is left out: the runtime goes on behind it.
SourceProcedure == [id : Nat, args : Nat, body : Seq([op : Mnemonic \cup {"@"}, to : STRING])]
IsProgram(p) ==
  /\ p \in Seq(SourceProcedure)
  /\ \A k, l \in 1..Len(p) : p[k].id = p[l].id => k = l
  /\ \E k \in 1..Len(p) : p[k].id = 0
  /\ \A k \in 1..Len(p) : LET body == p[k].body IN
       /\ body # <<>> /\ body[Len(body)].op \in {"halt", "ret", "retval", "jmp"}
       /\ \A i \in 1..Len(body) :
            /\ body[i].op \in Jumps =>
                 \E j \in 1..Len(body) : body[j].op = "@" /\ body[j].to = body[i].to
            /\ p[k].id = 0 => body[i].op \notin {"ret", "retval"}

\* A file that holds no more than its header says.
IsFile(f) ==
  /\ f \in [head : {"none", "cut", "stub", "foreign", "version", "ok"},
            procedure_count : Nat, instruction_count : Nat,
            table : Seq([address : Nat, arg_count : Nat]), pool : Seq(0..255)]
  /\ Len(f.table) <= f.procedure_count /\ Len(f.pool) <= f.instruction_count

\* Letters, digits and the characters the tokenizer asks for are all different, an
\* unsigned int is no longer than an unsigned long, a float has four bytes, and there
\* is room for a call.  An older file may be anything.
ASSUME ToolchainAssumption ==
  /\ Letter \cap Digit = {}
  /\ (Letter \cup Digit) \cap {"NUL", " ", "\n", "\t", "#", "'", "\""} = {}
  /\ UIntMax \in Nat /\ ULongMax \in Nat /\ UIntMax <= ULongMax
  /\ FloatBytes \in Seq(0..255) /\ Len(FloatBytes) = 4
  /\ MaxCalls \in Nat \ {0}
  /\ \A f \in Earlier : IsFile(f)
  /\ \A s \in Sources : s.text \in Seq(STRING) /\ (s.prog = <<>> \/ IsProgram(s.prog))

VARIABLES prog,
          src, place, tokens, mode, start, c,
          stream, next, instructions, procedures, procedure, labels, patches, val, at,
          file, image, stage,
          ip, frames, status

scanned == <<src, place, tokens, mode, start, c>>
resolved == <<next, instructions, procedures, procedure, labels, patches, val, at>>
stored == <<file, image, stage>>
executed == <<ip, frames, status>>
vars == <<prog, scanned, stream, resolved, stored, executed>>

T == INSTANCE Tokenizer WITH mCurrent <- place, mTokens <- tokens
R == INSTANCE Resolver WITH mCurrent <- next, mJumpAddresses <- labels, mPatches <- patches
I == INSTANCE Image
X == INSTANCE Interp

-----------------------------------------------------------------------------
\* assemble_string: each pass runs to its end before the next begins.
Tokenize ==
  /\ T!Next
  /\ stream' = IF mode' = "done" THEN (T!Stream)' ELSE <<>>
  /\ UNCHANGED <<prog, resolved, stored, executed>>

Resolve ==
  /\ mode = "done"
  /\ R!Next
  /\ UNCHANGED <<prog, scanned, stored, executed>>

Generate ==
  /\ at = "done"
  /\ I!Overflow \/ I!Write \/ I!WriteFails \/ I!OpenFails
  /\ UNCHANGED <<prog, scanned, stream, next, procedure, labels, patches, val, at, executed>>

Assemble == Tokenize \/ Resolve \/ Generate

\* cute_run.
Load ==
  /\ I!Load \/ I!LoadFails \/ I!LoadCrashes
  /\ UNCHANGED <<prog, scanned, stream, next, procedure, labels, patches, val, at, executed>>

Execute ==
  /\ stage \in {"loaded", "stale"}
  /\ X!Next
  /\ UNCHANGED <<prog, scanned, stream, resolved, file, stage>>

Init ==
  /\ \E s \in Sources : prog = s.prog /\ src = s.text
  /\ T!Init /\ R!Init /\ I!Init /\ X!Init
  /\ stream = <<>>

Next == Assemble \/ Load \/ Execute

\* The assembler is one thread and waits for nothing.
FairSpec == Init /\ [][Next]_vars /\ WF_vars(Assemble)

-----------------------------------------------------------------------------
TypeOK == T!TypeOK /\ (mode = "done" => R!TypeOK) /\ I!TypeOK /\ X!TypeOK

\* Scanning leaves no character out and reads none twice (see Tokenizer).
NothingLost == T!NothingLost

\* A word or a number is one token, never two.
WholeWords == T!WholeWords

\* What runs is a whole image, although nobody asks whether it was written: the
\* loader's counts notice every write cut short.  It is the image of this text
\* unless the file could not be opened; then it is the older one.
LoadedExact == I!LoadedExact

\* A procedure is found in the table under its id, whatever the order in the
\* source.
TableExact == I!TableExact

\* A text without comments and strings is scanned to its end.
ScanEnds == (\A i \in 1..Len(src) : src[i] \notin {"#", "\""}) ~> (mode = "done")

\* The text of a program is assembled: no pass reads the same token for ever.
AssemblyEnds == (prog # <<>>) ~> (stage # "none")

-----------------------------------------------------------------------------
(* The bytes mean what the source says: the instruction pointer as a        *)
(* statement of the program.                                               *)

Bytes(s) == IF s.op = "@" THEN 0 ELSE 1 + OperandBytes(s.op)

\* The sums of the first numbers of s.
Sums(s) == LET sum[n \in 0..Len(s)] == IF n = 0 THEN 0 ELSE sum[n - 1] + s[n] IN sum

\* Where each statement of a body begins, and where each procedure does: the one
\* before it ends there.
Begins(body) == Sums([i \in 1..Len(body) |-> Bytes(body[i])])
Bases == Sums([k \in 1..Len(prog) |-> Begins(prog[k].body)[Len(prog[k].body)]])
Address(k, i) == Bases[k - 1] + Begins(prog[k].body)[i - 1]

Statements == UNION {{<<k, i>> : i \in 1..Len(prog[k].body)} : k \in 1..Len(prog)}
StatementAt(a) ==
  LET here == {s \in Statements : /\ prog[s[1]].body[s[2]].op # "@"
                                  /\ Address(s[1], s[2]) = a}
  IN  IF here = {} THEN <<0, 0>> ELSE CHOOSE s \in here : TRUE

First == IF \E k \in 1..Len(prog) : prog[k].id = 0
         THEN Address(CHOOSE k \in 1..Len(prog) : prog[k].id = 0, 1)
         ELSE 0

\* Nothing of the program runs: there is none, or an older image was loaded.
Silent == prog = <<>> \/ stage = "stale"

Position == StatementAt(IF Silent \/ status = "ready" THEN First ELSE ip)
OpenCalls == IF Silent \/ frames = <<>> THEN <<>>
             ELSE [i \in 1..(Len(frames) - 1) |-> StatementAt(frames[i + 1])]
Outcome == IF Silent \/ status \in {"ready", "running"} THEN "running"
           ELSE IF status = "crashed" THEN "failed" ELSE status

A == INSTANCE Assembly WITH pc <- Position, calls <- OpenCalls, outcome <- Outcome

\* The code of statement i of procedure k: its opcode stands at its address, and
\* the operand of a jump is the way from behind it to the label.
Coded(k, i) ==
  LET op == prog[k].body[i].op
      end == Address(k, i + 1)
  IN  /\ Handler(instructions[Address(k, i) + 1]) = op
      /\ op \in Jumps => end + Int4(SubSeq(instructions, end - 3, end)) = Address(k, A!LabelAt(<<k, i>>))

\* What was assembled is the program: no statement is missing, cut or out of place,
\* every operand of a jump leads to its label, and each procedure is listed with
\* its id, its address and its arguments.
Assembled ==
  at = "done" /\ prog # <<>> =>
    /\ Len(procedures) = Len(prog)
    /\ Len(instructions) = Bases[Len(prog)]
    /\ \A k \in 1..Len(prog) :
         /\ procedures[k] = [id |-> prog[k].id, arg_count |-> prog[k].args, address |-> Address(k, 1)]
         /\ \A i \in 1..Len(prog[k].body) : prog[k].body[i].op # "@" => Coded(k, i)

-----------------------------------------------------------------------------
(* The tokens of a program, as the language's documents write one.          *)

\* The operands of w that are slots, "$" and a number each; an opcode that sets
\* a constant or jumps has one of four bytes behind them, a number or a label.
Wide == Jumps \cup {"seti", "setu", "setf"}
Slots(w) == IF w \in Wide THEN OperandBytes(w) - 4 ELSE OperandBytes(w)
Lexemes(s) == IF s.op = "@" THEN 3 ELSE 2 + 2 * Slots(s.op) + IF s.op \in Wide THEN 1 ELSE 0

\* How many tokens stand before each statement of a body and before each procedure,
\* which has seven of its own.
Before(body) == Sums([i \in 1..Len(body) |-> Lexemes(body[i])])
Starts == Sums([k \in 1..Len(prog) |-> 7 + Before(prog[k].body)[Len(prog[k].body)]])
Place(k, i) == Starts[k - 1] + 6 + Before(prog[k].body)[i - 1]

Marks == {"@", "$", ";", "(", ")", "{", "}"}

\* Token i of the stream s, from 0, is a sign, a word, a number that fits, ...
Mark(s, i, m) == s[i + 1].type = "Symbol" /\ s[i + 1].value = <<m>>
Word(s, i, w) == s[i + 1].type = "Word" /\ s[i + 1].value = <<w>> /\ w \notin Marks
Numeral(s, i) == s[i + 1].type = "Int" /\ R!Numeric(s[i + 1].value)
Fraction(s, i) == /\ s[i + 1].type = "Float" /\ s[i + 1].value \notin Unfit
                  /\ \A m \in Marks : s[i + 1].value # <<m>>
Counts(s, i, n) == s[i + 1].type = "Int" /\ R!Number(s[i + 1].value) = n /\ n <= UIntMax

LabelSpelt(s, stm, i) == Mark(s, i, "@") /\ Word(s, i + 1, stm.to) /\ Mark(s, i + 2, ";")
StatementSpelt(s, stm, i) ==
  LET n == Slots(stm.op)
      wide == i + 1 + 2 * n
  IN  /\ Word(s, i, stm.op)
      /\ \A m \in 0..(n - 1) : Mark(s, i + 1 + 2 * m, "$") /\ Numeral(s, i + 2 + 2 * m)
      /\ stm.op \in Jumps => Word(s, wide, stm.to)
      /\ stm.op \in Wide \ Jumps => Numeral(s, wide) \/ Fraction(s, wide)
      /\ Mark(s, i + Lexemes(stm) - 1, ";")

\* The tokens of s are the program's: each statement with the operands its opcode
\* takes, in order, and nothing before, between or behind.
Spells(s) ==
  /\ Len(s) = Starts[Len(prog)] + 1
  /\ \A k \in 1..Len(prog) :
       LET body == prog[k].body
           i == Starts[k - 1]
       IN  /\ Word(s, i, "proc") /\ Counts(s, i + 1, prog[k].id)
           /\ Mark(s, i + 2, "(") /\ Counts(s, i + 3, prog[k].args) /\ Mark(s, i + 4, ")")
           /\ Mark(s, i + 5, "{") /\ Mark(s, Starts[k] - 1, "}")
           /\ \A j \in 1..Len(body) :
                IF body[j].op = "@" THEN LabelSpelt(s, body[j], Place(k, j))
                                    ELSE StatementSpelt(s, body[j], Place(k, j))

\* What the tokenizer hands to the resolver is the program's tokens.
Spelt == mode = "done" /\ prog # <<>> => Spells(stream)

\* A program's text is laid out as the documents lay one out: lexemes that are the
\* program's, with blanks and comments between them and nothing behind the last.
LaidOutAs(list) == T!WrittenAs(list) /\ Spells(T!Texts(T!TokensOf(list)))
LaidOut == prog # <<>> => \E list \in Seq(T!Lexeme) : LaidOutAs(list)

\* No jump of p goes forward, and no label of a body is defined twice.
Backwards(p) ==
  \A k \in 1..Len(p) : LET body == p[k].body IN
    \A i \in 1..Len(body) :
      /\ body[i].op = "@" =>
           \A j \in 1..Len(body) : body[j].op = "@" /\ body[j].to = body[i].to => j = i
      /\ body[i].op \in Jumps =>
           \E j \in 1..(i - 1) : body[j].op = "@" /\ body[j].to = body[i].to

\* ... and its code is short enough for the offsets of its jumps.
MaxOffset == 2147483647
Straight == prog # <<>> => Backwards(prog) /\ Bases[Len(prog)] <= MaxOffset

-----------------------------------------------------------------------------
\* A program that was assembled and loaded runs as its source says: every
\* jump, call and return lands on the statement the text names, no operand is
\* taken for an opcode, and only what may fail fails.
ImplementsSource == A!Spec
=============================================================================
