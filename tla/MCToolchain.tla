----------------------------- MODULE MCToolchain -----------------------------
(***************************************************************************)
(* Sources for TLC: the texts of small programs in several layouts, the    *)
(* text of one program with a character missing or replaced, and all short *)
(* texts over the characters the tokenizer tells apart.                    *)
(***************************************************************************)
EXTENDS Toolchain

CONSTANTS Layouts,     \* how programs are laid out
          Ahead        \* whether jumps may go forward

MCDigit == {"0", "1", "2", "3", "4", "5", "6", "7", "8", "9"}
MCLetter == {"proc", "a", "b"} \cup Mnemonic
MCFloatBytes == <<0, 0, 192, 63>>
MCUnfit == {<<"2", ".", "5">>}

\* What stands in the file when it cannot be opened: nothing, something else, the
\* image of an older version, an older image, or one that was cut short.
OldImage == [head |-> "ok", procedure_count |-> 1, instruction_count |-> 4,
             table |-> <<[address |-> 0, arg_count |-> 0]>>,
             pool |-> <<Opcode["inci"], 1, Opcode["halt"], 0>>]
MCEarlier ==
  {[OldImage EXCEPT !.head = head, !.table = <<>>, !.pool = <<>>] :
     head \in {"none", "foreign", "version"}}
  \cup {OldImage, [OldImage EXCEPT !.pool = <<Opcode["inci"]>>]}

Stm(op) == [op |-> op, to |-> ""]
To(op, label) == [op |-> op, to |-> label]

Some == {Stm("mov"), Stm("seti"), Stm("call"),
         To("@", "a"), To("jmp", "a"), To("jmpif", "a"), To("jmplt", "a")}

\* Labels are defined once, and before they are used unless jumps go forward.
WellFormed(body) ==
  LET At(op) == {i \in 1..Len(body) : body[i].op = op}
  IN  /\ \A i, j \in At("@") : i = j
      /\ \A i \in UNION {At(w) : w \in Jumps} :
           \E j \in At("@") : body[j].to = body[i].to /\ (Ahead \/ j < i)

Bodies(n) == {b \in UNION {[1..m -> Some] : m \in 0..n} : WellFormed(b)}
Main(b) == [id |-> 0, args |-> 0, body |-> b \o <<Stm("halt")>>]
Sub(b, w) == [id |-> 1, args |-> 2, body |-> b \o <<Stm(w)>>]
Greedy == [id |-> 1, args |-> MaxArgs, body |-> <<Stm("ret")>>]

Programs ==
       {<<Main(b)>> : b \in Bodies(2)}
  \cup {<<Main(<<Stm("call")>>), Sub(b, w)>> : b \in Bodies(2), w \in {"ret", "retval"}}
  \cup {<<Main(<<Stm("call")>>), Greedy>>}
  \cup {<<Sub(<<Stm("call")>>, "ret"), Main(b)>> : b \in Bodies(2)}
  \cup {<<Main(<<To("@", "a"), Stm(w)>>)>> : w \in Mnemonic \ (Jumps \cup {"ret", "retval"})}
  \cup {<<Main(<<To("@", "a"), To(w, "a")>>)>> : w \in Jumps}

-----------------------------------------------------------------------------
(* Text: the lexemes of a program, then what a layout puts between them. *)

SlotText(n) == FlattenSeq([i \in 1..n |-> <<<<"$">>, <<"1">>>>])
Operands(s) ==
  CASE s.op \in {"@", "jmp"} \cup OnFlags -> <<<<s.to>>>>
    [] s.op \in OnSlot -> SlotText(1) \o <<<<s.to>>>>
    [] s.op \in {"seti", "setu"} -> SlotText(1) \o <<<<"2", "5", "8">>>>
    [] s.op = "setf" -> SlotText(1) \o <<<<"1", ".", "5">>>>
    [] OTHER -> SlotText(OperandBytes(s.op))

StmText(s) == <<<<s.op>>>> \o Operands(s) \o <<<<";">>>>
ProcText(p) ==
  <<<<"proc">>, <<ToString(p.id)>>, <<"(">>, <<ToString(p.args)>>, <<")">>, <<"{">>>>
    \o FlattenSeq([i \in 1..Len(p.body) |-> StmText(p.body[i])]) \o <<<<"}">>>>

Alnum == MCLetter \cup MCDigit
Between(layout, x, y) ==
  CASE layout = "spaced" -> <<" ", "\t">>
    [] layout = "commented" /\ x \in {<<";">>, <<"{">>} -> <<"#", "a", "$", "\n">>
    [] x[Len(x)] \in Alnum /\ y[1] \in Alnum -> <<" ">>
    [] OTHER -> <<>>

LexemesOf(p) == FlattenSeq([k \in 1..Len(p) |-> ProcText(p[k])])
Typeset(p, layout) ==
  LET lexemes == LexemesOf(p)
      n == Len(lexemes)
  IN  FlattenSeq([i \in 1..n |-> lexemes[i] \o
                   (IF i < n THEN Between(layout, lexemes[i], lexemes[i + 1])
                    ELSE IF layout = "newline" THEN <<"\n">> ELSE <<>>)])

\* Where a layout puts the lexemes of p.
KindOf(x) == IF x[1] \in MCLetter THEN "Word"
             ELSE IF x[1] \notin MCDigit THEN "Symbol"
             ELSE IF "." \in ToSet(x) THEN "Float" ELSE "Int"
Laid(p, layout) ==
  LET lexemes == LexemesOf(p)
      from[i \in 1..Len(lexemes)] ==
        IF i = 1 THEN 0
        ELSE from[i - 1] + Len(lexemes[i - 1]) + Len(Between(layout, lexemes[i - 1], lexemes[i]))
  IN  [i \in 1..Len(lexemes) |->
         [type |-> KindOf(lexemes[i]), start |-> from[i], len |-> Len(lexemes[i])]]

Sample == Typeset(<<Main(<<To("@", "a"), Stm("mov"), Stm("seti"), Stm("setf"), To("jmp", "a")>>)>>,
                "tight")
Damaged == {RemoveAt(Sample, i) : i \in 1..Len(Sample)}
           \cup {ReplaceAt(Sample, i, ch) : i \in 1..Len(Sample), ch \in {"2", "b", "\""}}
           \cup {<<>>}

\* Programs that return from procedure 0 and go on (see the README).
Returning == {Typeset(<<[id |-> 0, args |-> 0, body |-> <<Stm("ret"), Stm(w)>>]>>, "tight") :
                w \in {"mov", "ret", "retval"}}

\* Ids and argument counts too large for an unsigned int, or for an unsigned long.
Large == {<<"proc", " ">> \o id \o <<"(">> \o args \o <<")", "{", "}">> :
            id \in {<<"6", "0", "2">>, <<"5", "0", "0", "0">>},
            args \in {<<"6", "0", "3">>, <<"5", "0", "0", "0">>}}

Short == UNION {[1..n -> {"proc", "0", "#", "'", "\"", "\\", "\n", " ", ".", ";"}] : n \in 1..3}

Texts(junk) == {[prog |-> <<>>, text |-> t] : t \in junk}
MCSources == {[prog |-> p, text |-> Typeset(p, layout)] : p \in Programs, layout \in Layouts}
             \cup IF Ahead THEN {} ELSE Texts(Damaged \cup Returning \cup Large \cup Short)

ASSUME StraightSources == Ahead \/ \A s \in MCSources : Backwards(s.prog)

\* Every program is laid out as LaidOut has it, and its tokens are the lexemes it was
\* written with, each whole and at its place, whatever stands between them.
LexemesFound ==
  mode = "done" /\ prog # <<>> =>
    \E layout \in Layouts :
      /\ src = Typeset(prog, layout)
      /\ LaidOutAs(Laid(prog, layout))
      /\ tokens = T!TokensOf(Laid(prog, layout))
=============================================================================
