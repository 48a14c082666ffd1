------------------------------- MODULE Assembly -------------------------------
(***************************************************************************)
(* What a source program means by the language's documents: statements run *)
(* one after the other, a jump goes to its label, a call to the procedure  *)
(* with the id it is given and a return behind the call.  Nothing is said  *)
(* of tokens, bytes or addresses.  A procedure has id, args and body, a    *)
(* statement has op and, if it names a label, to; "@" defines a label.     *)
(* Programs are those of Toolchain: every body ends in a statement that    *)
(* leaves it, and every label is defined in the body that names it.        *)
(***************************************************************************)
EXTENDS Instr, SequencesExt

CONSTANT MaxCalls     \* the depth of calls the runtime allows

VARIABLES prog,       \* the source program
          pc,         \* <<procedure, statement>> to run next
          calls,      \* where the open calls go on
          outcome     \* "running", "halted" or "failed"

vars == <<prog, pc, calls, outcome>>

Nowhere == <<0, 0>>
At(p) == prog[p[1]].body[p[2]]

\* The first statement from number i on of procedure k that is no label.
From(k, i) == <<k, CHOOSE j \in i..Len(prog[k].body) :
                     /\ prog[k].body[j].op # "@"
                     /\ \A n \in i..(j - 1) : prog[k].body[n].op = "@">>

Behind(p) == From(p[1], p[2] + 1)

Ids == {prog[k].id : k \in 1..Len(prog)}
Entry(id) == From(CHOOSE k \in 1..Len(prog) : prog[k].id = id, 1)

\* The label that the statement at p names, and the statement it stands before.
LabelAt(p) == CHOOSE i \in 1..Len(prog[p[1]].body) :
                /\ prog[p[1]].body[i].op = "@"
                /\ prog[p[1]].body[i].to = At(p).to
LabelOf(p) == From(p[1], LabelAt(p))

Ends == {"halt", "ret", "retval"}
MayFail == {"null", "f2i", "f2u", "divi", "modi", "divu", "modu", "call", "modcall",
            "connew", "conget", "conset", "consize", "concopy"}

On(ops) == outcome = "running" /\ pc # Nowhere /\ At(pc).op \in ops
Goto(p) == pc' = p /\ UNCHANGED <<prog, calls, outcome>>

Go == On(Mnemonic \ (Ends \cup {"jmp", "call"})) /\ Goto(Behind(pc))

Jump == On(Jumps) /\ Goto(LabelOf(pc))

Call(id) ==
  /\ On({"call"})
  /\ Len(calls) + 1 < MaxCalls
  /\ calls' = Append(calls, Behind(pc))
  /\ pc' = Entry(id)
  /\ UNCHANGED <<prog, outcome>>

Return ==
  /\ On({"ret", "retval"})
  /\ calls # <<>>
  /\ pc' = Last(calls)
  /\ calls' = Front(calls)
  /\ UNCHANGED <<prog, outcome>>

\* "Returning from procedure 0 has the same effect as CT_INSTR_HALT".
Halt ==
  /\ \/ On({"halt"})
     \/ On({"ret", "retval"}) /\ calls = <<>>
  /\ outcome' = "halted"
  /\ UNCHANGED <<prog, pc, calls>>

Fail == On(MayFail) /\ outcome' = "failed" /\ UNCHANGED <<prog, pc, calls>>

Init == /\ pc = IF 0 \in Ids THEN Entry(0) ELSE Nowhere
        /\ calls = <<>>
        /\ outcome = "running"

Next == Go \/ Jump \/ (\E id \in Ids : Call(id)) \/ Return \/ Halt \/ Fail

Spec == Init /\ [][Next]_vars
=============================================================================
