-------------------------------- MODULE Interp --------------------------------
(***************************************************************************)
(* The interpreter's control over a loaded image: the instruction pointer, *)
(* the return addresses and how a run ends.  Instructions are decoded from *)
(* the bytes of the pool.  What slots hold is left to Machine: a condition *)
(* may hold or not, a slot used as a procedure id may hold any number, an  *)
(* operation that can fail may fail.                                       *)
(***************************************************************************)
EXTENDS Instr, SequencesExt

CONSTANTS MaxCalls,   \* CT_CONF_CALLSTACK_SIZE
          MaxArgs,    \* CT_CONF_FIXED_SLOT_COUNT
          MaxId       \* bound: the largest procedure id a slot holds

VARIABLES image,      \* the procedure table and the instruction pool
          ip,         \* ctx->ip
          frames,     \* the return_ip of every frame, the current one last
          status      \* "ready", "running", or how the run ended

vars == <<image, ip, frames, status>>

Count == Len(image.pool)
Junk == 0             \* what ctx->ip holds before the first call

\* How a run ends: "failed" by an error that ends ct_runtime_exec, "crashed"
\* by a signal after an error or in a division, "fault" in undefined behaviour
\* that no error and no operand of the program accounts for.
Ended == {"halted", "failed", "crashed", "fault"}

\* dispatch_table[instrs[ip]].
Op == Handler(image.pool[ip + 1])

InPool == ip < Count
Whole == ip + 1 + OperandBytes(Op) <= Count
Behind == ip + 1 + OperandBytes(Op)

\* NEXT() finds op here.
At(ops) == status = "running" /\ InPool /\ Op \in ops /\ Whole

\* What reads or writes no slot needs no frame.
Frameless == {"jmp", "ret", "null", "illegal"} \cup OnFlags
HasFrame == frames # <<>>

Casts == {"f2i", "f2u"}
Divisions == {"divi", "modi", "divu", "modu"}
Checked == {"conget", "conset", "consize", "concopy"}
FallsOn == {"modcall", "connew"} \cup Checked
Stops == {"halt", "ret", "retval", "null", "illegal"}
Plain == Mnemonic \ (Jumps \cup Stops \cup {"call"})

Goto(a) == ip' = a /\ UNCHANGED <<image, frames, status>>
EndAs(how) == status' \in how /\ UNCHANGED <<image, ip, frames>>

-----------------------------------------------------------------------------
\* ct_ctx_new calls procedure 0.  Without procedures that is an error, after
\* which ct_runtime_exec falls through to HANDLER_NULL with no ip to step back.
Enter ==
  /\ status = "ready"
  /\ Len(image.table) > 0
  /\ ip' = image.table[1].address
  /\ frames' = <<Junk>>
  /\ status' = "running"
  /\ UNCHANGED image

EnterFails ==
  /\ status = "ready"
  /\ Len(image.table) = 0
  /\ EndAs({"crashed"})

\* Only jumps check the pointer: running off the pool reads what is behind it.
Overrun ==
  /\ status = "running"
  /\ ~(InPool /\ Whole)
  /\ EndAs({"fault"})

\* A return from the last frame leaves current_frame NULL.
NullFrame ==
  /\ status = "running" /\ InPool /\ Whole
  /\ ~HasFrame
  /\ Op \notin Frameless
  /\ EndAs({"fault"})

Step == At(Plain) /\ HasFrame /\ Goto(Behind)

Illegal == At({"null", "illegal"}) /\ EndAs({"failed"})

\* A cast out of range, or no object where one is needed: both return at once.
CastFails == At(Casts) /\ HasFrame /\ EndAs({"failed"})
TypeError == At(Checked) /\ HasFrame /\ EndAs({"failed"})

\* Division by 0 is not checked and stops the process.
Trap == At(Divisions) /\ HasFrame /\ EndAs({"crashed"})

\* An error inside a handler that ends in NEXT() falls through the handlers
\* behind it with their operands read from wherever ip is.
FallThrough == At(FallsOn) /\ HasFrame /\ EndAs({"failed", "crashed"})

\* Mutant: counted from the operand.
TargetFromOperand == Behind - 4 + Int4(SubSeq(image.pool, Behind - 3, Behind))

\* CT_INSTR_JMP: a target below 0 is a huge one.
Target == Behind + Int4(SubSeq(image.pool, Behind - 3, Behind))

Taken ==
  /\ At(Jumps)
  /\ HasFrame \/ Op \in Frameless
  /\ Target \in 0..(Count - 1)
  /\ Goto(Target)

IllegalJump ==
  /\ At(Jumps)
  /\ HasFrame \/ Op \in Frameless
  /\ Target \notin 0..(Count - 1)
  /\ EndAs({"failed"})

NotTaken ==
  /\ At(OnFlags \cup OnSlot)
  /\ HasFrame \/ Op \in Frameless
  /\ Goto(Behind)

\* ct_ctx_call_procedure; procedure 0 takes no arguments whatever its entry says.
Callable(id) == /\ Len(frames) < MaxCalls
                /\ id < Len(image.table)
                /\ id = 0 \/ image.table[id + 1].arg_count < MaxArgs

Call(id) ==
  /\ At({"call"}) /\ HasFrame
  /\ Callable(id)
  /\ frames' = Append(frames, Behind)
  /\ ip' = image.table[id + 1].address
  /\ UNCHANGED <<image, status>>

\* After the error two returns run: from two frames or fewer they leave none,
\* and the next load goes through NULL.
CallFails(id) ==
  /\ At({"call"}) /\ HasFrame
  /\ ~Callable(id)
  /\ EndAs(IF Len(frames) <= 2 THEN {"crashed"} ELSE {"failed", "crashed"})

\* ct_ctx_return_procedure; from the last frame it sets running to false,
\* which NEXT() does not read, and leaves ip where it is.
Return ==
  /\ At({"ret", "retval"})
  /\ HasFrame \/ Op = "ret"
  /\ ip' = IF Len(frames) > 1 THEN Last(frames) ELSE Behind
  /\ frames' = IF HasFrame THEN Front(frames) ELSE frames
  /\ UNCHANGED <<image, status>>

Halt == At({"halt"}) /\ HasFrame /\ EndAs({"halted"})

Init == ip = Junk /\ frames = <<>> /\ status = "ready"

Next == \/ Enter \/ EnterFails \/ Overrun \/ NullFrame
        \/ Step \/ Illegal \/ CastFails \/ TypeError \/ Trap \/ FallThrough
        \/ Taken \/ IllegalJump \/ NotTaken
        \/ \E id \in 0..MaxId : Call(id) \/ CallFails(id)
        \/ Return \/ Halt

-----------------------------------------------------------------------------
TypeOK == /\ ip \in Nat
          /\ Len(frames) <= MaxCalls
          /\ status \in {"ready", "running"} \cup Ended
=============================================================================
