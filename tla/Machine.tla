------------------------------ MODULE Machine ------------------------------
(***************************************************************************)
(* The memory discipline of the Cute runtime: call frames of typed slots,  *)
(* reference-counted objects (containers and buffers) and the counters     *)
(* that say how many references a frame or a container has to give back.   *)
(*                                                                         *)
(* Any program is covered: whenever the interpreter dispatches, any        *)
(* instruction with any operands may follow.  The instruction pointer, the *)
(* compare flag and primitive data are abstracted away; every change to    *)
(* slots, containers, counters and objects is kept.  A step is either the  *)
(* first part of a handler, up to its first reference-count decrement, or  *)
(* one part of what the handler still has to do (see Busy), so that the    *)
(* order of decrement, overwrite and increment is that of the code.  The   *)
(* default build is modelled: CT_CONF_DEBUG is not defined.                *)
(***************************************************************************)
EXTENDS Naturals, FiniteSets

CONSTANTS
  Obj,        \* addresses that malloc may return for an object
  Prim,       \* the content of a cell of type CT_ATOM_PRIMITIVE
  Wild,       \* a CT_ATOM_OBJECT pointer to no object: NULL or leftover memory
  NSlots,     \* CT_CONF_FIXED_SLOT_COUNT
  MaxDepth,   \* CT_CONF_CALLSTACK_SIZE
  MaxSize,    \* bound: the number of cells of the largest container
  MaxLeak,    \* bound: no handler starts after more leaks of one object, or
              \* after its count went further below zero
  ArgCounts,  \* the arg_count entries of the image's procedure table
  Risks       \* what the program or the environment may do, see Risk

(***************************************************************************)
(* "movself":   mov $x $x                                                  *)
(* "getself":   conget $x $x $i                                            *)
(* "overrun":   a call whose arguments start too late to fit in the frame  *)
(* "confusion": conget or conset on a buffer                               *)
(* "toplevel":  a return from the first frame                              *)
(* "oom":       malloc returns NULL                                        *)
(* "garbage":   malloc returns memory that is not zero, a freed container's *)
(*              say, with the objects it held                              *)
(* "modcall":   module calls                                               *)
(***************************************************************************)
Risk == {"movself", "getself", "overrun", "confusion", "toplevel", "oom",
         "garbage", "modcall"}

Frame == 1 .. MaxDepth
Slot  == 0 .. NSlots - 1
Index == 0 .. MaxSize - 1
Cell  == (Frame \X Slot) \cup (Obj \X Index)
Val   == Obj \cup {Prim, Wild}

ASSUME MachineAssumption ==
  /\ NSlots \in Nat \ {0} /\ MaxDepth \in Nat \ {0} /\ MaxSize \in Nat
  /\ MaxLeak \in Nat
  /\ IsFiniteSet(Obj) /\ Obj \cap Frame = {}
  /\ Prim \notin Obj /\ Wild \notin Obj /\ Prim # Wild
  /\ ArgCounts \subseteq Nat
  /\ Risks \subseteq Risk

VARIABLES
  depth,    \* callstack.size; 0 means current_frame = NULL
  fields,   \* object_field_count of each frame, a uint8_t
  ret,      \* return_value_slot of each frame
  atom,     \* content of every cell of the frames and of the containers
  alive,    \* objects that are allocated
  buffers,  \* the objects of type 1 (CtBufferObject); the others are containers
  ref,      \* ref_count of each object
  sub,      \* sub_objects of each container
  size,     \* size of each container, in cells
  doomed,   \* cells whose reference the running handler is giving up
  store,    \* the write that follows once doomed is empty, or NoStore
  popped,   \* the frame above depth was popped and is still to be released
  leak,     \* history: references forgotten without a decrement
  err,      \* ct_thread_error.raised
  next,     \* the only handler that can run next, or Dispatch
  status    \* "running", "stopped" (exec returned) or "fault" (undefined behaviour)

counters == <<fields, sub>>
objects  == <<alive, buffers, size>>
control  == <<err, next, status>>
vars == <<depth, fields, ret, atom, alive, buffers, ref, sub, size,
          doomed, store, popped, leak, err, next, status>>

NoStore  == [cell |-> <<>>, val |-> Prim, via |-> "none"]
Dispatch == "DISPATCH"

(***************************************************************************)
(* NEXT() jumps through the dispatch table only while no error is raised;  *)
(* otherwise control falls through to the handler that follows in the      *)
(* source.                                                                 *)
(***************************************************************************)
After == [ CALL |-> "RETURN", RETURN |-> "RETURN_VAL", RETURN_VAL |-> "MOD_CALL",
           MOD_CALL |-> "CON_NEW", CON_NEW |-> "CON_GET", CON_GET |-> "CON_SET",
           CON_SET |-> "CON_SIZE", CON_SIZE |-> "CON_COPY", CON_COPY |-> "ILLEGAL" ]

Busy == doomed # {} \/ store # NoStore \/ popped

(* Handler h may run now, in a frame.                                      *)
At(h) ==
  /\ status = "running" /\ ~Busy /\ next \in {Dispatch, h}
  /\ \A o \in Obj : leak[o] <= MaxLeak /\ ref[o] + MaxLeak >= 0      \* bounds
In(h) == At(h) /\ depth > 0

(* Handler h ends in NEXT(); e tells whether it raised an error.           *)
GoOn(h, e) ==
  /\ err' = (err \/ e)
  /\ next' = IF err \/ e THEN After[h] ELSE Dispatch
  /\ UNCHANGED status

(* A handler that cannot raise an error and is never fallen into.          *)
GoOnPlain == UNCHANGED control

(* The interpreter returns: CT_CHECK_IF_OBJECT, halt, a failed jump or     *)
(* cast, an illegal instruction.                                           *)
Stop(e) ==
  /\ err' = (err \/ e) /\ status' = "stopped"
  /\ UNCHANGED <<depth, ret, atom, ref, doomed, store, popped, leak, next>>
  /\ UNCHANGED counters /\ UNCHANGED objects

(* Undefined behaviour: the model says nothing about what follows.         *)
Fault ==
  /\ status' = "fault"
  /\ UNCHANGED <<depth, ret, atom, ref, doomed, store, popped, leak, err, next>>
  /\ UNCHANGED counters /\ UNCHANGED objects

-----------------------------------------------------------------------------
(* Wrong versions of operators defined below: each is a slip the code could *)
(* make, and some property must notice it.                                 *)
MinusNoWrap(n)    == n - 1
MinusSkipped(n)   == n
PlusSkipped(n)    == n
OneLessSkipped(n) == n
ArgShort(n, a)    == {<<depth, a + i>> : i \in 1 .. n - 1}
BeginStoreKeeping(c, v, via) ==
  /\ store' = [cell |-> c, val |-> v, via |-> via]
  /\ doomed' = {}
StoredEarly       == doomed = {} /\ popped
StoredCounted     == doomed = {} /\ store = NoStore /\ popped /\ fields[depth + 1] > 0

-----------------------------------------------------------------------------
(* Cells and references                                                    *)

(* The cells of frame or container h whose type is CT_ATOM_OBJECT.         *)
Objects(h) == {c \in Cell : c[1] = h /\ atom[c] # Prim}

(* The first n of them in index order: the loops that give references back *)
(* stop once their counter says so.                                        *)
FirstObjects(h, n) ==
  {c \in Objects(h) : Cardinality({d \in Objects(h) : d[2] < c[2]}) < n}

(* A pointer to no live object.                                            *)
Stray == (Obj \ alive) \cup {Wild}

(* The cells that refer to object o.                                       *)
Refs(o) == {c \in Cell : atom[c] = o}

(* The references to o among the cells C.                                  *)
RefsIn(C, o) == Cardinality({c \in C : atom[c] = o})

(* object_field_count is a uint8_t and a frame has 256 slots: the counter  *)
(* wraps at the number of slots.                                           *)
Plus(n)  == (n + 1) % NSlots
Minus(n) == (n + NSlots - 1) % NSlots

(* if (obj->sub_objects > 0) obj->sub_objects--                            *)
OneLess(n) == IF n = 0 THEN 0 ELSE n - 1

(***************************************************************************)
(* The overwrite of cell c by v: give up the reference c holds, then       *)
(* (FinishStore) write v and take a reference to it.  via says which code  *)
(* does it, hence which counter it keeps: ct_ctx_store_atom and            *)
(* ct_ctx_move_atom count in the frame, ct_container_set in the container, *)
(* ct_ctx_modcall nowhere.                                                 *)
(***************************************************************************)
BeginStore(c, v, via) ==
  /\ store'  = [cell |-> c, val |-> v, via |-> via]
  /\ doomed' = IF atom[c] = Prim THEN {} ELSE {c}

StoreSlot(s, v) ==
  /\ BeginStore(<<depth, s>>, v, "frame")
  /\ fields' = IF atom[<<depth, s>>] = Prim THEN fields
                                        ELSE [fields EXCEPT ![depth] = Minus(@)]

(* What a store into the current frame leaves alone.                       *)
InFrame == UNCHANGED <<depth, ret, popped, leak>>

FinishStore ==
  /\ status = "running" /\ doomed = {} /\ store # NoStore
  /\ \/ /\ store.val \in Stray \/ store.cell[1] \in Obj \ alive
        /\ Fault                                        \* access to freed memory
     \/ /\ store.val \notin Stray /\ store.cell[1] \notin Obj \ alive
        /\ atom'  = [atom EXCEPT ![store.cell] = store.val]
        /\ store' = NoStore
        /\ IF store.val = Prim
           THEN UNCHANGED <<ref, fields, sub>>
           ELSE /\ ref' = [ref EXCEPT ![store.val] = @ + 1]
                /\ fields' = IF store.via = "frame"
                             THEN [fields EXCEPT ![store.cell[1]] = Plus(@)] ELSE fields
                /\ sub' = IF store.via = "container"
                          THEN [sub EXCEPT ![store.cell[1]] = @ + 1] ELSE sub
        /\ UNCHANGED <<doomed, control, objects>> /\ InFrame

(* The cells C are dropped without a decrement of the counts they hold.    *)
Forget(C) == leak' = [o \in Obj |-> leak[o] + RefsIn(C, o)]

(***************************************************************************)
(* ct_objects_dec_ref on the reference in a doomed cell and, at zero,      *)
(* ct_objects_del_object: the deleter of a container gives up the first    *)
(* sub_objects references it holds.  The code recurses where the model     *)
(* adds to doomed; the decrements commute, so their order is left open.    *)
(* What a freed object or a popped frame holds is not read again: its      *)
(* counters are reset to keep the states few.  (With dirty memory a count  *)
(* may go below zero, where the code's wraps, and a container may give up  *)
(* itself while it is deleted, which is taken for an access to a freed     *)
(* object.)                                                                *)
(***************************************************************************)
DropRef(c) ==
  LET o    == atom[c]
      mine == FirstObjects(o, sub[o])
      lost == Objects(o) \ mine
      safe == o \in alive /\ (ref[o] = 1 => sub[o] <= Cardinality(Objects(o)))
  IN
  /\ status = "running" /\ c \in doomed
  /\ \/ /\ ~safe
        /\ Fault
     \/ /\ safe /\ ref[o] # 1
        /\ atom' = [atom EXCEPT ![c] = Prim]
        /\ ref'  = [ref EXCEPT ![o] = @ - 1]
        /\ doomed' = doomed \ {c}
        /\ UNCHANGED <<depth, ret, store, popped, leak, counters, objects, control>>
     \/ /\ safe /\ ref[o] = 1
        /\ alive' = alive \ {o}
        /\ atom' = [d \in Cell |-> IF d \in lost \cup {c} THEN Prim ELSE atom[d]]
        /\ ref'  = [ref EXCEPT ![o] = 0]
        /\ doomed' = (doomed \cup mine) \ {c}
        /\ Forget(lost \ {c})
        /\ buffers' = buffers \ {o}
        /\ size' = [size EXCEPT ![o] = 0] /\ sub' = [sub EXCEPT ![o] = 0]
        /\ UNCHANGED <<depth, fields, ret, store, popped, control>>

-----------------------------------------------------------------------------
(* Handlers that overwrite a slot by a primitive: seti, setu, setf, the    *)
(* casts, arithmetic, logic, bitwise, inc, dec and compare resolvers.      *)
StorePrim(d) ==
  /\ In("PRIM") /\ StoreSlot(d, Prim)
  /\ GoOnPlain /\ InFrame
  /\ UNCHANGED <<atom, ref, sub, objects>>

(* ct_ctx_move_atom                                                        *)
Mov(d, s) ==
  /\ In("MOV") /\ (d # s \/ "movself" \in Risks)
  /\ StoreSlot(d, atom[<<depth, s>>])
  /\ GoOnPlain /\ InFrame
  /\ UNCHANGED <<atom, ref, sub, objects>>

(* halt, a failed jump, a cast out of range: exec returns.                 *)
Halt        == In("HALT") /\ Stop(FALSE)
FailedJump  == At("JMP") /\ Stop(TRUE)
FailedCast  == In("CAST") /\ Stop(TRUE)
Illegal     == At("ILLEGAL") /\ Stop(TRUE)

(* Any other handler dereferences current_frame, which is NULL at depth 0. *)
NullFrame ==
  /\ status = "running" /\ ~Busy /\ depth = 0
  /\ next \notin {"RETURN", "ILLEGAL"}
  /\ Fault

-----------------------------------------------------------------------------
(* Procedure calls                                                         *)

(***************************************************************************)
(* ct_ctx_call_procedure for a procedure of n arguments that start at slot *)
(* a, its result going to slot r.                                          *)
(***************************************************************************)
Arg(n, a) == {<<depth, a + i>> : i \in 0 .. n - 1}

Call(n, a, r) ==
  /\ In("CALL") /\ depth < MaxDepth /\ n < NSlots
  /\ a + n <= NSlots /\ \A c \in Arg(n, a) : atom[c] \notin Stray
  /\ depth' = depth + 1
  /\ atom' = [c \in Cell |->
                IF c[1] # depth + 1 THEN atom[c]
                ELSE IF c[2] < n THEN atom[<<depth, a + c[2]>>] ELSE Prim]
  /\ ref' = [o \in Obj |-> ref[o] + RefsIn(Arg(n, a), o)]
  /\ fields' = [fields EXCEPT ![depth + 1] =
                  Cardinality({c \in Arg(n, a) : atom[c] # Prim}) % NSlots]
  /\ ret' = [ret EXCEPT ![depth + 1] = r]
  /\ GoOn("CALL", FALSE)
  /\ UNCHANGED <<sub, doomed, store, popped, leak, objects>>

(* Arguments past the last slot are read from outside the frame's arrays;  *)
(* one that is stray is counted in freed memory.                           *)
CallFaults(n, a) ==
  /\ In("CALL") /\ depth < MaxDepth /\ n < NSlots
  /\ IF a + n > NSlots THEN "overrun" \in Risks
                       ELSE \E c \in Arg(n, a) : atom[c] \in Stray
  /\ Fault

(* RecursionDepth, InvalidProcedure and TooManyArguments: nothing changes  *)
(* but the error.  The operand that names the procedure is any value.      *)
CallFails ==
  /\ In("CALL")
  /\ GoOn("CALL", TRUE)
  /\ UNCHANGED <<depth, ret, atom, ref, doomed, store, popped, leak, counters, objects>>

(***************************************************************************)
(* ct_ctx_return_procedure with result v.  The result is stored in the     *)
(* caller's frame first; ReleaseFrame then gives back the references of    *)
(* the popped frame.  From the last frame it only clears running, which    *)
(* NEXT() does not read.                                                   *)
(***************************************************************************)
ReturnValue(h, v) ==
  \/ /\ depth <= 1 /\ (depth = 1 => "toplevel" \in Risks \/ err)
     /\ depth' = 0
     /\ GoOn(h, FALSE)
     /\ UNCHANGED <<ret, atom, ref, doomed, store, popped, leak, counters, objects>>
  \/ /\ depth > 1
     /\ depth' = depth - 1 /\ popped' = TRUE
     /\ LET c == <<depth - 1, ret[depth]>> IN
          /\ BeginStore(c, v, "frame")
          /\ fields' = IF atom[c] = Prim THEN fields
                                         ELSE [fields EXCEPT ![depth - 1] = Minus(@)]
     /\ GoOn(h, FALSE)
     /\ UNCHANGED <<ret, atom, ref, leak, sub, objects>>

Return       == At("RETURN") /\ ReturnValue("RETURN", Prim)
ReturnVal(s) == In("RETURN_VAL") /\ ReturnValue("RETURN_VAL", atom[<<depth, s>>])

(* The result is stored: what remains is the popped frame.                 *)
Stored == doomed = {} /\ store = NoStore /\ popped

(* The loop at the end of ct_ctx_return_procedure.                         *)
ReleaseFrame ==
  LET top  == depth + 1
      mine == FirstObjects(top, fields[top])
      lost == Objects(top) \ mine
  IN
  /\ status = "running" /\ Stored
  /\ popped' = FALSE
  /\ doomed' = mine
  /\ atom' = [c \in Cell |-> IF c \in lost THEN Prim ELSE atom[c]]
  /\ Forget(lost)
  /\ fields' = [fields EXCEPT ![top] = 0]
  /\ ret' = [ret EXCEPT ![top] = 0]
  /\ UNCHANGED <<depth, ref, sub, store, objects, control>>

-----------------------------------------------------------------------------
(* Allocation and containers                                               *)

(* ct_objects_new_object: o is a fresh object of n cells with content f.   *)
Allocate(o, n, f) ==
  /\ o \in Obj \ alive
  /\ alive' = alive \cup {o}
  /\ ref' = [ref EXCEPT ![o] = 0]
  /\ size' = [size EXCEPT ![o] = n]
  /\ atom' = [c \in Cell |-> IF c[1] = o THEN f[c[2]] ELSE atom[c]]

(* ct_container_new leaves the cells as malloc returned them: with dirty   *)
(* memory each holds anything, a live object too, which it does not count. *)
Fresh(n) ==
  {f \in [Index -> IF "garbage" \in Risks THEN Val ELSE {Prim}] :
     \A i \in Index : i >= n => f[i] = Prim}

ConNew(d, n) ==
  /\ In("CON_NEW")
  /\ \E o \in Obj : \E f \in Fresh(n) :
       /\ Allocate(o, n, f)
       /\ buffers' = buffers \ {o}
       /\ sub' = [sub EXCEPT ![o] = 0]
       /\ StoreSlot(d, o)
  /\ GoOn("CON_NEW", FALSE) /\ InFrame

(* No memory: the handler stores the NULL it got as an object.             *)
ConNewFails(h, d) ==
  /\ In(h) /\ "oom" \in Risks
  /\ StoreSlot(d, Wild)
  /\ GoOn(h, TRUE) /\ InFrame
  /\ UNCHANGED <<atom, ref, sub, objects>>

(* CT_CHECK_IF_OBJECT fails, in handler h, on slot c.                      *)
TypeError(h, c) == In(h) /\ atom[<<depth, c>>] = Prim /\ Stop(TRUE)

(* Slot c holds a container, or is taken for one.                          *)
Container(h, c) == In(h) /\ atom[<<depth, c>>] \in alive \ buffers
Confusion(h, c) ==
  /\ In(h) /\ atom[<<depth, c>>] \in Stray \cup
               (IF h # "CON_SIZE" /\ ("confusion" \in Risks \/ err) THEN buffers ELSE {})
  /\ Fault

ConGet(d, c, i) ==
  /\ Container("CON_GET", c) /\ (d # c \/ "getself" \in Risks \/ err)
  /\ LET o == atom[<<depth, c>>] IN
       \/ /\ i >= size[o]
          /\ StoreSlot(d, Prim) /\ GoOn("CON_GET", TRUE)
       \/ /\ i < size[o]
          /\ StoreSlot(d, atom[<<o, i>>]) /\ GoOn("CON_GET", FALSE)
  /\ InFrame /\ UNCHANGED <<atom, ref, sub, objects>>

ConSet(c, i, s) ==
  /\ Container("CON_SET", c)
  /\ LET o == atom[<<depth, c>>] IN
       \/ /\ i >= size[o]
          /\ GoOn("CON_SET", TRUE)
          /\ UNCHANGED <<doomed, store, sub>>
       \/ /\ i < size[o]
          /\ BeginStore(<<o, i>>, atom[<<depth, s>>], "container")
          /\ sub' = IF atom[<<o, i>>] = Prim THEN sub
                                         ELSE [sub EXCEPT ![o] = OneLess(@)]
          /\ GoOn("CON_SET", FALSE)
  /\ InFrame /\ UNCHANGED <<atom, ref, fields, objects>>

(* The size of a buffer read as a container's is still just a number.      *)
ConSize(d, c) ==
  /\ In("CON_SIZE") /\ atom[<<depth, c>>] \in alive
  /\ StoreSlot(d, Prim) /\ GoOn("CON_SIZE", FALSE)
  /\ InFrame /\ UNCHANGED <<atom, ref, sub, objects>>

(***************************************************************************)
(* ct_container_copy asks for as many cells as the original has bytes.     *)
(* ByteSize keeps that it is more than its cells, scaled down: the code's  *)
(* is 72 + 9 * n.                                                          *)
(***************************************************************************)
ByteSize(n) == n + 1

CopyOf(o, f) == [i \in Index |-> IF i < size[o] THEN atom[<<o, i>>] ELSE f[i]]

ConCopy(d, c) ==
  LET o == atom[<<depth, c>>]
      counted == FirstObjects(o, sub[o])
  IN
  /\ Container("CON_COPY", c)
  /\ \/ /\ \E x \in counted : atom[x] \in Stray
        /\ Fault
     \/ /\ \A x \in counted : atom[x] \notin Stray
        /\ ByteSize(size[o]) <= MaxSize         \* bound
        /\ \E p \in Obj \ alive : \E f \in Fresh(ByteSize(size[o])) :
             /\ alive' = alive \cup {p}
             /\ ref' = [q \in Obj |-> IF q = p THEN 0 ELSE ref[q] + RefsIn(counted, q)]
             /\ size' = [size EXCEPT ![p] = ByteSize(size[o])]
             /\ atom' = [x \in Cell |-> IF x[1] = p THEN CopyOf(o, f)[x[2]] ELSE atom[x]]
             /\ buffers' = buffers \ {p}
             /\ sub' = [sub EXCEPT ![p] = sub[o]]
             /\ StoreSlot(d, p)
        /\ GoOn("CON_COPY", FALSE) /\ InFrame

-----------------------------------------------------------------------------
(* Module calls: ct_ctx_modcall                                            *)

(* The method returned a primitive, or nothing, which reads as 0.          *)
ModCallPrim(r) ==
  /\ In("MOD_CALL") /\ "modcall" \in Risks /\ ~err
  /\ BeginStore(<<depth, r>>, Prim, "modcall")
  /\ GoOn("MOD_CALL", FALSE) /\ InFrame
  /\ UNCHANGED <<atom, ref, counters, objects>>

(* The method returned a new buffer.                                       *)
ModCallBuffer(r) ==
  /\ In("MOD_CALL") /\ "modcall" \in Risks /\ ~err
  /\ \E o \in Obj :
       /\ Allocate(o, 0, [i \in Index |-> Prim])
       /\ buffers' = buffers \cup {o}
       /\ sub' = [sub EXCEPT ![o] = 0]
       /\ BeginStore(<<depth, r>>, o, "modcall")
  /\ GoOn("MOD_CALL", FALSE) /\ InFrame /\ UNCHANGED fields

(* An error, raised by the lookup, the alignment check or the method, or   *)
(* still raised from before: the result slot is left alone.                *)
ModCallFails ==
  /\ In("MOD_CALL") /\ ("modcall" \in Risks \/ err)
  /\ GoOn("MOD_CALL", TRUE)
  /\ UNCHANGED <<depth, ret, atom, ref, doomed, store, popped, leak, counters, objects>>

(* As above, but the method had made a buffer: its data could not be       *)
(* allocated, or the result is not stored because of the earlier error.    *)
ModCallOrphan ==
  /\ In("MOD_CALL") /\ ({"modcall", "oom"} \subseteq Risks \/ err)
  /\ \E o \in Obj :
       /\ Allocate(o, 0, [i \in Index |-> Prim])
       /\ buffers' = buffers \cup {o}
       /\ sub' = [sub EXCEPT ![o] = 0]
  /\ GoOn("MOD_CALL", TRUE) /\ InFrame /\ UNCHANGED <<fields, doomed, store>>

(* A buffer method accesses memory that is not the buffer's: see Buffer for *)
(* when it does.                                                           *)
ModCallFaults ==
  /\ In("MOD_CALL") /\ ("modcall" \in Risks \/ err)
  /\ \E s \in Slot : atom[<<depth, s>>] \in buffers \cup Stray
  /\ Fault

-----------------------------------------------------------------------------
Init ==
  /\ depth = 1 /\ fields = [f \in Frame |-> 0] /\ ret = [f \in Frame |-> 0]
  /\ atom = [c \in Cell |-> Prim]
  /\ alive = {} /\ buffers = {}
  /\ ref = [o \in Obj |-> 0] /\ sub = [o \in Obj |-> 0] /\ size = [o \in Obj |-> 0]
  /\ doomed = {} /\ store = NoStore /\ popped = FALSE
  /\ leak = [o \in Obj |-> 0]
  /\ err = FALSE /\ next = Dispatch /\ status = "running"

(* What is left to do of the handler that runs.                            *)
Continue == FinishStore \/ ReleaseFrame \/ \E c \in doomed : DropRef(c)

Calls ==
  \/ \E n \in ArgCounts, a \in Slot : (\E r \in Slot : Call(n, a, r)) \/ CallFaults(n, a)
  \/ CallFails
  \/ Return
  \/ \E s \in Slot : ReturnVal(s)

Containers ==
  \/ \E d \in Slot, n \in 0 .. MaxSize : ConNew(d, n)
  \/ \E d \in Slot, h \in {"CON_NEW", "CON_COPY"} : ConNewFails(h, d)
  \/ \E c \in Slot, h \in {"CON_GET", "CON_SET", "CON_SIZE", "CON_COPY"} : TypeError(h, c)
  \/ \E c \in Slot, h \in {"CON_GET", "CON_SET", "CON_SIZE", "CON_COPY"} : Confusion(h, c)
  \/ \E d, c \in Slot, i \in 0 .. MaxSize : ConGet(d, c, i)
  \/ \E c, s \in Slot, i \in 0 .. MaxSize : ConSet(c, i, s)
  \/ \E d, c \in Slot : ConSize(d, c) \/ ConCopy(d, c)

ModCalls ==
  \/ ModCallFails \/ ModCallOrphan \/ ModCallFaults
  \/ \E r \in Slot : ModCallPrim(r) \/ ModCallBuffer(r)

Others ==
  \/ \E d \in Slot : StorePrim(d)
  \/ \E d, s \in Slot : Mov(d, s)
  \/ Halt \/ FailedJump \/ FailedCast \/ Illegal \/ NullFrame

Next == Continue \/ Calls \/ Containers \/ ModCalls \/ Others

Spec == Init /\ [][Next]_vars

(* The thread that runs a handler goes on with it.                         *)
FairSpec == Spec /\ WF_vars(Continue)

-----------------------------------------------------------------------------
(* Invariants                                                              *)

(* Every counter stays in the range of its C type, and every cell, object  *)
(* and pending write is one the machine can name.                          *)
TypeOK ==
  /\ depth \in 0 .. MaxDepth
  /\ fields \in [Frame -> Slot] /\ ret \in [Frame -> Slot]
  /\ atom \in [Cell -> Val]
  /\ alive \subseteq Obj /\ buffers \subseteq Obj
  /\ ref \in [Obj -> Nat] /\ sub \in [Obj -> Nat] /\ size \in [Obj -> 0 .. MaxSize]
  /\ doomed \subseteq Cell
  /\ \/ store = NoStore
     \/ store \in [cell : Cell, val : Val, via : {"frame", "container", "modcall"}]
  /\ popped \in BOOLEAN /\ (popped => depth < MaxDepth)
  /\ leak \in [Obj -> Nat] /\ err \in BOOLEAN
  /\ next \in DOMAIN After \cup {Dispatch, "ILLEGAL"}
  /\ status \in {"running", "stopped", "fault"}

(* No cell of a frame or container, those being torn down included, refers *)
(* to a freed object: ct_objects_dec_ref frees at the right moment.        *)
NoDangling == \A c \in Cell : atom[c] \in Obj => atom[c] \in alive

(* ref_count is the number of cells that hold the object, plus those that  *)
(* were forgotten: no store, call, return, copy or deletion miscounts.     *)
RefExact ==
  \A o \in alive : ref[o] = Cardinality(Refs(o)) + leak[o]

(* sub_objects is the number of references a container still owns, so its  *)
(* deleter neither runs past the last cell nor forgets a reference.  (A    *)
(* buffer owns none.)                                                      *)
SubExact ==
  \A o \in alive : sub[o] = Cardinality(Objects(o) \ doomed)

(* object_field_count is the number of object slots of the frame, as far   *)
(* as a uint8_t can say.                                                   *)
FieldCountExact ==
  \A f \in Frame : fields[f] = Cardinality(Objects(f) \ doomed) % NSlots

(* What a mov, conget, return, connew or concopy is about to write to its  *)
(* destination has survived the release of what the destination held.      *)
(* (After an error a conget may run that overwrites its own container.)    *)
StoredIsAlive ==
  store # NoStore /\ ~err /\ status = "running" => store.val \in alive \cup {Prim}

(* Between two handlers every object is held somewhere: what an            *)
(* instruction creates is stored, what loses its last holder is freed.     *)
NoOrphan ==
  ~Busy /\ ~err /\ status = "running" =>
    \A o \in alive : Refs(o) # {} \/ leak[o] > 0

(* Whatever the program does (apart from Risks), the machine reads and     *)
(* writes only memory it owns, as long as no error was raised.             *)
CleanUntilError == status = "fault" => err

(* A reference is only ever forgotten when a frame is popped whose slots   *)
(* are all objects: there object_field_count has wrapped to 0.             *)
LeakOnlyWhenFull ==
  [][leak' # leak => popped /\ Cardinality(Objects(depth + 1)) = NSlots]_vars

(* The release of references that a handler starts comes to an end, also   *)
(* when containers hold each other in a cycle.                             *)
HandlerEnds == Busy ~> (~Busy \/ status # "running")

-----------------------------------------------------------------------------
(* The inductive invariant behind NoDangling, RefExact and SubExact, for    *)
(* memory that malloc returns as zero.                                      *)

(* No cell holds a pointer to no object.                                    *)
NoWild == \A c \in Cell : atom[c] # Wild

(* No reference lies past the last cell of its container.                   *)
RefsInside == \A c \in Cell : c[1] \in alive /\ atom[c] # Prim => c[2] < size[c[1]]

(* What a freed object still holds is about to be given up, and no          *)
(* reference to it was forgotten.                                           *)
DeadHoldNothing ==
  /\ \A c \in Cell : c[1] \in Obj \ alive /\ c \notin doomed => atom[c] = Prim
  /\ \A o \in Obj \ alive : leak[o] = 0

(* So is what lies above the top frame, but for the frame just popped.      *)
AboveTopIsClear ==
  depth > 0 =>
    \A c \in Cell : /\ c[1] \in Frame /\ c[1] > depth /\ c \notin doomed
                    /\ ~(popped /\ c[1] = depth + 1)
                    => atom[c] = Prim

(* The cell to be written holds nothing that would be lost, and its owner   *)
(* will still be there.                                                     *)
StoreHasTarget ==
  store # NoStore =>
    /\ store.cell \in doomed \/ atom[store.cell] = Prim
    /\ store.via # "container" => store.cell[1] \in Frame /\ store.cell[1] <= depth
    /\ store.via = "container" =>
         /\ store.cell[1] \in Obj /\ store.cell[2] < size[store.cell[1]] /\ depth > 0
         /\ \E s \in Slot : /\ <<depth, s>> \in Cell \ doomed
                          /\ atom[<<depth, s>>] = store.cell[1]

(* Together they are preserved by every step.                               *)
Inv ==
  /\ TypeOK /\ NoDangling /\ RefExact /\ SubExact
  /\ NoWild /\ RefsInside /\ DeadHoldNothing
  /\ AboveTopIsClear /\ StoreHasTarget

-----------------------------------------------------------------------------
(* What the documentation promises and the code does not keep              *)

(* Automatic memory management: no reference is forgotten.                 *)
NoLeak == \A o \in Obj : leak[o] = 0

(* Nor is an object freed that a slot of a frame holds.                    *)
SlotsHoldLive ==
  \A f \in Frame, s \in Slot : atom[<<f, s>>] \in alive \cup {Prim}

(* A return from the first procedure has the effect of halt: once no frame *)
(* is left, nothing runs.                                                  *)
LastReturnHalts == depth = 0 => status # "running"
=============================================================================
