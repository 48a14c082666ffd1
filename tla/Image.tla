-------------------------------- MODULE Image --------------------------------
(***************************************************************************)
(* The image between the assembler and the runtime: the table the code     *)
(* generator builds, the file that is written without asking whether that  *)
(* succeeded, and the loader with the checks it makes.  When the file      *)
(* cannot be opened it keeps what stood there before, which the loader     *)
(* then finds; what that was is chosen then.                               *)
(***************************************************************************)
EXTENDS Integers, Sequences

CONSTANT Earlier       \* what may stand in the file before it is written: any file

VARIABLES procedures,  \* what the resolver made
          instructions,
          file,        \* the image file
          image,       \* the runtime's image
          stage        \* how far the image has come; "kept" and "stale" instead of
                       \* "written" and "loaded" if the file could not be opened

vars == <<procedures, instructions, file, image, stage>>

Empty == [table |-> <<>>, pool |-> <<>>]
NoEntry == [address |-> 0, arg_count |-> 0]

\* What the header of a file says of it: "none" is no file, "cut" a file too
\* short for a magic number, "stub" one too short for the rest of the header.
HeadState == {"none", "cut", "stub", "foreign", "version", "ok"}
NoFile == [head |-> "none", procedure_count |-> 0, instruction_count |-> 0,
           table |-> <<>>, pool |-> <<>>]

\* The table has as many entries as there are procedures; resize(id) makes no
\* room for entry id, so an id beyond them is written behind the table.
TooLarge == \E i \in 1..Len(procedures) : procedures[i].id >= Len(procedures)

\* Mutant: entries in the order of the source.
TableInOrder ==
  [e \in 1..Len(procedures) |->
     [address |-> procedures[e].address, arg_count |-> procedures[e].arg_count]]

\* Of several procedures with one id the last stays, an id not used is blank.
Table ==
  [e \in 1..Len(procedures) |->
     LET own == {i \in 1..Len(procedures) : procedures[i].id = e - 1}
     IN  IF own = {} THEN NoEntry
         ELSE LET p == procedures[CHOOSE i \in own : \A j \in own : j <= i]
              IN  [address |-> p.address, arg_count |-> p.arg_count]]

\* The first n entries and the first m bytes of the image reach the disk.
Written(n, m) == [head |-> "ok",
                  procedure_count |-> Len(procedures), instruction_count |-> Len(instructions),
                  table |-> SubSeq(Table, 1, n), pool |-> SubSeq(instructions, 1, m)]

Overflow ==
  /\ stage = "none"
  /\ TooLarge
  /\ stage' = "fault"
  /\ UNCHANGED <<procedures, instructions, file, image>>

\* ct_image_write in full, or cut short anywhere; nobody reads its status.
Write ==
  /\ stage = "none"
  /\ ~TooLarge
  /\ file' = Written(Len(procedures), Len(instructions))
  /\ stage' = "written"
  /\ UNCHANGED <<procedures, instructions, image>>

WriteFails ==
  /\ stage = "none"
  /\ ~TooLarge
  /\ \/ \E head \in {"cut", "stub"} : file' = [NoFile EXCEPT !.head = head]
     \/ \E n \in 0..(Len(procedures) - 1) : file' = Written(n, 0)
     \/ \E m \in 0..(Len(instructions) - 1) : file' = Written(Len(procedures), m)
  /\ stage' = "written"
  /\ UNCHANGED <<procedures, instructions, image>>

\* fopen fails: the file is what it was, an older image perhaps.
OpenFails ==
  /\ stage = "none"
  /\ ~TooLarge
  /\ file' \in Earlier
  /\ stage' = "kept"
  /\ UNCHANGED <<procedures, instructions, image>>

-----------------------------------------------------------------------------
(* ct_image_read and what ct_runtime_load does with its status. *)

ShortTable == Len(file.table) < file.procedure_count
\* Mutant: the number of bytes read is not compared.
ShortPoolUnchecked == FALSE

ShortPool == Len(file.pool) < file.instruction_count

InFile == stage \in {"written", "kept"}

Load ==
  /\ InFile
  /\ file.head = "ok"
  /\ ~ShortTable
  /\ ~ShortPool
  /\ image' = [table |-> file.table, pool |-> file.pool]
  /\ stage' = IF stage = "kept" THEN "stale" ELSE "loaded"
  /\ UNCHANGED <<procedures, instructions, file>>

\* Once the magic number was read, ct_runtime_end frees both pointers of the
\* image: those malloc has not set yet are what the stack held.
JunkFreed == \/ file.head \in {"stub", "version"}
             \/ file.head = "ok" /\ ShortTable

LoadFails ==
  /\ InFile
  /\ \/ file.head # "ok"
     \/ ShortTable
     \/ ShortPool
  /\ stage' \in {"refused"} \cup (IF JunkFreed THEN {"fault"} ELSE {})
  /\ UNCHANGED <<procedures, instructions, file, image>>

\* malloc returns NULL for the table or the pool, and fread writes there.
LoadCrashes ==
  /\ InFile
  /\ file.head = "ok"
  /\ file.table # <<>> \/ (~ShortTable /\ file.pool # <<>>)
  /\ stage' = "fault"
  /\ UNCHANGED <<procedures, instructions, file, image>>

Init == file = NoFile /\ image = Empty /\ stage = "none"

Next == Overflow \/ Write \/ WriteFails \/ OpenFails \/ Load \/ LoadFails \/ LoadCrashes

-----------------------------------------------------------------------------
TypeOK ==
  /\ file.head \in HeadState
  /\ Len(file.table) <= file.procedure_count
  /\ Len(file.pool) <= file.instruction_count
  /\ stage \in {"none", "written", "kept", "loaded", "stale", "refused", "fault"}

\* An image that runs is whole: a write that failed half-way is noticed by the
\* loader, though not by the assembler.  It is the image the assembler made
\* last, or, if the file could not be opened, the one that stood there.
LoadedExact ==
  /\ stage = "loaded" =>
       /\ image.pool = instructions
       /\ Len(image.table) = Len(procedures)
  /\ stage = "stale" =>
       \E f \in Earlier : /\ f.head = "ok"
                         /\ Len(f.table) = f.procedure_count
                         /\ Len(f.pool) = f.instruction_count
                         /\ image = [table |-> f.table, pool |-> f.pool]

\* Entry id of the table that runs holds the address and the argument count of
\* the procedure with that id, in whatever order the source has them.
TableExact ==
  stage = "loaded" =>
    \A i \in 1..Len(procedures) :
      (\A j \in 1..Len(procedures) : procedures[j].id = procedures[i].id => j = i) =>
        image.table[procedures[i].id + 1] =
          [address |-> procedures[i].address, arg_count |-> procedures[i].arg_count]
=============================================================================
