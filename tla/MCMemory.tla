------------------------------ MODULE MCMemory ------------------------------
(***************************************************************************)
(* The heap, the lists that the allocators keep, the memory at boot, and   *)
(* the helpers of src/src/common, checked side by side: they share no      *)
(* variable, and a behaviour is one of part.                               *)
(***************************************************************************)
EXTENDS Heap, LinkedList, BootMemory, Helpers

EntriesSmall == <<[size |-> 4, pages |-> 2], [size |-> 8, pages |-> 3]>>
OrdersSmall  == 0 .. 3
PagesSmall   == 0 .. 11
SizePow      == [k \in OrdersSmall |-> 2 ^ k]
ImageSmall   == {4, 8}
VcSmall      == {PAGE_SIZE * k : k \in 20 .. 27}

NoByte       == [a \in 0 .. MemSize - 1 |-> 0]

VARIABLE part

mcvars == <<part, hvars, lvars, bvars, uvars>>

MemoryInit == /\ part \in {"heap", "list", "boot", "copy", "bits"}
              /\ HInit /\ LInit /\ BInit /\ UInit
              /\ part # "list" => type = "SLL"
              /\ part # "copy" => mem = NoByte
              /\ part # "bits" => width = Max(Widths)

MemoryNext ==
  /\ UNCHANGED part
  /\ \/ part = "heap" /\ HNext /\ UNCHANGED <<lvars, bvars, uvars>>
     \/ part = "list" /\ LNext /\ UNCHANGED <<hvars, bvars, uvars>>
     \/ part = "boot" /\ BNext /\ UNCHANGED <<hvars, lvars, uvars>>
     \/ part = "copy" /\ CopyNext   /\ UNCHANGED <<hvars, lvars, bvars>>
     \/ part = "bits" /\ BitmapCall /\ UNCHANGED <<hvars, lvars, bvars>>

MemorySpec == MemoryInit /\ [][MemoryNext]_mcvars
=============================================================================
