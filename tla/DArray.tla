------------------------------- MODULE DArray -------------------------------
(***************************************************************************)
(* The dynamic array behind every array of the scene (darray.c): a buffer  *)
(* with a capacity, which doubles when it is full and is halved when a pop *)
(* finds it at most a third full.  Resizing sets the number of elements to *)
(* the capacity; push and pop put it right again.                          *)
(***************************************************************************)
EXTENDS Integers, Sequences

CONSTANTS
  Items,
  Rubbish,   \* what memory holds that nobody wrote
  MaxItems   \* bound on the number of elements

ASSUME DArrayAssumption == Rubbish \notin Items /\ MaxItems \in Nat

VARIABLES
  nelem,
  maxElem,   \* the capacity
  mem,       \* the buffer
  items      \* what its user put there

arrVars == <<nelem, maxElem, mem, items>>

\* realloc, as in darr_resize_impl: the elements that fit are kept.
Resized(n) == [i \in 0 .. n - 1 |-> IF i < maxElem THEN mem[i] ELSE Rubbish]

\* The capacity in which a push stores its item.
Grown == IF nelem < maxElem THEN maxElem ELSE IF maxElem = 0 THEN 1 ELSE 2 * maxElem

Push(x) ==
  /\ nelem < MaxItems
  /\ maxElem' = Grown
  /\ mem' = [Resized(Grown) EXCEPT ![nelem] = x]
  /\ nelem' = nelem + 1
  /\ items' = Append(items, x)

\* Mutant: half full arrays are cut to a third.
Shrunk_Swapped == IF nelem <= maxElem \div 2 THEN maxElem \div 3 ELSE maxElem

Shrunk == IF nelem <= maxElem \div 3 THEN maxElem \div 2 ELSE maxElem

\* Popping an empty array does nothing.
Pop ==
  /\ nelem > 0
  /\ maxElem' = Shrunk
  /\ mem' = Resized(Shrunk)
  /\ nelem' = nelem - 1
  /\ items' = SubSeq(items, 1, Len(items) - 1)

Clear ==
  /\ maxElem' = 0 /\ nelem' = 0
  /\ mem' = Resized(0)
  /\ items' = <<>>

\* The user stores into an element, as scn_rm_object does before it pops.
Store(i, x) ==
  /\ i < nelem
  /\ mem' = [mem EXCEPT ![i] = x]
  /\ items' = [items EXCEPT ![i + 1] = x]
  /\ UNCHANGED <<nelem, maxElem>>

ArrInit ==
  /\ nelem = 0 /\ maxElem = 0
  /\ mem = [i \in 0 .. -1 |-> Rubbish]
  /\ items = <<>>

ArrNext ==
  \/ \E x \in Items : Push(x)
  \/ Pop
  \/ Clear
  \/ \E i \in 0 .. nelem - 1, x \in Items : Store(i, x)

ArrSpec == ArrInit /\ [][ArrNext]_arrVars

-----------------------------------------------------------------------------
ArrTypeOK ==
  /\ nelem \in Nat /\ maxElem \in Nat
  /\ mem \in [0 .. maxElem - 1 -> Items \cup {Rubbish}]
  /\ items \in Seq(Items)

\* After any sequence of pushes, pops and stores the array is within its
\* capacity and holds what was put there: no item is lost where the buffer
\* shrinks (darray.c:117) or grows.
HoldsItems ==
  /\ nelem <= maxElem
  /\ nelem = Len(items)
  /\ \A i \in 0 .. nelem - 1 : mem[i] = items[i + 1]
=============================================================================
