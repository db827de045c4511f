----------------------------- MODULE Relocation -----------------------------
(***************************************************************************)
(* Pointers into the executable as objects: src/src/relocation.rs, and     *)
(* StaticRef and StaticFn, which wrap it.  The executable is mapped at     *)
(* another address in each process; a place of it keeps its distance to    *)
(* BASE_ADDRESS.  Addresses are machine words of Word values and wrap      *)
(* around.                                                                 *)
(***************************************************************************)
EXTENDS Integers

CONSTANTS
    Word,        \* number of values of a usize
    Processes,
    Base,        \* Base[p]: the value of BASE_ADDRESS in process p
    Places       \* distances of functions, statics and vtables to BASE_ADDRESS

Address == 0..(Word - 1)

\* Every place is mapped at an address in every process.
ASSUME RelocationAssumption ==
    /\ Word \in Nat \ {0}
    /\ Base \in [Processes -> Address]
    /\ Places \subseteq Int
    /\ \A p \in Processes, place \in Places : Base[p] + place \in Address

AddressOf(place, p) == Base[p] + place

WrappingSub(a, b) == IF a >= b THEN a - b ELSE a + Word - b

WrappingAdd(a, b) == IF a + b < Word THEN a + b ELSE a + b - Word

\* RelocatablePtr::serialize_self in process p.
RelocateOut(address, p) == WrappingSub(address, Base[p])

\* RelocatablePtr::deserialize_self in process p.
RelocateIn(offset, p) == WrappingAdd(Base[p], offset)
=============================================================================
