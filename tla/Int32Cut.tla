-------------------------------- MODULE Int32Cut --------------------------------
(* Go's conversion int32(n) of an int. *)
EXTENDS Integers

CONSTANT IntHalf   \* how many int32 are negative: 2^31

ASSUME WidthAssumption == IntHalf \in Nat \ {0}

Int32(n) == ((n + IntHalf) % (2 * IntHalf)) - IntHalf

==============================================================================
