----------------------------- MODULE MCPinnConnect -----------------------------
(* Instances of PinnConnect for TLC. *)
EXTENDS PinnConnect, TLC

CONSTANTS t1, t2, g1, g2, g3, c1, c2, c3

\* Every request has the same signature, or each its own.
OneSig == [t \in Tasks |-> 1]
OwnSig == [t \in Tasks |-> t]

\* No scheduled_at; the second task in the future.
AtOnce   == [t \in Tasks |-> NoTime]
OneLater == [t \in Tasks |-> IF t = t2 THEN 1 ELSE NoTime]
AllLater == [t \in Tasks |-> 1]

Symmetry == Permutations(Goroutines) \cup Permutations(Conts)

==============================================================================
