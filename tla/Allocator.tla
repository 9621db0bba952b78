----------------------------- MODULE Allocator -----------------------------
(* What a heap promises: memory is given to one task at a time, in one     *)
(* piece of at least the bytes asked for, and stays its own until it gives *)
(* it back.                                                                *)
EXTENDS Integers

CONSTANTS Task, Unit, Alignment, Request

VARIABLE given  \* the pieces given: whose, from which unit to which, for how much

Piece == [owner : Task, first : Unit, last : Unit, bytes : Request]

Init == given = {}

Overlaps(x, y) == x.first <= y.last /\ y.first <= x.last

Allocate(x) ==
  /\ x.bytes > 0 /\ x.bytes <= Alignment * (x.last - x.first + 1)
  /\ \A y \in given : ~Overlaps(x, y)
  /\ given' = given \cup {x}

Release(x) == x \in given /\ given' = given \ {x}

Next == \E x \in Piece : Allocate(x) \/ Release(x)

Spec == Init /\ [][Next]_given
=============================================================================
