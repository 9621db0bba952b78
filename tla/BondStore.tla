------------------------------ MODULE BondStore ------------------------------
(***************************************************************************)
(* What the pairing table of vendor/common/custom_pair.c promises a caller *)
(* that may lose power at any moment: a list of at most MaxBonds bonded    *)
(* devices, oldest first.  A bond enters at the young end only, leaves     *)
(* alone, never changes place, and one that has left never comes back by   *)
(* itself.  The one thing that may shorten the list behind the caller's    *)
(* back is a power failure while the flash sector is rewritten.            *)
(***************************************************************************)
EXTENDS Naturals, Sequences, SequencesExt

CONSTANTS Device,     \* peer identities: address type and address
          MaxBonds    \* USER_PAIR_SLAVE_MAX_NUM

VARIABLE bonds

Init == bonds = <<>>

Remember(d) == /\ Len(bonds) < MaxBonds
               /\ bonds' = Append(bonds, d)

Forget(i) == bonds' = RemoveAt(bonds, i)

\* The youngest bonds were not written back yet when power failed.
LoseYoungest(n) == bonds' = SubSeq(bonds, 1, n)

Next == \/ \E d \in Device : Remember(d)
        \/ \E i \in DOMAIN bonds : Forget(i)
        \/ \E n \in 0 .. Len(bonds) - 1 : LoseYoungest(n)

Spec == Init /\ [][Next]_bonds
=============================================================================
