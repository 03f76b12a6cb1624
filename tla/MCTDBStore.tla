----------------------------- MODULE MCTDBStore -----------------------------
(***************************************************************************)
(* Instances of TDBStore for TLC.                                          *)
(***************************************************************************)
EXTENDS TDBStore, TLC

Layout(eu, hdr, body, size, pad, possible, limit) ==
  [eu |-> eu, hdr |-> hdr, body |-> body, size |-> size, pad |-> pad,
   faults |-> possible, limit |-> limit]

AnyFault == {"crash", "write", "abandon"}

\* Two keys and the master record: one erase unit per area, which the third record
\* fills exactly; two erase units, which the second record straddles and the third one
\* does not fill; and, without power losses, room for two records, the second of which
\* begins with an erase unit.
RoomyLayouts == {Layout(7, 1, 1, 7, TRUE, AnyFault, 2), Layout(4, 1, 1, 8, FALSE, {"crash"}, 1),
                 Layout(3, 1, 1, 6, TRUE, AnyFault \ {"crash"}, 2)}

\* Room for two records only: one key and the copy of the master record fill it.
FullLayouts == {Layout(6, 1, 1, 6, TRUE, {"crash"}, 1)}

\* The garbage collection, a master record or a reset may fail.
FailingLayouts == {Layout(8, 1, 1, 8, FALSE, {"crash", "gc"}, 1)}

AllLayouts == RoomyLayouts \cup FullLayouts \cup FailingLayouts

Symmetry == Permutations(Values)

\* The second record begins with an erase unit, and power may be lost.
AlignedLayouts == {Layout(3, 1, 1, 9, TRUE, {"crash"}, 2)}

\* Two records leave one unit, less than a header.
TightLayouts == {Layout(8, 2, 1, 8, TRUE, {"crash"}, 2)}
=============================================================================
