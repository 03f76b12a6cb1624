--------------------------- MODULE MCCertRenewal ---------------------------
(***************************************************************************)
(* Two power losses, a failing write, or a chain that does not verify and  *)
(* a power loss; and one event that cannot be allocated.                   *)
(***************************************************************************)
EXTENDS CertRenewal

Budget(crash, write, chain) == [crash |-> crash, write |-> write, chain |-> chain, event |-> 1]
Faults == {Budget(2, 0, 0), Budget(0, 1, 0), Budget(1, 0, 1)}
NoFaults == {[crash |-> 0, write |-> 0, chain |-> 0, event |-> 0]}

=============================================================================
