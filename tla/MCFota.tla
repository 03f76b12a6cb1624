------------------------------- MODULE MCFota -------------------------------
(***************************************************************************)
(* Small instances of module Fota.  A configuration picks the manifests    *)
(* from: two successive updates of a sub-component (s1, s2), a full and a  *)
(* delta update of the main component (f1, d1, the patch applies to the    *)
(* factory image), an update that does not fit in the storage (big) and a  *)
(* manifest that is not authentic (x).                                     *)
(***************************************************************************)
EXTENDS FotaInductive

CONSTANTS main, sub, s1, s2, f1, d1, big, x

MCManComp == [m \in Manifests |-> IF m \in {f1, d1} THEN main ELSE sub]
MCManVer == [m \in Manifests |-> IF m = s2 THEN 3 ELSE 2]
MCManBlocks == [m \in Manifests |-> IF m = big THEN Slots + 1 ELSE IF m \in {s1, f1} THEN 2 ELSE 1]
MCManAuthentic == Manifests \ {x}
MCManDelta == Manifests \cap {d1}
MCManBase == [m \in Manifests |-> Factory]
MCFactoryVer == [c \in Components |-> 1]

\* Version 2 has a number that is printed wrong, and is registered as 1.
MCReprinted == [v \in Versions |-> IF v = 2 THEN 1 ELSE v]

\* A factory firmware 1.10.0, newer than f1, is registered as 1.0.0.
TenVer == [c \in Components |-> IF c = main THEN 3 ELSE 1]
TenReprinted == [v \in Versions |-> IF v = 3 THEN 1 ELSE v]

=============================================================================
