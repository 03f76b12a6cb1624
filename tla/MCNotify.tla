------------------------------ MODULE MCNotify ------------------------------
(***************************************************************************)
(* Instances of Notify: the changes, faults and attribute writes of a      *)
(* behaviour.                                                              *)
(***************************************************************************)
EXTENDS Notify

Budget(sets, faults, attrs) == [sets |-> sets, faults |-> faults, attrs |-> attrs]

Small == {-1, 0, 1}

OneFault == {Budget(2, 1, 0)}

Plain == {Budget(2, 1, 0), Budget(1, 1, 1)}
=============================================================================
