------------------------------ MODULE KVStore ------------------------------
(***************************************************************************)
(* What the key-value stores promise their callers (kvstore/include/       *)
(* KVStore.h): a map that a call changes at one instant or not at all, a   *)
(* reserved item that is written once, and results that tell the truth.    *)
(* A power loss ends the call that is under way and changes nothing.       *)
(***************************************************************************)
CONSTANTS Keys,       \* names of the items
          Values,     \* contents of the items
          None,       \* the item does not exist
          WriteOnce   \* the keys whose items are created with WRITE_ONCE_FLAG

VARIABLES kv,         \* the items
          reserved,   \* whether the reserved data are written
          call,       \* the call under way
          committed,  \* whether it has taken effect
          result      \* what the last call returned, before the next one begins

kvVars == <<kv, reserved, call, committed, result>>

Idle == <<"idle">>

Calls == {<<"set", k, v>> : k \in Keys, v \in Values}
         \cup {<<"remove", k>> : k \in Keys}
         \cup {<<"reserve">>, <<"reset">>}

Empty == [k \in Keys |-> None]

(***************************************************************************)
(* The map after the call has taken effect.                                *)
(***************************************************************************)
Applied(m, c) == CASE c[1] = "set" -> [m EXCEPT ![c[2]] = c[3]]
                   [] c[1] = "remove" -> [m EXCEPT ![c[2]] = None]
                   [] c[1] = "reset" -> Empty
                   [] OTHER -> m

(***************************************************************************)
(* A write-once item is neither changed nor removed, the reserved data are *)
(* not written twice, and what does not exist is not removed.              *)
(***************************************************************************)
Permitted(c) == CASE c[1] = "set" -> kv[c[2]] = None \/ c[2] \notin WriteOnce
                  [] c[1] = "remove" -> kv[c[2]] # None /\ c[2] \notin WriteOnce
                  [] c[1] = "reserve" -> ~reserved
                  [] OTHER -> TRUE

Init == /\ kv = Empty
        /\ reserved = FALSE
        /\ call = Idle
        /\ committed = FALSE
        /\ result = "none"

Begin(c) == /\ call = Idle
            /\ call' = c
            /\ result' = "none"
            /\ UNCHANGED <<kv, reserved, committed>>

Commit == /\ call # Idle /\ ~committed
          /\ Permitted(call)
          /\ kv' = Applied(kv, call)
          /\ reserved' = (call[1] # "reset" /\ (reserved \/ call[1] = "reserve"))
          /\ committed' = TRUE
          /\ UNCHANGED <<call, result>>

Return == /\ call # Idle
          /\ call' = Idle
          /\ committed' = FALSE
          /\ result' = IF committed THEN "ok" ELSE "error"
          /\ UNCHANGED <<kv, reserved>>

PowerLoss == /\ call' = Idle
             /\ committed' = FALSE
             /\ result' = "none"
             /\ UNCHANGED <<kv, reserved>>

Next == (\E c \in Calls : Begin(c)) \/ Commit \/ Return \/ PowerLoss

Spec == Init /\ [][Next]_kvVars

=============================================================================
