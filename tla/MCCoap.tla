------------------------------- MODULE MCCoap -------------------------------
(* Instances of Coap for TLC. *)
EXTENDS Coap

Budget(own, srvMsgs, upload, allocs) ==
    [own |-> own, srv |-> srvMsgs, upload |-> upload, allocs |-> allocs]

\* Two own messages; both sides send; memory runs out once; an upload with
\* another request, and one during which memory runs out.
Mixed == {Budget(2, 0, FALSE, 0), Budget(1, 2, FALSE, 0), Budget(1, 1, FALSE, 1),
          Budget(0, 1, TRUE, 0), Budget(0, 0, TRUE, 1)}

\* One own request.
OneRequest == {Budget(1, 0, FALSE, 0)}

\* An upload during which memory runs out once.
Upload == {Budget(0, 0, TRUE, 1)}

=============================================================================
