-------------------------------- MODULE Coap --------------------------------
(***************************************************************************)
(* The message layer of mbed-coap (mbed-coap/source/sn_coap_protocol.c) as *)
(* the LwM2M client uses it through sn_nsdl.c and sn_grs.c: confirmable    *)
(* messages kept for retransmission, the list that recognises duplicates,  *)
(* the copies kept of every request, and the reassembly of a block-wise    *)
(* (Block1) request.                                                       *)
(*                                                                         *)
(* The network is two sets of messages.  A message that was sent stays in  *)
(* its set, so it may be received late, out of order, any number of times  *)
(* or never.  The server is external: it sends requests, one upload cut    *)
(* into blocks of which it sends the next when the last one was            *)
(* acknowledged, and answers what the client sends.                        *)
(*                                                                         *)
(* Time is abstract: a message is due, or a list entry is too old, at any  *)
(* execution of sn_coap_protocol_exec.  An execution that finds several    *)
(* entries due is a sequence of the Exec actions below.                    *)
(***************************************************************************)
EXTENDS Integers, Sequences, FiniteSets, SequencesExt

CONSTANTS
    IdMax,        \* message ids are 1..IdMax (65535 in the code)
    OwnStarts,    \* values get_new_message_id may have been seeded with
    SrvBase,      \* the server numbers its messages from SrvBase + 1
    SrvTop,       \* bound: ... to SrvTop
    ResendCount,  \* handle->sn_coap_resending_count
    QueueMsgs,    \* handle->sn_coap_resending_queue_msgs
    DupSize,      \* handle->sn_coap_duplication_buffer_size
    Blocks,       \* number of blocks of the server's upload
    MaxAccepted,  \* bound: messages accepted as new in a behaviour
    Scenarios     \* bounds: own and server messages, failing allocations; the own
                  \* messages end before the counter has come round

ASSUME CoapAssumption ==
    /\ IdMax \in Nat /\ IdMax > 1
    /\ OwnStarts \subseteq 0..IdMax
    /\ SrvBase \in Nat /\ SrvTop \in 0..IdMax
    /\ ResendCount \in Nat \ {0} /\ QueueMsgs \in Nat \ {0}
    /\ DupSize \in Nat \ {0}
    /\ Blocks \in Nat /\ Blocks > 1
    /\ MaxAccepted \in Nat
    /\ Scenarios \subseteq [own : 0..IdMax, srv : Nat, upload : BOOLEAN, allocs : Nat]

VARIABLES
    messageId,   \* message_id, the last id given out
    resend,      \* linked_list_resent_msgs
    dups,        \* linked_list_duplication_msgs
    copies,      \* ids in linked_list_blockwise_sent_msgs
    payload,     \* the upload in linked_list_blockwise_received_payloads
    toClient,    \* messages the server has sent
    toServer,    \* messages the client has sent
    srv,         \* the server: last id, upload position, its replies
    left,        \* what is left of the scenario's budgets
    sends,       \* history: how often each own message was transmitted
    heard,       \* history: own messages of which an ACK or RST was accepted
    answered,    \* history: own requests whose response reached the application
    failed,      \* history: how each own message failed; the application was
                 \* told, unless the failure is "untold"
    accepted,    \* history: messages accepted as new, in order
    uploads,     \* history: payloads handed to the application
    lapses       \* history: faults that happened

coap == <<messageId, resend, dups, copies, payload>>
history == <<sends, heard, answered, failed, accepted, uploads, lapses>>
vars == <<coap, toClient, toServer, srv, left, history>>

Ids == 1..IdMax

Msg(type, id, code, arg) == [type |-> type, id |-> id, code |-> code, arg |-> arg]

NoAnswer == Msg("none", 0, "none", 0)
NoPayload == [blocks |-> <<>>, last |-> -1, sized |-> FALSE]

Init ==
    /\ messageId \in OwnStarts
    /\ resend = <<>> /\ dups = <<>> /\ copies = {} /\ payload = NoPayload
    /\ toClient = {} /\ toServer = {}
    /\ srv \in [last : {SrvBase}, next : {0}, blockId : {0}, sized : BOOLEAN,
                reply : {[i \in Ids |-> "none"]}]
    /\ left \in Scenarios
    /\ ~left.upload => ~srv.sized
    /\ sends = [i \in Ids |-> 0]
    /\ heard = {} /\ answered = {}
    /\ failed = [i \in Ids |-> {}]
    /\ accepted = <<>> /\ uploads = {} /\ lapses = {}

-----------------------------------------------------------------------------
(***************************************************************************)
(* The lists.                                                              *)
(***************************************************************************)

\* get_new_message_id: the counter skips 0 when it wraps.
NewMessageId == IF messageId = IdMax THEN 1 ELSE messageId + 1

\* sn_coap_protocol_linked_list_send_msg_remove and
\* sn_coap_protocol_delete_retransmission: the first message with this id.
WithoutResend(id) == RemoveFirstMatch(resend, LAMBDA e : e.id = id)

\* sn_coap_protocol_linked_list_duplication_info_search.
KnownId(id) == \E k \in DOMAIN dups : dups[k].id = id

\* Mutant: the newest entry makes room.
MadeRoomNewest(d) == IF Len(d) >= DupSize THEN SubSeq(d, 1, Len(d) - 1) ELSE d

\* What sn_coap_protocol_parse does before it stores an entry in a full list.
MadeRoom(d) == IF Len(d) >= DupSize THEN Tail(d) ELSE d

\* An ACK or a RST carries the id of the message it answers, any other message one
\* that its sender has given out.  The two sides number independently: their ids
\* may collide.
Answering(m) == m.type \in {"ACK", "RST"}

\* sn_coap_protocol_linked_list_duplication_info_store.  Whether the id is an own one
\* the code does not keep; only the clock of ExecForget needs it.
Stored(d, m) == Append(d, [id |-> m.id, own |-> Answering(m), answer |-> NoAnswer])

\* sn_coap_protocol_update_duplicate_package_data: only the first answer.
WithAnswer(d, a) ==
    [k \in DOMAIN d |-> IF d[k].id = a.id /\ d[k].answer = NoAnswer
                        THEN [d[k] EXCEPT !.answer = a] ELSE d[k]]

Lapse(what) == lapses' = lapses \cup {what}

-----------------------------------------------------------------------------
(***************************************************************************)
(* Sending: sn_coap_protocol_build as sn_nsdl_internal_coap_send and       *)
(* sn_grs_send_coap_message call it, for a confirmable message.  A "req"   *)
(* is a request, of which a copy is kept; a "note" is a notification or a  *)
(* delayed response.                                                       *)
(***************************************************************************)

OwnKinds == {"req", "note"}

\* The part of sn_coap_protocol_build every outcome shares.
Build ==
    /\ left.own > 0
    /\ messageId' = NewMessageId
    /\ UNCHANGED <<dups, payload, toClient, srv, heard, answered, accepted, uploads>>

QueueFull == Len(resend) >= QueueMsgs

\* sn_coap_protocol_linked_list_send_msg_store.
Enqueue(kind) == Append(resend, [id |-> NewMessageId, kind |-> kind, count |-> 0])

Send(kind) ==
    /\ Build
    /\ ~QueueFull
    /\ resend' = Enqueue(kind)
    /\ copies' = IF kind = "req" THEN copies \cup {NewMessageId} ELSE copies
    /\ toServer' = toServer \cup {Msg("CON", NewMessageId, kind, 0)}
    /\ sends' = [sends EXCEPT ![NewMessageId] = @ + 1]
    /\ left' = [left EXCEPT !.own = @ - 1]
    /\ UNCHANGED <<failed, lapses>>

\* The queue is full: -4, nothing is stored or sent.
SendRefused(kind) ==
    /\ Build
    /\ QueueFull
    /\ failed' = [failed EXCEPT ![NewMessageId] = @ \cup {"refused"}]
    /\ left' = [left EXCEPT !.own = @ - 1]
    /\ UNCHANGED <<resend, copies, toServer, sends, lapses>>

\* store_blockwise_copy has no memory: -2 and the packet is not passed to the
\* tx callback, but it is in the retransmission list already.
SendCopyFails ==
    /\ Build
    /\ ~QueueFull /\ left.allocs > 0
    /\ resend' = Enqueue("req")
    /\ failed' = [failed EXCEPT ![NewMessageId] = @ \cup {"refused"}]
    /\ left' = [left EXCEPT !.own = @ - 1, !.allocs = @ - 1]
    /\ Lapse("alloc")
    /\ UNCHANGED <<copies, toServer, sends>>

-----------------------------------------------------------------------------
(***************************************************************************)
(* The timer: sn_coap_protocol_exec.                                       *)
(***************************************************************************)

\* Mutant: the counter is compared before it is increased.
GivesUpLate(e) == e.count > ResendCount

\* A message is due once more than it may be sent: it leaves the list.
GivesUp(e) == e.count + 1 > ResendCount

\* Mutant: a message given up is never reported.
ExecResendSilent(k) ==
    /\ k \in DOMAIN resend
    /\ \/ /\ ~GivesUp(resend[k])
          /\ resend' = [resend EXCEPT ![k].count = @ + 1]
          /\ toServer' = toServer \cup {Msg("CON", resend[k].id, resend[k].kind, 0)}
          /\ sends' = [sends EXCEPT ![resend[k].id] = @ + 1]
          /\ UNCHANGED failed
       \/ /\ GivesUp(resend[k])
          /\ resend' = RemoveAt(resend, k)
          /\ UNCHANGED <<toServer, sends, failed>>
    /\ UNCHANGED <<messageId, dups, copies, payload, toClient, srv, left,
                   heard, answered, accepted, uploads, lapses>>

\* The application is told COAP_STATUS_BUILDER_MESSAGE_SENDING_FAILED with the
\* parsed message, and nothing when sn_coap_parser has no memory for it.
ExecResend(k) ==
    /\ k \in DOMAIN resend
    /\ \/ /\ ~GivesUp(resend[k])
          /\ resend' = [resend EXCEPT ![k].count = @ + 1]
          /\ toServer' = toServer \cup {Msg("CON", resend[k].id, resend[k].kind, 0)}
          /\ sends' = [sends EXCEPT ![resend[k].id] = @ + 1]
          /\ UNCHANGED <<failed, left, lapses>>
       \/ /\ GivesUp(resend[k])
          /\ resend' = RemoveAt(resend, k)
          /\ \/ /\ failed' = [failed EXCEPT ![resend[k].id] = @ \cup {"send"}]
                /\ UNCHANGED <<left, lapses>>
             \/ /\ left.allocs > 0
                /\ failed' = [failed EXCEPT ![resend[k].id] = @ \cup {"untold"}]
                /\ left' = [left EXCEPT !.allocs = @ - 1]
                /\ Lapse("alloc")
          /\ UNCHANGED <<toServer, sends>>
    /\ UNCHANGED <<messageId, dups, copies, payload, toClient, srv,
                   heard, answered, accepted, uploads>>

\* sn_coap_protocol_handle_blockwise_timout, the requests sent: the copy and
\* the retransmission of the message are dropped and the application is told
\* COAP_STATUS_BUILDER_BLOCK_SENDING_FAILED.
ExecCopyTimeout(id) ==
    /\ id \in copies
    /\ copies' = copies \ {id}
    /\ resend' = WithoutResend(id)
    /\ failed' = [failed EXCEPT ![id] = @ \cup {"block"}]
    /\ UNCHANGED <<messageId, dups, payload, toClient, toServer, srv, left,
                   sends, heard, answered, accepted, uploads, lapses>>

\* sn_coap_protocol_handle_blockwise_timout, the payloads received.
ExecPayloadTimeout ==
    /\ payload # NoPayload
    /\ payload' = NoPayload
    /\ Lapse("timeout")
    /\ UNCHANGED <<messageId, resend, dups, copies, toClient, toServer, srv, left,
                   sends, heard, answered, failed, accepted, uploads>>

\* sn_coap_protocol_linked_list_duplication_info_remove_old_ones.  An entry is
\* kept for 300 s, longer than the 247 s for which RFC 7252 lets a message be
\* retransmitted and delayed: its exchange is over in both directions, but not
\* one of the other side that has the same id.
ExecForget ==
    /\ dups # <<>>
    /\ LET e == Head(dups) IN
       /\ toClient' = {m \in toClient : m.id # e.id \/ Answering(m) # e.own}
       /\ toServer' = {m \in toServer : m.id # e.id \/ Answering(m) = e.own}
    /\ dups' = Tail(dups)
    /\ UNCHANGED <<messageId, resend, copies, payload, srv, left, history>>

-----------------------------------------------------------------------------
(***************************************************************************)
(* The client drops what it was sending.                                   *)
(***************************************************************************)

\* A new registration or the end of one: sn_nsdl_register_endpoint,
\* sn_nsdl_unregister_endpoint, and state_idle after an error.
ClearAll ==
    /\ resend # <<>> \/ copies # {} \/ payload # NoPayload
    /\ failed' = [i \in Ids |-> IF \E k \in DOMAIN resend : resend[k].id = i
                                THEN failed[i] \cup {"cleared"} ELSE failed[i]]
    /\ resend' = <<>>
    /\ copies' = {}
    /\ payload' = NoPayload
    /\ lapses' = IF payload # NoPayload THEN lapses \cup {"cleared"} ELSE lapses
    /\ UNCHANGED <<messageId, dups, toClient, toServer, srv, left,
                   sends, heard, answered, accepted, uploads>>

\* sn_nsdl_remove_msg_from_retransmission for the token of one message.
CancelByToken(id) ==
    /\ \E k \in DOMAIN resend : resend[k].id = id
    /\ resend' = WithoutResend(id)
    /\ failed' = [failed EXCEPT ![id] = @ \cup {"cleared"}]
    /\ UNCHANGED <<messageId, dups, copies, payload, toClient, toServer, srv, left,
                   sends, heard, answered, accepted, uploads, lapses>>

-----------------------------------------------------------------------------
(***************************************************************************)
(* Receiving: sn_nsdl_process_coap and the sn_coap_protocol_parse it calls.*)
(***************************************************************************)

Ping(m) == m.type = "CON" /\ m.code = "empty"

\* The messages whose duplicates are recognised.
Deduplicated(m) ==
    \/ m.type \in {"CON", "NON"} /\ ~Ping(m)
    \/ m.type = "ACK" /\ m.code # "empty"

\* An empty confirmable message is answered with RST.
ReceivePing(m) ==
    /\ m \in toClient /\ Ping(m)
    /\ toServer' = toServer \cup {Msg("RST", m.id, "empty", 0)}
    /\ UNCHANGED <<coap, toClient, srv, left, history>>

\* A duplicate is answered with the packet stored for it, if it was built.
ReceiveDuplicate(m) ==
    /\ m \in toClient /\ Deduplicated(m) /\ KnownId(m.id)
    /\ toServer' =
          IF m.type = "ACK" THEN toServer
          ELSE toServer \cup {dups[k].answer : k \in {j \in DOMAIN dups :
                                  dups[j].id = m.id /\ dups[j].answer # NoAnswer}}
    /\ UNCHANGED <<coap, toClient, srv, left, history>>

\* The state of the duplicate list and of the memory a handler goes on with.
Outcome(d, mem) == [dups |-> d, allocs |-> mem]

\* A message that is not a duplicate is entered in the list; without memory
\* for the entry it is handled all the same.
AcceptOutcomes(m) ==
    {Outcome(Stored(MadeRoom(dups), m), left.allocs)}
    \cup {Outcome(MadeRoom(dups), mem) : mem \in {left.allocs - 1} \cap Nat}

\* An answer is kept for duplicates of what it answers.
AnswerKept(o, a) == Outcome(WithAnswer(o.dups, a), o.allocs)

\* Without memory to keep it, the answer is not sent.
AnswerLost(o, a) ==
    {Outcome(o.dups, mem) : mem \in {IF \E k \in DOMAIN o.dups : o.dups[k].id = a.id
                                     THEN o.allocs - 1 ELSE -1} \cap Nat}

\* The lists of outcome o are the ones the handler leaves behind.
Leaves(o) ==
    /\ dups' = o.dups
    /\ left' = [left EXCEPT !.allocs = o.allocs]
    /\ lapses' = IF o.allocs < left.allocs THEN lapses \cup {"alloc"} ELSE lapses

AcceptsNew(m) ==
    /\ m \in toClient /\ Deduplicated(m) /\ ~KnownId(m.id)
    /\ Len(accepted) < MaxAccepted
    /\ accepted' = Append(accepted, m)
    /\ UNCHANGED <<messageId, toClient, srv, sends>>

\* A request of the server: the resource handles it and answers at once, with
\* a piggybacked response or with an empty ACK before a delayed one.  A copy
\* kept under the same id is dropped, whoever gave the id out.
ReceiveRequest(m) ==
    /\ m.code = "req"
    /\ AcceptsNew(m)
    /\ copies' = copies \ {m.id}
    /\ LET a == Msg("ACK", m.id, "done", 0) IN
       \E o \in AcceptOutcomes(m) :
          \/ Leaves(AnswerKept(o, a)) /\ toServer' = toServer \cup {a}
          \/ (\E l \in AnswerLost(o, a) : Leaves(l)) /\ UNCHANGED toServer
    /\ UNCHANGED <<resend, payload, heard, answered, failed, uploads>>

\* A response to an own request, piggybacked on the ACK or sent separately.
ReceiveResponse(m) ==
    /\ m.code = "resp"
    /\ AcceptsNew(m)
    /\ copies' = copies \ {m.id}
    /\ \E o \in AcceptOutcomes(m) : Leaves(o)
    /\ resend' = IF m.type = "ACK" THEN WithoutResend(m.id) ELSE resend
    /\ heard' = IF m.type = "ACK" THEN heard \cup {m.id} ELSE heard
    /\ answered' = answered \cup {m.arg}
    /\ UNCHANGED <<payload, toServer, failed, uploads>>

\* Mutant: a RST does not stop the retransmission.
ReceiveEmptyReset(m) ==
    /\ m \in toClient /\ ~Deduplicated(m) /\ ~Ping(m)
    /\ resend' = IF m.type = "ACK" THEN WithoutResend(m.id) ELSE resend
    /\ heard' = heard \cup {m.id}
    /\ UNCHANGED <<messageId, dups, copies, payload, toClient, toServer, srv, left,
                   sends, answered, failed, accepted, uploads, lapses>>

\* An empty ACK or a RST.
ReceiveEmpty(m) ==
    /\ m \in toClient /\ ~Deduplicated(m) /\ ~Ping(m)
    /\ resend' = WithoutResend(m.id)
    /\ heard' = heard \cup {m.id}
    /\ UNCHANGED <<messageId, dups, copies, payload, toClient, toServer, srv, left,
                   sends, answered, failed, accepted, uploads, lapses>>

-----------------------------------------------------------------------------
(***************************************************************************)
(* Block1 requests: sn_coap_handle_blockwise_message, receiving.           *)
(***************************************************************************)

\* sn_coap_protocol_linked_list_blockwise_payload_store.  Block n of the upload
\* is the element n + 1; with the size1 option the buffer is allocated at once
\* and 0 stands for a part nothing was written to.
PayloadWith(num) ==
    IF payload.last = num THEN payload
    ELSE IF payload = NoPayload
         THEN [blocks |-> IF srv.sized
                          THEN [k \in 1..Blocks |-> IF k = 1 THEN num + 1 ELSE 0]
                          ELSE <<num + 1>>,
               last |-> num, sized |-> srv.sized]
    ELSE IF payload.sized
         THEN [payload EXCEPT !.blocks[num + 1] = num + 1, !.last = num]
    ELSE [payload EXCEPT !.blocks = Append(@, num + 1), !.last = num]

\* Storing needs memory unless the block is known or the buffer is allocated;
\* without it the whole payload is dropped.
StoreAllocates(num) == payload.last # num /\ ~payload.sized

\* Mutant: any block follows once one is stored.
InOrderLoose(num) == num = 0 \/ payload # NoPayload

InOrder(num) == num = 0 \/ payload.last = num - 1

\* A block that is not the last one is answered here, and stored if it follows
\* the last one stored.  That storing failed is not seen by the answer.
ReceiveBlock(m) ==
    /\ m.code = "block" /\ m.arg < Blocks - 1
    /\ AcceptsNew(m)
    /\ LET a == Msg("ACK", m.id, IF InOrder(m.arg) THEN "continue" ELSE "incomplete", m.arg)
       IN
       \E o \in AcceptOutcomes(m) :
          \/ /\ toServer' = toServer \cup {a}
             /\ Leaves(AnswerKept(o, a))
             /\ payload' = IF InOrder(m.arg) THEN PayloadWith(m.arg) ELSE payload
          \/ /\ InOrder(m.arg) /\ StoreAllocates(m.arg) /\ o.allocs > 0
             /\ toServer' = toServer \cup {a}
             /\ Leaves(Outcome(WithAnswer(o.dups, a), o.allocs - 1))
             /\ payload' = NoPayload
          \/ /\ UNCHANGED <<toServer, payload>>
             /\ \E l \in AnswerLost(o, a) : Leaves(l)
    /\ UNCHANGED <<resend, copies, heard, answered, failed, uploads>>

\* The last block is stored without a look at its number.  What is there then
\* is given to the resource, which answers and frees it; if storing failed,
\* the message is dropped, and without memory for the copy of the whole payload
\* too, but then the payload stays.
ReceiveLastBlock(m) ==
    /\ m.code = "block" /\ m.arg = Blocks - 1
    /\ AcceptsNew(m)
    /\ LET a == Msg("ACK", m.id, "done", 0) IN
       \E o \in AcceptOutcomes(m) :
          \/ /\ uploads' = uploads \cup {PayloadWith(m.arg).blocks}
             /\ \/ Leaves(AnswerKept(o, a)) /\ toServer' = toServer \cup {a}
                \/ (\E l \in AnswerLost(o, a) : Leaves(l)) /\ UNCHANGED toServer
             /\ payload' = NoPayload
          \/ /\ o.allocs > 0
             /\ Leaves(Outcome(o.dups, o.allocs - 1))
             /\ \/ StoreAllocates(m.arg) /\ payload' = NoPayload
                \/ payload' = PayloadWith(m.arg)
             /\ UNCHANGED <<uploads, toServer>>
    /\ UNCHANGED <<resend, copies, heard, answered, failed>>

-----------------------------------------------------------------------------
(***************************************************************************)
(* The server.                                                             *)
(***************************************************************************)

SrvId == srv.last + 1

SrvRequest(code) ==
    /\ left.srv > 0 /\ SrvId <= SrvTop
    /\ toClient' = toClient \cup {Msg("CON", SrvId, code, 0)}
    /\ srv' = [srv EXCEPT !.last = SrvId]
    /\ left' = [left EXCEPT !.srv = @ - 1]
    /\ UNCHANGED <<coap, toServer, history>>

SrvBlock ==
    /\ left.upload /\ srv.next < Blocks /\ SrvId <= SrvTop
    /\ \/ srv.next = 0
       \/ Msg("ACK", srv.blockId, "continue", srv.next - 1) \in toServer
    /\ toClient' = toClient \cup {Msg("CON", SrvId, "block", srv.next)}
    /\ srv' = [srv EXCEPT !.last = SrvId, !.blockId = SrvId, !.next = @ + 1]
    /\ UNCHANGED <<coap, toServer, left, history>>

\* The reply to a message is chosen once: a response on the ACK, an empty ACK
\* (for a request, a response follows) or a RST.
SrvReplies == [piggy |-> "resp", separate |-> "empty", ack |-> "empty", reset |-> "empty"]

SrvReply(m, r) ==
    /\ m \in toServer /\ m.type = "CON"
    /\ srv.reply[m.id] \in {"none", r}
    /\ r \in IF m.code = "req" THEN {"piggy", "separate", "reset"} ELSE {"ack", "reset"}
    /\ toClient' = toClient \cup {Msg(IF r = "reset" THEN "RST" ELSE "ACK",
                                      m.id, SrvReplies[r], m.id)}
    /\ srv' = [srv EXCEPT !.reply[m.id] = r]
    /\ UNCHANGED <<coap, toServer, left, history>>

SrvRespond(id, type) ==
    /\ srv.reply[id] = "separate" /\ SrvId <= SrvTop
    /\ toClient' = toClient \cup {Msg(type, SrvId, "resp", id)}
    /\ srv' = [srv EXCEPT !.last = SrvId, !.reply[id] = "responded"]
    /\ UNCHANGED <<coap, toServer, left, history>>

-----------------------------------------------------------------------------
ClientSends ==
    \/ \E kind \in OwnKinds : Send(kind) \/ SendRefused(kind)
    \/ SendCopyFails
    \/ ClearAll
    \/ \E id \in Ids : CancelByToken(id)

Exec ==
    \/ \E k \in DOMAIN resend : ExecResend(k)
    \/ \E id \in copies : ExecCopyTimeout(id)
    \/ ExecPayloadTimeout
    \/ ExecForget

Receive(m) ==
    \/ ReceivePing(m) \/ ReceiveDuplicate(m)
    \/ ReceiveRequest(m) \/ ReceiveResponse(m) \/ ReceiveEmpty(m)
    \/ ReceiveBlock(m) \/ ReceiveLastBlock(m)

Server ==
    \/ \E code \in {"req", "empty"} : SrvRequest(code)
    \/ SrvBlock
    \/ \E m \in toServer, r \in DOMAIN SrvReplies : SrvReply(m, r)
    \/ \E id \in Ids, type \in {"CON", "NON"} : SrvRespond(id, type)

Next == ClientSends \/ Exec \/ (\E m \in toClient : Receive(m)) \/ Server

\* The one fairness assumed: the one-second timer that runs
\* sn_coap_protocol_exec, so that a message that is due is looked at.
Fairness == WF_vars(\E k \in DOMAIN resend : ExecResend(k))

Spec == Init /\ [][Next]_vars /\ Fairness

-----------------------------------------------------------------------------
(***************************************************************************)
(* Properties.                                                             *)
(***************************************************************************)

AnswerSet == [type : {"ACK"}, id : Ids, code : {"done", "continue", "incomplete"},
              arg : 0..Blocks]

\* The lists hold what sn_coap_protocol.c puts there and never more than the
\* configured number of entries (sn_coap_resending_queue_msgs,
\* sn_coap_duplication_buffer_size), at most one for an id; and a confirmable
\* message is transmitted at most once more than sn_coap_resending_count says.
TypeOK ==
    /\ messageId \in 0..IdMax
    /\ Len(resend) \in 0..QueueMsgs
    /\ \A k \in DOMAIN resend : resend[k] \in [id : Ids, kind : OwnKinds, count : Nat]
    /\ Len(dups) \in 0..DupSize
    /\ \A k \in DOMAIN dups : dups[k] \in [id : Ids, own : BOOLEAN, answer : AnswerSet \cup {NoAnswer}]
    /\ \A j, k \in DOMAIN dups : dups[j].id = dups[k].id => j = k
    /\ copies \subseteq Ids
    /\ payload.last \in -1..(Blocks - 1) /\ payload.sized \in BOOLEAN
    /\ \A k \in DOMAIN payload.blocks : payload.blocks[k] \in 0..Blocks
    /\ left \in [own : Nat, srv : Nat, upload : BOOLEAN, allocs : Nat]
    /\ sends \in [Ids -> 0..(ResendCount + 1)]
    /\ heard \subseteq Ids /\ answered \subseteq Ids
    /\ failed \in [Ids -> SUBSET {"send", "untold", "block", "refused", "cleared"}]
    /\ lapses \subseteq {"alloc", "timeout", "cleared"}

\* sn_coap_protocol_parse: the application sees a message again, however often
\* the network delivers it, only after as many others were accepted as the
\* duplicate list has room for (or when an entry could not be allocated).  Ids of
\* the two sides may collide in the list: then a new message is taken for a
\* duplicate, but never a duplicate for a new message.
NoEarlyRedelivery ==
    "alloc" \notin lapses =>
        \A j, k \in DOMAIN accepted :
            j < k /\ accepted[j] = accepted[k] => k - j > DupSize

\* sn_coap_protocol_parse and sn_coap_protocol_exec: a message of which an ACK
\* or a RST was accepted is not transmitted again, and its sending does not fail.
\* An ACK with a response whose id the server has lately used itself is not
\* accepted but taken for a duplicate, and the message is transmitted on.
AckIsFinal ==
    [][\A id \in heard : /\ sends'[id] = sends[id]
                         /\ failed'[id] \cap {"send", "untold"} \subseteq failed[id]]_vars

AcceptedOnce(num) ==
    Cardinality({k \in DOMAIN accepted : accepted[k].code = "block"
                                         /\ accepted[k].arg = num}) <= 1

\* sn_coap_handle_blockwise_message: what is given to the application as the
\* payload of a block-wise request is all its blocks in order, whatever old
\* blocks arrive again.  The first and the last block are the exception, which
\* are stored without a look at what is there: neither may have been forgotten
\* by the duplicate list; and no memory may have run out, and no payload may
\* have been dropped, on the way.
UploadWhole ==
    /\ lapses = {}
    /\ AcceptedOnce(0) /\ AcceptedOnce(Blocks - 1)
    => uploads \subseteq {[k \in 1..Blocks |-> k]}

\* sn_coap_protocol_exec: every confirmable message comes to an end that somebody
\* knows of: it is acknowledged or reset, reported as failed, or dropped by the
\* client itself; only where no memory is left to parse it when it is given up it
\* ends untold.
EverySendEnds ==
    \A id \in Ids : sends[id] > 0 ~> id \in heard \/ failed[id] # {}

-----------------------------------------------------------------------------
(***************************************************************************)
(* What the comments say and the code does not do.                         *)
(***************************************************************************)

\* sn_coap_header.h:161: "When re-transmissions have been done and ACK not
\* received, CoAP library calls RX callback with this status" and
\* sn_coap_header.h:164: "Blockwise message sending timeout."  A request that
\* was acknowledged and answered has not timed out.
AnsweredNotFailed ==
    [][\A id \in heard \cap answered : failed'[id] = failed[id]]_vars

\* The same line, of a message that is given up without memory to parse it.
GivenUpTold == \A id \in Ids : "untold" \notin failed[id]

\* An ACK with the response to a message that is still being sent is not taken for a
\* duplicate.
ResponseRecognised ==
    \A m \in toClient, k \in DOMAIN resend :
        m.type = "ACK" /\ m.code = "resp" /\ m.id = resend[k].id => ~KnownId(m.id)

\* sn_coap_header.h:155: "User will get whole message after all message blocks
\* received."
WholeMessage == uploads \subseteq {[k \in 1..Blocks |-> k]}

=============================================================================
