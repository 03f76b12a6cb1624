------------------------------- MODULE Notify -------------------------------
(***************************************************************************)
(* How a changed resource value reaches the service: the report handlers   *)
(* of the resources (mbed-client/source/m2mreporthandler.cpp), the one     *)
(* notification that may be under way and the event that looks for the     *)
(* next one (m2mnsdlinterface.cpp, m2mnotificationhandler.cpp), and the    *)
(* registration they depend on (m2minterfaceimpl.cpp).                     *)
(*                                                                         *)
(* The resources are integer resources observed one by one, in the order   *)
(* of the object list; of the write attributes pmin is modelled.  The      *)
(* application sets values in the event loop, as the callers in this       *)
(* repository do.  The message layer below (module Coap) is reduced to     *)
(* what it does with a confirmable notification: it is acknowledged,       *)
(* reset, reported as failed or, when the resending queue was cleared,     *)
(* may be lost.  Timers expire at any time.                                *)
(***************************************************************************)
EXTENDS Integers, Sequences, FiniteSets, FiniteSetsExt, SequencesExt

CONSTANTS
    Resources,    \* the observed resources, numbered in list order
    Values,       \* values the application sets; 0 is the initial one
    QueueMsgs,    \* MBED_CLIENT_SN_COAP_RESENDING_QUEUE_SIZE_MSGS
    MaxInFlight,  \* bound: unanswered notifications when an update is answered
    Scenarios     \* budgets: value changes, faults, attribute writes

ASSUME NotifyAssumption ==
    /\ Resources \subseteq Nat /\ IsFiniteSet(Resources)
    /\ Values \subseteq Int /\ 0 \in Values
    /\ QueueMsgs \in Nat \ {0} /\ MaxInFlight \in Nat \ {0}
    /\ Scenarios \subseteq [sets : Nat, faults : Nat, attrs : Nat]

VARIABLES
    value,    \* the value of each resource
    rep,      \* the report handler of each resource
    ongoing,  \* _notification_send_ongoing
    event,    \* _event.data.event_data of the notification handler
    link,     \* the connection and the registration
    flight,   \* notifications sent and not yet answered, oldest first
    server,   \* the service: registration, observations, values
    left,     \* what is left of the scenario's budgets
    unkept    \* history: resources whose unreceived value nothing keeps

vars == <<value, rep, ongoing, event, link, flight, server, left, unkept>>

\* _last_value of a report handler that has sent nothing.
NoValue == -1

\* A new report handler of a resource that is under observation.
NewHandler ==
    [observed |-> TRUE, inQueue |-> FALSE, inProgress |-> FALSE, notify |-> FALSE,
     pmin |-> FALSE, exceeded |-> FALSE, quiet |-> FALSE, timer |-> FALSE,
     current |-> 0, last |-> NoValue, valid |-> FALSE]

\* A registered client whose resources the service observes.
Init ==
    /\ value = [r \in Resources |-> 0]
    /\ rep = [r \in Resources |-> NewHandler]
    /\ ongoing = FALSE /\ event = FALSE
    /\ link = [online |-> TRUE, reg |-> "idle", full |-> FALSE]
    /\ flight = <<>>
    /\ server = [known |-> TRUE, obs |-> [r \in Resources |-> TRUE], val |-> value]
    /\ left \in Scenarios
    /\ unkept = {}

-----------------------------------------------------------------------------
(***************************************************************************)
(* The report handler, as functions of its state h.                        *)
(***************************************************************************)

\* handle_timers
TimersStarted(h) == IF h.pmin THEN [h EXCEPT !.exceeded = FALSE, !.timer = TRUE] ELSE h

\* set_under_observation(true)
Subscribed(h) ==
    TimersStarted([h EXCEPT !.observed = TRUE, !.exceeded = FALSE, !.timer = FALSE])

\* set_under_observation(false) with set_default_values
Cancelled(h) ==
    [h EXCEPT !.observed = FALSE, !.inQueue = FALSE, !.inProgress = FALSE,
              !.pmin = FALSE, !.exceeded = FALSE, !.quiet = FALSE, !.timer = FALSE,
              !.last = NoValue, !.valid = FALSE]

\* The condition of report on the value or the queue.
Wants(h, queued) == (h.current # h.last /\ h.notify) \/ queued

\* observation_to_be_sent accepts a notification.
SlotFree == link.online /\ ~ongoing

Sends(h, queued) == Wants(h, queued) /\ SlotFree

\* Mutant: a notification leaves the queue although the slot is taken.
ReportedDropped(h, queued) ==
    LET tried == IF Wants(h, queued)
                 THEN [h EXCEPT !.notify = FALSE, !.exceeded = FALSE, !.quiet = FALSE,
                                !.inQueue = FALSE] ELSE h
        sent  == IF Sends(h, queued)
                 THEN [tried EXCEPT !.inProgress = TRUE, !.last = h.current, !.valid = TRUE]
                 ELSE tried
    IN TimersStarted(sent)

\* report, and what observation_to_be_sent changes of the handler
Reported(h, queued) ==
    LET tried == IF Wants(h, queued)
                 THEN [h EXCEPT !.notify = FALSE, !.exceeded = FALSE, !.quiet = FALSE] ELSE h
        sent  == IF Sends(h, queued)
                 THEN [tried EXCEPT !.inQueue = FALSE, !.inProgress = TRUE,
                                    !.last = h.current, !.valid = TRUE] ELSE tried
    IN TimersStarted(sent)

\* schedule_report reports at once unless pmin holds it back.
MayReport(h) == ~h.pmin \/ h.exceeded \/ h.quiet

\* Messages in the resending queue, a registration message included.
Resending ==
    Cardinality({i \in DOMAIN flight : flight[i].resent})
    + (IF link.reg \in {"update", "register"} THEN 1 ELSE 0)

\* send_resource_observation and execute_notification_delivery_status_cb: a
\* full resending queue is a build error.  The attempt supersedes what was
\* sent of the resource before.
SendNotification(r) ==
    LET before == [i \in DOMAIN flight |->
                     IF flight[i].r = r THEN [flight[i] EXCEPT !.newest = FALSE]
                     ELSE flight[i]]
    IN /\ ongoing' = (Resending < QueueMsgs)
       /\ flight' = IF Resending < QueueMsgs
                    THEN Append(before, [r |-> r, val |-> value'[r], resent |-> TRUE,
                                         got |-> FALSE, old |-> FALSE, newest |-> TRUE])
                    ELSE before
       /\ unkept' = unkept \ {r}

\* report of the handler of r, which is in state h.
Report(r, h, queued) ==
    /\ rep' = [rep EXCEPT ![r] = Reported(h, queued)]
    /\ IF Sends(h, queued) THEN SendNotification(r) ELSE UNCHANGED <<ongoing, flight, unkept>>

\* schedule_report
ScheduleReport(r, h, queued) ==
    LET g == [h EXCEPT !.notify = TRUE]
    IN IF MayReport(g) THEN Report(r, g, queued)
       ELSE rep' = [rep EXCEPT ![r] = g] /\ UNCHANGED <<ongoing, flight, unkept>>

-----------------------------------------------------------------------------
(***************************************************************************)
(* The application and the timers.                                         *)
(***************************************************************************)

\* set_value, report_value_change, set_value_int and send_value: a value
\* that differs from the last one sent is queued.
SetValue(r, v) ==
    LET h == [rep[r] EXCEPT !.current = v]
    IN /\ left.sets > 0 /\ v # value[r]
       /\ value' = [value EXCEPT ![r] = v]
       /\ left' = [left EXCEPT !.sets = @ - 1]
       /\ IF ~rep[r].observed
          THEN UNCHANGED <<rep, ongoing, flight, unkept>>
          ELSE IF ~h.valid \/ v # h.last
          THEN ScheduleReport(r, [h EXCEPT !.inQueue = TRUE], FALSE)
          ELSE rep' = [rep EXCEPT ![r] = h] /\ UNCHANGED <<ongoing, flight, unkept>>
       /\ UNCHANGED <<event, link, server>>

\* timer_expired(PMinTimer); pmin is positive and pmax not set.
PminExpires(r) ==
    LET h == [rep[r] EXCEPT !.exceeded = TRUE, !.timer = FALSE]
        g == Reported(h, FALSE)
    IN /\ rep[r].timer
       /\ rep' = [rep EXCEPT ![r] = [g EXCEPT !.quiet = g.quiet \/ g.current = g.last]]
       /\ IF Sends(h, FALSE) THEN value' = value /\ SendNotification(r)
          ELSE UNCHANGED <<value, ongoing, flight, unkept>>
       /\ UNCHANGED <<event, link, server, left>>

\* Mutant: only what is in the queue is sent, not what was sent in vain.
SendNextQueued ==
    LET due == {r \in Resources : rep[r].observed /\ rep[r].inQueue}
    IN /\ event
       /\ event' = FALSE
       /\ value' = value
       /\ IF due = {} THEN ongoing' = FALSE /\ UNCHANGED <<rep, flight, unkept>>
          ELSE ScheduleReport(Min(due), rep[Min(due)], TRUE)
       /\ UNCHANGED <<link, server, left>>

\* notification_tasklet_func and send_next_notification(false).
SendNext ==
    LET due == {r \in Resources : rep[r].observed /\ (rep[r].inQueue \/ rep[r].inProgress)}
    IN /\ event
       /\ event' = FALSE
       /\ value' = value
       /\ IF due = {} THEN ongoing' = FALSE /\ UNCHANGED <<rep, flight, unkept>>
          ELSE ScheduleReport(Min(due), rep[Min(due)], TRUE)
       /\ UNCHANGED <<link, server, left>>

-----------------------------------------------------------------------------
(***************************************************************************)
(* The fate of a notification.                                             *)
(***************************************************************************)

Connected == link.reg # "down"

\* The service receives a notification; an older one that arrives later is
\* ignored by its observe number.  External.
Deliver(i) ==
    /\ Connected /\ ~flight[i].got /\ ~flight[i].old
    /\ server' = [server EXCEPT !.val[flight[i].r] = flight[i].val]
    /\ flight' = [k \in DOMAIN flight |->
                    IF k <= i /\ flight[k].r = flight[i].r
                    THEN [flight[k] EXCEPT !.got = TRUE] ELSE flight[k]]
    /\ UNCHANGED <<value, rep, ongoing, event, link, left, unkept>>

Synced(r) == server.val[r] = value[r]

\* The service has another value of r, or may still receive one.
Unsettled(r) ==
    \/ ~Synced(r)
    \/ \E k \in DOMAIN flight : /\ flight[k].r = r /\ ~flight[k].got /\ ~flight[k].old
                                /\ flight[k].val # value[r]

\* handle_empty_ack and handle_message_delivered: the notification the
\* acknowledgement is of is not compared with the one under way.
Acked(i) ==
    LET m == flight[i]
    IN /\ Connected /\ m.got
       /\ rep' = [rep EXCEPT ![m.r].inProgress = FALSE]
       /\ ongoing' = FALSE /\ event' = TRUE
       /\ flight' = RemoveAt(flight, i)
       /\ unkept' = IF (m.old \/ ~m.newest) /\ rep[m.r].inProgress /\ Unsettled(m.r)
                    THEN unkept \cup {m.r} ELSE unkept
       /\ UNCHANGED <<value, link, server, left>>

\* handle_empty_ack: the service no longer knows the observation.
Reset(i) ==
    LET m == flight[i]
    IN /\ Connected /\ ~m.got /\ m.old
       /\ rep' = [rep EXCEPT ![m.r] = Cancelled(@)]
       /\ ongoing' = FALSE /\ event' = TRUE
       /\ flight' = RemoveAt(flight, i)
       /\ unkept' = IF server.obs[m.r] THEN unkept \cup {m.r} ELSE unkept
       /\ UNCHANGED <<value, link, server, left>>

\* A notification that is no longer resent, or its answer, is lost.
Lost(i) ==
    /\ ~flight[i].resent
    /\ flight' = RemoveAt(flight, i)
    /\ UNCHANGED <<value, rep, ongoing, event, link, server, left, unkept>>

Fault == left.faults > 0 /\ left' = [left EXCEPT !.faults = @ - 1]

\* registration_error(..., true): the client reconnects, with a full
\* registration if the connection id was in use (ClientPing).
RegistrationError(full) ==
    link' = [online |-> FALSE, reg |-> "down", full |-> link.full \/ full]

\* Mutant: a notification that cannot be sent ends the observation.
SendingFailsCancelled(i) ==
    /\ Fault
    /\ Connected /\ flight[i].resent
    /\ \E full \in BOOLEAN : RegistrationError(full)
    /\ rep' = [rep EXCEPT ![flight[i].r] = Cancelled(@)]
    /\ flight' = RemoveAt(flight, i)
    /\ UNCHANGED <<value, ongoing, event, server, unkept>>

\* received_from_server_callback, COAP_STATUS_BUILDER_MESSAGE_SENDING_FAILED.
SendingFails(i) ==
    /\ Fault
    /\ Connected /\ flight[i].resent
    /\ \E full \in BOOLEAN : RegistrationError(full)
    /\ flight' = RemoveAt(flight, i)
    /\ UNCHANGED <<value, rep, ongoing, event, server, unkept>>

-----------------------------------------------------------------------------
(***************************************************************************)
(* The registration.                                                       *)
(***************************************************************************)

QueueCleared == [i \in DOMAIN flight |-> [flight[i] EXCEPT !.resent = FALSE]]
ObservationsGone == [i \in DOMAIN flight |-> [flight[i] EXCEPT !.old = TRUE]]

\* Mutant: the update is sent although the queue is full.
SendUpdateAnyway(flag) ==
    /\ link' = [link EXCEPT !.reg = "update", !.online = flag]
    /\ flight' = flight

\* send_update_registration: a full resending queue is cleared.
SendUpdate(flag) ==
    /\ link' = [link EXCEPT !.reg = "update", !.online = flag]
    /\ flight' = IF Resending < QueueMsgs THEN flight ELSE QueueCleared

\* The registration timer of a registered client expires.
UpdateRegistration ==
    /\ link.reg = "idle" /\ link.online
    /\ SendUpdate(TRUE)
    /\ UNCHANGED <<value, rep, ongoing, event, server, left, unkept>>

\* Mutant: the flag of the notification that got no answer is kept.
UpdateAnsweredKept ==
    /\ link.reg = "update" /\ server.known /\ Len(flight) < MaxInFlight
    /\ link' = [online |-> TRUE, reg |-> "idle", full |-> FALSE]
    /\ event' = TRUE
    /\ UNCHANGED <<value, rep, ongoing, flight, server, left, unkept>>

\* handle_register_update_response, RESPONSE_CHANGED.
UpdateAnswered ==
    /\ link.reg = "update" /\ server.known /\ Len(flight) < MaxInFlight
    /\ link' = [online |-> TRUE, reg |-> "idle", full |-> FALSE]
    /\ ongoing' = FALSE /\ event' = TRUE
    /\ UNCHANGED <<value, rep, flight, server, left, unkept>>

\* send_next_notification(true) and sn_nsdl_register_endpoint: observations
\* are cancelled and the resending queue cleared before a full registration.
SendRegister(flag) ==
    /\ rep' = [r \in Resources |-> Cancelled(rep[r])]
    /\ ongoing' = FALSE
    /\ link' = [link EXCEPT !.reg = "register", !.online = flag]
    /\ flight' = QueueCleared

\* handle_register_update_response, any other code.
UpdateRefused ==
    /\ link.reg = "update" /\ ~server.known
    /\ SendRegister(link.online)
    /\ UNCHANGED <<value, event, server, left, unkept>>

\* handle_register_response, RESPONSE_CREATED.  The service has dropped the
\* observations of the earlier registration.
RegisterAnswered ==
    /\ link.reg = "register" /\ Len(flight) < MaxInFlight
    /\ link' = [online |-> TRUE, reg |-> "idle", full |-> FALSE]
    /\ ongoing' = FALSE /\ event' = TRUE
    /\ server' = [server EXCEPT !.known = TRUE, !.obs = [r \in Resources |-> FALSE]]
    /\ flight' = ObservationsGone
    /\ unkept' = {}
    /\ UNCHANGED <<value, rep, left>>

\* The registration message gets no answer; handle_register_response asks
\* for a full registration, handle_register_update_response does not.
RegistrationFails ==
    /\ Fault
    /\ link.reg \in {"update", "register"}
    /\ IF link.reg = "register" THEN RegistrationError(TRUE)
       ELSE \E full \in BOOLEAN : RegistrationError(full)
    /\ UNCHANGED <<value, rep, ongoing, event, flight, server, unkept>>

\* socket_error: the client goes idle, its timers stop, and it reconnects.
SocketError ==
    /\ Fault
    /\ Connected
    /\ link' = [link EXCEPT !.online = FALSE, !.reg = "down"]
    /\ UNCHANGED <<value, rep, ongoing, event, flight, server, unkept>>

\* The retry timer expires: state_register, state_register_address_resolved.
Reconnect ==
    /\ link.reg = "down"
    /\ IF link.full THEN SendRegister(FALSE)
       ELSE SendUpdate(FALSE) /\ UNCHANGED <<rep, ongoing>>
    /\ UNCHANGED <<value, event, server, left, unkept>>

\* The registration of the client ends at the service.  External.
ServiceForgets ==
    /\ Fault
    /\ server.known
    /\ server' = [server EXCEPT !.known = FALSE, !.obs = [r \in Resources |-> FALSE]]
    /\ flight' = ObservationsGone
    /\ UNCHANGED <<value, rep, ongoing, event, link, unkept>>

\* handle_get_request, handle_observation and start_observation: the answer
\* carries the value.
Observe(r) ==
    /\ Connected /\ link.reg # "register" /\ server.known /\ ~server.obs[r]
    /\ rep' = [rep EXCEPT ![r] = Subscribed(@)]
    /\ server' = [server EXCEPT !.obs[r] = TRUE, !.val[r] = value[r]]
    /\ event' = TRUE
    /\ UNCHANGED <<value, ongoing, link, flight, left, unkept>>

\* handle_observation, STOP_OBSERVATION: cancel_observation.
Unobserve(r) ==
    /\ Fault
    /\ Connected /\ server.obs[r]
    /\ rep' = [rep EXCEPT ![r] = Cancelled(@)]
    /\ server' = [server EXCEPT !.obs[r] = FALSE]
    /\ flight' = [i \in DOMAIN flight |->
                    IF flight[i].r = r THEN [flight[i] EXCEPT !.old = TRUE] ELSE flight[i]]
    /\ unkept' = unkept \ {r}
    /\ UNCHANGED <<value, ongoing, event, link>>

\* handle_observation_attribute: the service writes pmin.
WritePmin(r) ==
    LET h == [rep[r] EXCEPT !.current = value[r], !.last = value[r], !.valid = FALSE,
                            !.pmin = TRUE]
    IN /\ left.attrs > 0
       /\ Connected /\ server.known
       /\ rep' = [rep EXCEPT ![r] = IF h.observed THEN Subscribed(h) ELSE TimersStarted(h)]
       /\ left' = [left EXCEPT !.attrs = @ - 1]
       /\ UNCHANGED <<value, ongoing, event, link, flight, server, unkept>>

Next ==
    \/ \E r \in Resources, v \in Values : SetValue(r, v)
    \/ \E r \in Resources : PminExpires(r)
    \/ SendNext
    \/ \E i \in DOMAIN flight : Deliver(i)
    \/ \E i \in DOMAIN flight : Acked(i)
    \/ \E i \in DOMAIN flight : Reset(i)
    \/ \E i \in DOMAIN flight : Lost(i)
    \/ \E i \in DOMAIN flight : SendingFails(i)
    \/ UpdateRegistration \/ UpdateAnswered \/ UpdateRefused
    \/ RegisterAnswered \/ RegistrationFails
    \/ SocketError \/ Reconnect \/ ServiceForgets
    \/ \E r \in Resources : Observe(r)
    \/ \E r \in Resources : Unobserve(r)
    \/ \E r \in Resources : WritePmin(r)

\* The answer to the i-th notification in flight.
Answered(i) == i \in DOMAIN flight /\ (Acked(i) \/ Reset(i))

\* The service receives a notification of r; the client its acknowledgement.
Received(r) == \E i \in DOMAIN flight : flight[i].r = r /\ Deliver(i)
Confirmed(r) == \E i \in DOMAIN flight : flight[i].r = r /\ Acked(i)

\* The event loop runs on and its timers expire; a connected service answers
\* and observes what is registered; the network delivers a notification, and
\* its acknowledgement, that is sent again and again.
Fairness ==
    /\ WF_vars(SendNext)
    /\ \A r \in Resources :
        /\ WF_vars(PminExpires(r)) /\ WF_vars(Observe(r))
        /\ SF_vars(Received(r)) /\ SF_vars(Confirmed(r))
    /\ \A i \in 1..MaxInFlight : WF_vars(Answered(i))
    /\ WF_vars(UpdateRegistration) /\ WF_vars(Reconnect)
    /\ WF_vars(UpdateAnswered \/ UpdateRefused \/ RegisterAnswered)

Spec == Init /\ [][Next]_vars /\ Fairness

-----------------------------------------------------------------------------
(***************************************************************************)
(* Properties.                                                             *)
(***************************************************************************)

Handlers ==
    [observed : BOOLEAN, inQueue : BOOLEAN, inProgress : BOOLEAN, notify : BOOLEAN,
     pmin : BOOLEAN, exceeded : BOOLEAN, quiet : BOOLEAN, timer : BOOLEAN,
     current : Values \cup {0}, last : Values \cup {NoValue}, valid : BOOLEAN]

\* The flags and values of the report handlers, and never more messages of
\* the client in the resending queue than it has room for.
TypeOK ==
    /\ value \in [Resources -> Values]
    /\ rep \in [Resources -> Handlers]
    /\ ongoing \in BOOLEAN /\ event \in BOOLEAN
    /\ link \in [online : BOOLEAN, reg : {"idle", "update", "register", "down"},
                 full : BOOLEAN]
    /\ server \in [known : BOOLEAN, obs : [Resources -> BOOLEAN],
                   val : [Resources -> Values]]
    /\ Resending <= QueueMsgs
    /\ unkept \subseteq Resources

\* A full registration is on its way, which cancels what went before.
Registering == link.full \/ link.reg = "register"

\* A value the service observes and has not received is in the queue or in
\* progress at the report handler, whatever was lost, reset, reconnected or
\* held back on the way: the two flags are reset at five places and set at
\* four, and the next notification is chosen by them alone.  The exception
\* is a resource for which the answer of an earlier notification was taken
\* for that of the one under way (unkept).
NothingForgotten ==
    \A r \in Resources \ unkept :
        server.obs[r] /\ ~Synced(r) =>
            Registering \/ (rep[r].observed /\ (rep[r].inQueue \/ rep[r].inProgress))

\* As NothingForgotten, without the exception, of a resource both sides hold
\* to be observed: the latest value is kept for sending or under way.
LatestKept ==
    \A r \in Resources :
        server.obs[r] /\ rep[r].observed /\ ~Synced(r) =>
            \/ Registering \/ rep[r].inQueue \/ rep[r].inProgress
            \/ \E i \in DOMAIN flight : flight[i].r = r /\ flight[i].val = value[r]

\* What the service observes the client holds to be observed, across lost
\* registrations, cancelled observations and resets (M2MBase::
\* cancel_observation runs on any reset of a listed notification).
ObservationsAgree ==
    \A r \in Resources \ unkept : server.obs[r] => Registering \/ rep[r].observed

\* The one notification slot is always given back: an acknowledgement, a
\* reset or the next registration resets _notification_send_ongoing.
SlotIsFreed == ongoing ~> ~ongoing

\* The last value of every resource reaches the service, which observes it,
\* once the application stops changing it and faults stop.
EventuallyNotified ==
    \A r \in Resources : <>[]((server.obs[r] /\ Synced(r)) \/ r \in unkept)
=============================================================================
