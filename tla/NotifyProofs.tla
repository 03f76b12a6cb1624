---------------------------- MODULE NotifyProofs ----------------------------
(***************************************************************************)
(* Machine-checked proofs about module Notify, for any number of resources *)
(* and values, any size of the resending queue and any number of faults.   *)
(***************************************************************************)
EXTENDS Notify, FiniteSetTheorems, SequenceTheorems, WellFoundedInduction, TLAPS

-----------------------------------------------------------------------------
(***************************************************************************)
(* The inductive invariant                                                 *)
(***************************************************************************)

\* What a notification in flight consists of.
Notifications ==
    [r : Resources, val : Values, resent : BOOLEAN, got : BOOLEAN, old : BOOLEAN,
     newest : BOOLEAN]

\* A full registration is asked for only by a client that is not registered,
\* and the service that has lost the registration observes nothing.
LinkInv ==
    /\ link.full => link.reg \in {"down", "register"}
    /\ link.reg = "register" /\ ~link.full => ~server.known
    /\ ~server.known => \A r \in Resources : ~server.obs[r]

\* A client that registers has cancelled its observations, and it holds none
\* that the service it is registered with does not.
ClientInv ==
    \A r \in Resources :
        rep[r].observed => link.reg # "register" /\ (server.known => server.obs[r])

\* The value a handler works with is the one of the resource, unless it has
\* nothing to send and will not report by itself.
HandlerInv ==
    \A r \in Resources :
        LET h == rep[r]
        IN /\ h.timer => h.pmin
           /\ \/ h.observed /\ h.current = value[r]
              \/ ~h.valid /\ ~h.inQueue /\ ~h.inProgress /\ (h.pmin => h.current = h.last)
           /\ h.valid /\ ~h.inQueue => h.last = value[r]

\* What is in flight of a resource: the newest is the last one and carries
\* the value that is in progress; what the service received last is its value.
FlightInv ==
    \A i \in DOMAIN flight :
        LET m == flight[i]
        IN /\ ~m.old => server.obs[m.r] \/ ~server.known
           /\ \A k \in DOMAIN flight :
                flight[k].r = m.r /\ k < i => ~flight[k].newest /\ (m.got => flight[k].got)
           /\ m.newest /\ ~m.old /\ m.got => server.val[m.r] = m.val
           /\ m.newest /\ ~m.old /\ rep[m.r].observed /\ rep[m.r].inProgress
              /\ ~rep[m.r].inQueue => m.val = value[m.r]

\* A notification the service may still receive carries the value of the
\* resource, or the handler has something to send.
PendingInv ==
    \A i \in DOMAIN flight :
        LET m == flight[i]
        IN ~m.got /\ ~m.old /\ m.r \notin unkept /\ rep[m.r].observed =>
             rep[m.r].inQueue \/ rep[m.r].inProgress \/ m.val = value[m.r]

\* The parts together, which every step preserves.
IInv ==
    /\ TypeOK /\ flight \in Seq(Notifications)
    /\ left \in [sets : Nat, faults : Nat, attrs : Nat]
    /\ LinkInv /\ ClientInv /\ HandlerInv /\ FlightInv /\ PendingInv
    /\ ObservationsAgree /\ NothingForgotten

-----------------------------------------------------------------------------
(***************************************************************************)
(* Lemmas about the sequence of notifications in flight                    *)
(***************************************************************************)

\* The notifications of s that are in the resending queue.
Waiting(s) == {i \in DOMAIN s : s[i].resent}

\* A set of natural numbers that is not empty has a least element.
LEMMA MinIsElement ==
  ASSUME NEW T, T \subseteq Nat, T # {}
  PROVE  Min(T) \in T
<1>1. PICK x \in T : \A y \in T : <<y, x>> \notin OpToRel(<, Nat)
  BY WFMin, NatLessThanWellFounded
<1>2. \A y \in T : ~(y < x)
  BY <1>1 DEF OpToRel
<1>3. \A y \in T : x <= y
  BY <1>2
<1> QED BY <1>3 DEF Min

\* The resending queue is a finite set of positions.
LEMMA WaitingFinite ==
  ASSUME NEW s \in Seq(Notifications)
  PROVE  IsFiniteSet(Waiting(s)) /\ Cardinality(Waiting(s)) \in Nat
<1>1. IsFiniteSet(1..Len(s)) /\ DOMAIN s = 1..Len(s)
  BY FS_Interval, LenProperties
<1>2. IsFiniteSet(Waiting(s))
  BY <1>1, FS_Subset DEF Waiting
<1> QED BY <1>2, FS_CardinalityType

\* Where the entries of RemoveAt(s, i) come from.
LEMMA RemoveAtEntries ==
  ASSUME NEW S, NEW s \in Seq(S), NEW i \in DOMAIN s
  PROVE  /\ RemoveAt(s, i) \in Seq(S)
         /\ Len(RemoveAt(s, i)) = Len(s) - 1
         /\ DOMAIN RemoveAt(s, i) = 1..(Len(s) - 1)
         /\ \A k \in 1..(Len(s) - 1) :
              RemoveAt(s, i)[k] = s[IF k < i THEN k ELSE k + 1]
<1>1. i \in 1..Len(s) /\ Len(s) \in Nat /\ \A k \in 1..Len(s) : s[k] \in S
  BY LenProperties, ElementOfSeq
<1> DEFINE a == SubSeq(s, 1, i - 1)
           b == SubSeq(s, i + 1, Len(s))
<1>2. /\ a \in Seq(S) /\ Len(a) = i - 1 /\ \A k \in 1..(i - 1) : a[k] = s[k]
  <2>1. \A k \in 1..(i - 1) : s[k] \in S
    BY <1>1
  <2> QED BY <1>1, <2>1, SubSeqProperties
<1>3. /\ b \in Seq(S) /\ Len(b) = Len(s) - i
      /\ \A k \in 1..(Len(s) - i) : b[k] = s[i + k]
  <2>1. \A k \in (i + 1)..Len(s) : s[k] \in S
    BY <1>1
  <2>2. /\ b \in Seq(S)
        /\ Len(b) = IF i + 1 <= Len(s) THEN Len(s) - (i + 1) + 1 ELSE 0
        /\ \A k \in 1..(Len(s) - (i + 1) + 1) : b[k] = s[(i + 1) + k - 1]
    BY <1>1, <2>1, SubSeqProperties
  <2> QED BY <1>1, <2>2
<1>4. /\ a \o b \in Seq(S) /\ Len(a \o b) = Len(a) + Len(b)
      /\ \A k \in 1..(Len(a) + Len(b)) :
           (a \o b)[k] = IF k <= Len(a) THEN a[k] ELSE b[k - Len(a)]
  BY <1>2, <1>3, ConcatProperties
<1> HIDE DEF a, b
<1>5. Len(a \o b) = Len(s) - 1
  BY <1>1, <1>2, <1>3, <1>4
<1>6. \A k \in 1..(Len(s) - 1) : (a \o b)[k] = s[IF k < i THEN k ELSE k + 1]
  <2> SUFFICES ASSUME NEW k \in 1..(Len(s) - 1)
               PROVE  (a \o b)[k] = s[IF k < i THEN k ELSE k + 1]
    OBVIOUS
  <2>1. (a \o b)[k] = IF k <= i - 1 THEN a[k] ELSE b[k - (i - 1)]
    <3>1. k \in 1..(Len(a) + Len(b)) /\ Len(a) = i - 1
      BY <1>1, <1>2, <1>3
    <3> QED BY <1>4, <3>1
  <2>2. CASE k < i
    BY <1>1, <1>2, <2>1, <2>2
  <2>3. CASE ~(k < i)
    <3>1. k - (i - 1) \in 1..(Len(s) - i) /\ i + (k - (i - 1)) = k + 1
      BY <1>1, <2>3
    <3> QED BY <1>1, <1>3, <2>1, <2>3, <3>1
  <2> QED BY <2>2, <2>3
<1>7. DOMAIN (a \o b) = 1..(Len(s) - 1)
  BY <1>4, <1>5, LenProperties
<1> QED BY <1>4, <1>5, <1>6, <1>7 DEF RemoveAt, a, b

\* Removing a notification does not fill the resending queue.
LEMMA WaitingRemoved ==
  ASSUME NEW s \in Seq(Notifications), NEW i \in DOMAIN s
  PROVE  Cardinality(Waiting(RemoveAt(s, i))) <= Cardinality(Waiting(s))
<1> DEFINE t == RemoveAt(s, i)
           f == [k \in Waiting(t) |-> IF k < i THEN k ELSE k + 1]
<1>1. i \in 1..Len(s) /\ Len(s) \in Nat /\ DOMAIN s = 1..Len(s)
  BY LenProperties
<1>2. /\ DOMAIN t = 1..(Len(s) - 1)
      /\ \A k \in 1..(Len(s) - 1) : t[k] = s[IF k < i THEN k ELSE k + 1]
  BY RemoveAtEntries
<1> HIDE DEF t
<1>3. f \in Injection(Waiting(t), Waiting(s))
  <2>1. \A k \in Waiting(t) : k \in 1..(Len(s) - 1) /\ t[k].resent
    BY <1>2 DEF Waiting
  <2>2. \A k \in Waiting(t) : f[k] \in Waiting(s)
    <3> TAKE k \in Waiting(t)
    <3>1. f[k] \in 1..Len(s) /\ s[f[k]] = t[k]
      BY <1>1, <1>2, <2>1
    <3> QED BY <1>1, <2>1, <3>1 DEF Waiting
  <2>3. \A k, l \in Waiting(t) : f[k] = f[l] => k = l
    BY <1>1, <2>1
  <2> QED BY <2>2, <2>3 DEF Injection, IsInjective
<1>4. IsFiniteSet(Waiting(s))
  BY WaitingFinite
<1> HIDE DEF f
<1>5. Cardinality(Waiting(t)) <= Cardinality(Waiting(s))
  BY ONLY <1>3, <1>4, FS_Injection
<1> QED BY <1>5 DEF t

\* The new notification takes one place at most.
LEMMA WaitingAppended ==
  ASSUME NEW s \in Seq(Notifications), NEW m \in Notifications
  PROVE  Cardinality(Waiting(Append(s, m))) <= Cardinality(Waiting(s)) + 1
<1>1. /\ Len(s) \in Nat /\ DOMAIN s = 1..Len(s)
      /\ DOMAIN Append(s, m) = 1..(Len(s) + 1)
      /\ \A k \in 1..Len(s) : Append(s, m)[k] = s[k]
  BY LenProperties
<1>2. Waiting(Append(s, m)) \subseteq Waiting(s) \cup {Len(s) + 1}
  BY <1>1 DEF Waiting
<1>3. /\ IsFiniteSet(Waiting(s) \cup {Len(s) + 1})
      /\ Cardinality(Waiting(s) \cup {Len(s) + 1}) <= Cardinality(Waiting(s)) + 1
      /\ Cardinality(Waiting(s) \cup {Len(s) + 1}) \in Nat
  <2>1. IsFiniteSet(Waiting(s)) /\ Cardinality(Waiting(s)) \in Nat
    BY WaitingFinite
  <2>2. /\ IsFiniteSet(Waiting(s) \cup {Len(s) + 1})
        /\ Cardinality(Waiting(s) \cup {Len(s) + 1}) =
             IF Len(s) + 1 \in Waiting(s) THEN Cardinality(Waiting(s))
             ELSE Cardinality(Waiting(s)) + 1
    BY ONLY <2>1, FS_AddElement
  <2> QED BY <2>1, <2>2
<1>4. Append(s, m) \in Seq(Notifications)
  OBVIOUS
<1>5. Cardinality(Waiting(Append(s, m))) <= Cardinality(Waiting(s) \cup {Len(s) + 1})
  BY <1>2, <1>3, FS_Subset
<1>6. Cardinality(Waiting(Append(s, m))) \in Nat /\ Cardinality(Waiting(s)) \in Nat
  BY <1>4, WaitingFinite
<1> QED BY <1>3, <1>5, <1>6

-----------------------------------------------------------------------------
(***************************************************************************)
(* Lemmas about the report handler                                         *)
(***************************************************************************)

\* The fields of a handler.
LEMMA HandlerFields ==
  ASSUME NEW h \in Handlers
  PROVE  /\ h.observed \in BOOLEAN /\ h.inQueue \in BOOLEAN /\ h.inProgress \in BOOLEAN
         /\ h.notify \in BOOLEAN /\ h.pmin \in BOOLEAN /\ h.exceeded \in BOOLEAN
         /\ h.quiet \in BOOLEAN /\ h.timer \in BOOLEAN /\ h.valid \in BOOLEAN
         /\ h.current \in Values /\ h.last \in Values \cup {NoValue}
BY NotifyAssumption DEF Handlers

\* Starting the timers changes only exceeded and timer.
LEMMA TimersStartedFacts ==
  ASSUME NEW h \in Handlers
  PROVE  LET g == TimersStarted(h)
         IN /\ g \in Handlers
            /\ g.observed = h.observed /\ g.inQueue = h.inQueue
            /\ g.inProgress = h.inProgress /\ g.pmin = h.pmin /\ g.valid = h.valid
            /\ g.current = h.current /\ g.last = h.last /\ g.notify = h.notify
            /\ (h.timer => h.pmin) => (g.timer => g.pmin)
BY DEF Handlers, TimersStarted

\* What set_under_observation(true) does to a handler.
LEMMA SubscribedFacts ==
  ASSUME NEW h \in Handlers
  PROVE  LET g == Subscribed(h)
         IN /\ g \in Handlers /\ g.observed
            /\ g.inQueue = h.inQueue
            /\ g.inProgress = h.inProgress /\ g.pmin = h.pmin /\ g.valid = h.valid
            /\ g.current = h.current /\ g.last = h.last
            /\ g.timer => g.pmin
<1> DEFINE k == [h EXCEPT !.observed = TRUE, !.exceeded = FALSE, !.timer = FALSE]
<1>1. /\ k \in Handlers /\ k.observed /\ k.inQueue = h.inQueue
      /\ k.inProgress = h.inProgress /\ k.pmin = h.pmin /\ k.valid = h.valid
      /\ k.current = h.current /\ k.last = h.last /\ ~k.timer
  BY DEF Handlers
<1> HIDE DEF k
<1>2. LET g == TimersStarted(k)
      IN /\ g \in Handlers
         /\ g.observed = k.observed /\ g.inQueue = k.inQueue
         /\ g.inProgress = k.inProgress /\ g.pmin = k.pmin /\ g.valid = k.valid
         /\ g.current = k.current /\ g.last = k.last
         /\ g.timer => g.pmin
  BY <1>1, TimersStartedFacts
<1> QED BY <1>1, <1>2 DEF Subscribed, k

\* What set_under_observation(false) does to a handler.
LEMMA CancelledFacts ==
  ASSUME NEW h \in Handlers
  PROVE  LET g == Cancelled(h)
         IN /\ g \in Handlers /\ ~g.observed /\ ~g.inQueue /\ ~g.inProgress
            /\ ~g.pmin /\ ~g.timer /\ ~g.valid
BY DEF Handlers, Cancelled

\* What report leaves of a handler: what is sent is in progress and the last
\* value; what is not sent stays where it was.
LEMMA ReportedFacts ==
  ASSUME NEW h \in Handlers, NEW queued \in BOOLEAN
  PROVE  LET g == Reported(h, queued)
         IN /\ g \in Handlers
            /\ g.observed = h.observed /\ g.pmin = h.pmin /\ g.current = h.current
            /\ (h.timer => h.pmin) => (g.timer => g.pmin)
            /\ Sends(h, queued) =>
                 ~g.inQueue /\ g.inProgress /\ g.valid /\ g.last = h.current
            /\ ~Sends(h, queued) =>
                 /\ g.inQueue = h.inQueue /\ g.inProgress = h.inProgress
                 /\ g.valid = h.valid /\ g.last = h.last
<1> DEFINE tried == IF Wants(h, queued)
                    THEN [h EXCEPT !.notify = FALSE, !.exceeded = FALSE, !.quiet = FALSE]
                    ELSE h
           sent  == IF Sends(h, queued)
                    THEN [tried EXCEPT !.inQueue = FALSE, !.inProgress = TRUE,
                                       !.last = h.current, !.valid = TRUE]
                    ELSE tried
<1>1. /\ tried \in Handlers /\ tried.observed = h.observed /\ tried.pmin = h.pmin
      /\ tried.current = h.current /\ tried.timer = h.timer
      /\ tried.inQueue = h.inQueue /\ tried.inProgress = h.inProgress
      /\ tried.valid = h.valid /\ tried.last = h.last
  BY DEF Handlers
<1> HIDE DEF tried
<1>2. h.current \in Values
  BY HandlerFields
<1>3. /\ sent \in Handlers /\ sent.observed = h.observed /\ sent.pmin = h.pmin
      /\ sent.current = h.current /\ sent.timer = h.timer
      /\ Sends(h, queued) =>
           ~sent.inQueue /\ sent.inProgress /\ sent.valid /\ sent.last = h.current
      /\ ~Sends(h, queued) =>
           /\ sent.inQueue = h.inQueue /\ sent.inProgress = h.inProgress
           /\ sent.valid = h.valid /\ sent.last = h.last
  <2>1. CASE Sends(h, queued)
    <3>1. sent = [tried EXCEPT !.inQueue = FALSE, !.inProgress = TRUE,
                               !.last = h.current, !.valid = TRUE]
      BY <2>1
    <3> QED BY <1>1, <1>2, <2>1, <3>1 DEF Handlers
  <2>2. CASE ~Sends(h, queued)
    BY <1>1, <2>2
  <2> QED BY <2>1, <2>2
<1> HIDE DEF sent
<1>4. Reported(h, queued) = TimersStarted(sent)
  BY DEF Reported, tried, sent
<1> QED BY <1>3, <1>4, TimersStartedFacts

-----------------------------------------------------------------------------
(***************************************************************************)
(* Lemmas about the changes of what is in flight                           *)
(***************************************************************************)

\* The shape of what is in flight.
LEMMA FlightShape ==
  ASSUME flight \in Seq(Notifications)
  PROVE  /\ Len(flight) \in Nat /\ DOMAIN flight = 1..Len(flight)
         /\ \A i \in DOMAIN flight :
              /\ flight[i] \in Notifications
              /\ flight[i].r \in Resources /\ flight[i].val \in Values
<1>1. /\ Len(flight) \in Nat /\ DOMAIN flight = 1..Len(flight)
      /\ flight \in [1..Len(flight) -> Notifications]
  BY LenProperties
<1>2. \A i \in DOMAIN flight : flight[i] \in Notifications
  BY <1>1
<1>3. \A m \in Notifications : m.r \in Resources /\ m.val \in Values
  BY DEF Notifications
<1> QED BY <1>1, <1>2, <1>3

\* Marking notifications, one by one, keeps what is in flight a sequence.
LEMMA MarkedFlight ==
  ASSUME flight \in Seq(Notifications), NEW t,
         DOMAIN t = DOMAIN flight,
         t = [i \in DOMAIN flight |-> t[i]],
         \A i \in DOMAIN flight : t[i] \in Notifications
  PROVE  t \in Seq(Notifications) /\ Len(t) = Len(flight)
<1>1. Len(flight) \in Nat /\ DOMAIN flight = 1..Len(flight)
  BY FlightShape
<1>2. t \in [1..Len(flight) -> Notifications]
  BY <1>1
<1> QED BY <1>1, <1>2

\* Whoever leaves the resending queue makes room in it.
LEMMA WaitingShrinks ==
  ASSUME NEW s \in Seq(Notifications), NEW t \in Seq(Notifications),
         Waiting(t) \subseteq Waiting(s)
  PROVE  Cardinality(Waiting(t)) <= Cardinality(Waiting(s))
BY WaitingFinite, FS_Subset

\* The notifications in flight when one of r is superseded.
Superseded(r) ==
    [i \in DOMAIN flight |->
        IF flight[i].r = r THEN [flight[i] EXCEPT !.newest = FALSE] ELSE flight[i]]

\* Superseding changes no more than the mark of the newest.
LEMMA SupersededFacts ==
  ASSUME flight \in Seq(Notifications), NEW r \in Resources
  PROVE  /\ Superseded(r) \in Seq(Notifications)
         /\ Len(Superseded(r)) = Len(flight)
         /\ DOMAIN Superseded(r) = DOMAIN flight
         /\ Waiting(Superseded(r)) = Waiting(flight)
         /\ \A i \in DOMAIN flight :
              LET m == flight[i]
                  n == Superseded(r)[i]
              IN /\ n.r = m.r /\ n.val = m.val /\ n.got = m.got /\ n.old = m.old
                 /\ n.newest => m.newest /\ m.r # r
<1>1. \A i \in DOMAIN flight : flight[i] \in Notifications
  BY FlightShape
<1>2. \A i \in DOMAIN flight :
        LET m == flight[i]
            n == Superseded(r)[i]
        IN /\ n.r = m.r /\ n.val = m.val /\ n.got = m.got /\ n.old = m.old
           /\ n.newest => m.newest /\ m.r # r
           /\ n.resent = m.resent /\ n \in Notifications
  <2> SUFFICES ASSUME NEW i \in DOMAIN flight
               PROVE  LET m == flight[i]
                          n == Superseded(r)[i]
                      IN /\ n.r = m.r /\ n.val = m.val /\ n.got = m.got /\ n.old = m.old
                         /\ n.newest => m.newest /\ m.r # r
                         /\ n.resent = m.resent /\ n \in Notifications
    OBVIOUS
  <2>1. flight[i] \in Notifications
    BY <1>1
  <2>2. Superseded(r)[i] =
          IF flight[i].r = r THEN [flight[i] EXCEPT !.newest = FALSE] ELSE flight[i]
    BY DEF Superseded
  <2> QED BY <2>1, <2>2 DEF Notifications
<1>3. /\ DOMAIN Superseded(r) = DOMAIN flight
      /\ Superseded(r) = [i \in DOMAIN flight |-> Superseded(r)[i]]
  BY DEF Superseded
<1>4. Superseded(r) \in Seq(Notifications) /\ Len(Superseded(r)) = Len(flight)
  BY <1>2, <1>3, MarkedFlight
<1>5. Waiting(Superseded(r)) = Waiting(flight)
  BY <1>2, <1>3 DEF Waiting
<1> QED BY <1>2, <1>3, <1>4, <1>5

\* The attempt to send a notification of r: it is the last one in flight, or
\* the resending queue was full and nothing of r in flight is the newest.
LEMMA SendEffect ==
  ASSUME TypeOK, flight \in Seq(Notifications), NEW r \in Resources,
         value'[r] \in Values, SendNotification(r), link' = link
  PROVE  /\ flight' \in Seq(Notifications) /\ ongoing' \in BOOLEAN
         /\ unkept' = unkept \ {r}
         /\ Resending' <= QueueMsgs
         /\ DOMAIN flight' \subseteq DOMAIN flight \cup {Len(flight) + 1}
         /\ DOMAIN flight \subseteq DOMAIN flight'
         /\ \A i \in DOMAIN flight :
              LET m == flight[i]
                  n == flight'[i]
              IN /\ n.r = m.r /\ n.val = m.val /\ n.got = m.got /\ n.old = m.old
                 /\ n.newest => m.newest /\ m.r # r
         /\ \A i \in DOMAIN flight' \ DOMAIN flight :
              LET n == flight'[i]
              IN i = Len(flight) + 1 /\ n.r = r /\ n.val = value'[r] /\ ~n.got /\ ~n.old
<1> DEFINE b == Superseded(r)
           m == [r |-> r, val |-> value'[r], resent |-> TRUE,
                 got |-> FALSE, old |-> FALSE, newest |-> TRUE]
           reg == IF link.reg \in {"update", "register"} THEN 1 ELSE 0
<1>1. /\ Len(flight) \in Nat /\ DOMAIN flight = 1..Len(flight)
  BY FlightShape
<1>2. /\ b \in Seq(Notifications) /\ Len(b) = Len(flight) /\ DOMAIN b = DOMAIN flight
      /\ Waiting(b) = Waiting(flight)
      /\ \A i \in DOMAIN flight :
              LET p == flight[i]
                  n == b[i]
              IN /\ n.r = p.r /\ n.val = p.val /\ n.got = p.got /\ n.old = p.old
                 /\ n.newest => p.newest /\ p.r # r
  BY SupersededFacts
<1>3. /\ ongoing' = (Resending < QueueMsgs)
      /\ flight' = IF Resending < QueueMsgs THEN Append(b, m) ELSE b
      /\ unkept' = unkept \ {r}
  BY DEF SendNotification, Superseded
<1>4. m \in Notifications
  BY DEF Notifications
<1> HIDE DEF b, m
<1>5. /\ Resending = Cardinality(Waiting(flight)) + reg
      /\ Resending' = Cardinality(Waiting(flight')) + reg
      /\ Cardinality(Waiting(flight)) \in Nat /\ reg \in 0..1
  <2>1. Resending = Cardinality(Waiting(flight)) + reg
    BY DEF Resending, Waiting
  <2>2. Resending' = Cardinality(Waiting(flight')) + reg
    BY DEF Resending, Waiting
  <2>3. Cardinality(Waiting(flight)) \in Nat
    BY WaitingFinite
  <2> QED BY <2>1, <2>2, <2>3
<1>6. QueueMsgs \in Nat /\ Resending <= QueueMsgs
  BY NotifyAssumption DEF TypeOK
<1>7. CASE Resending < QueueMsgs
  <2>1. /\ Append(b, m) \in Seq(Notifications)
        /\ DOMAIN Append(b, m) = 1..(Len(flight) + 1)
        /\ \A i \in 1..Len(flight) : Append(b, m)[i] = b[i]
        /\ Append(b, m)[Len(flight) + 1] = m
    BY <1>1, <1>2, <1>4
  <2>2. Cardinality(Waiting(Append(b, m))) <= Cardinality(Waiting(flight)) + 1
    BY <1>2, <1>4, WaitingAppended
  <2>3. Cardinality(Waiting(Append(b, m))) \in Nat
    BY <2>1, WaitingFinite
  <2>4. Resending' <= QueueMsgs
    BY <1>3, <1>5, <1>6, <1>7, <2>2, <2>3
  <2>5. flight' = Append(b, m)
    BY <1>3, <1>7
  <2>6. m.r = r /\ m.val = value'[r] /\ ~m.got /\ ~m.old
    BY DEF m
  <2>7. \A i \in DOMAIN flight' \ DOMAIN flight : i = Len(flight) + 1
    BY <1>1, <2>1, <2>5
  <2> QED BY <1>1, <1>2, <1>3, <2>1, <2>4, <2>5, <2>6, <2>7
<1>8. CASE ~(Resending < QueueMsgs)
  <2>1. flight' = b
    BY <1>3, <1>8
  <2>2. Resending' <= QueueMsgs
    BY <1>2, <1>5, <1>6, <2>1
  <2>3. ongoing' \in BOOLEAN /\ unkept' = unkept \ {r}
    BY <1>3
  <2>4. DOMAIN flight' = DOMAIN flight
    BY <1>2, <2>1
  <2> QED BY <1>1, <1>2, <2>1, <2>2, <2>3, <2>4
<1> QED BY <1>7, <1>8

-----------------------------------------------------------------------------
(***************************************************************************)
(* The steps of a report handler                                           *)
(***************************************************************************)

\* What every step of the handler of r, which leaves it in state g and the
\* resource at value v, leaves alone and respects.
HandlerStep(r, g, v) ==
    /\ rep' = [rep EXCEPT ![r] = g] /\ value' = [value EXCEPT ![r] = v]
    /\ link' = link /\ server' = server
    /\ event' \in BOOLEAN /\ left' \in [sets : Nat, faults : Nat, attrs : Nat]
    /\ g.observed = rep[r].observed /\ (g.timer => g.pmin)
    /\ \/ g.observed /\ g.current = v
       \/ ~g.valid /\ ~g.inQueue /\ ~g.inProgress /\ (g.pmin => g.current = g.last)
    /\ g.valid /\ ~g.inQueue => g.last = v

\* The parts of the invariant that do not depend on what is in flight.
LEMMA HandlerStepCommon ==
  ASSUME IInv, NEW r \in Resources, NEW g \in Handlers, NEW v \in Values,
         HandlerStep(r, g, v)
  PROVE  /\ value' \in [Resources -> Values] /\ rep' \in [Resources -> Handlers]
         /\ event' \in BOOLEAN /\ left' \in [sets : Nat, faults : Nat, attrs : Nat]
         /\ link' = link /\ server' = server
         /\ rep'[r] = g /\ value'[r] = v
         /\ \A q \in Resources : q # r => rep'[q] = rep[q] /\ value'[q] = value[q]
         /\ LinkInv' /\ ClientInv' /\ HandlerInv'
<1>1. value \in [Resources -> Values] /\ rep \in [Resources -> Handlers]
  BY DEF IInv, TypeOK
<1>2. /\ value' \in [Resources -> Values] /\ rep' \in [Resources -> Handlers]
      /\ rep'[r] = g /\ value'[r] = v
      /\ \A q \in Resources : q # r => rep'[q] = rep[q] /\ value'[q] = value[q]
  BY <1>1 DEF HandlerStep
<1>3. LinkInv'
  BY DEF IInv, LinkInv, HandlerStep
<1>4. ClientInv'
  BY <1>2 DEF IInv, ClientInv, HandlerStep
<1>5. HandlerInv'
  BY <1>2 DEF IInv, HandlerInv, HandlerStep
<1> QED BY <1>2, <1>3, <1>4, <1>5 DEF HandlerStep

\* A step that sends a notification of r.
LEMMA SendingStep ==
  ASSUME IInv, NEW r \in Resources, NEW g \in Handlers, NEW v \in Values,
         HandlerStep(r, g, v), SendNotification(r),
         g.observed, ~g.inQueue, g.inProgress
  PROVE  IInv'
<1>1. /\ value' \in [Resources -> Values] /\ rep' \in [Resources -> Handlers]
      /\ event' \in BOOLEAN /\ left' \in [sets : Nat, faults : Nat, attrs : Nat]
      /\ link' = link /\ server' = server
      /\ rep'[r] = g /\ value'[r] = v
      /\ \A q \in Resources : q # r => rep'[q] = rep[q] /\ value'[q] = value[q]
      /\ LinkInv' /\ ClientInv' /\ HandlerInv'
  BY HandlerStepCommon
<1>2. /\ flight' \in Seq(Notifications) /\ ongoing' \in BOOLEAN
      /\ unkept' = unkept \ {r}
      /\ Resending' <= QueueMsgs
      /\ DOMAIN flight' \subseteq DOMAIN flight \cup {Len(flight) + 1}
      /\ DOMAIN flight \subseteq DOMAIN flight'
      /\ \A i \in DOMAIN flight :
           LET m == flight[i]
               n == flight'[i]
           IN /\ n.r = m.r /\ n.val = m.val /\ n.got = m.got /\ n.old = m.old
              /\ n.newest => m.newest /\ m.r # r
      /\ \A i \in DOMAIN flight' \ DOMAIN flight :
           LET n == flight'[i]
           IN i = Len(flight) + 1 /\ n.r = r /\ n.val = value'[r] /\ ~n.got /\ ~n.old
  BY <1>1, SendEffect DEF IInv
<1>3. TypeOK'
  <2>1. unkept' \subseteq Resources
    BY <1>2 DEF IInv, TypeOK
  <2>2. /\ link \in [online : BOOLEAN, reg : {"idle", "update", "register", "down"},
                     full : BOOLEAN]
        /\ server \in [known : BOOLEAN, obs : [Resources -> BOOLEAN],
                       val : [Resources -> Values]]
    BY DEF IInv, TypeOK
  <2> QED BY <1>1, <1>2, <2>1, <2>2 DEF TypeOK
<1>4. FlightInv'
  <2> SUFFICES ASSUME NEW i \in DOMAIN flight'
               PROVE  LET m == flight'[i]
                      IN /\ ~m.old => server.obs[m.r] \/ ~server.known
                         /\ \A k \in DOMAIN flight' :
                              flight'[k].r = m.r /\ k < i =>
                                ~flight'[k].newest /\ (m.got => flight'[k].got)
                         /\ m.newest /\ ~m.old /\ m.got => server.val[m.r] = m.val
                         /\ m.newest /\ ~m.old /\ rep'[m.r].observed
                            /\ rep'[m.r].inProgress /\ ~rep'[m.r].inQueue
                            => m.val = value'[m.r]
    BY <1>1 DEF FlightInv
  <2>0. /\ Len(flight) \in Nat /\ DOMAIN flight = 1..Len(flight)
        /\ \A k \in DOMAIN flight : flight[k].r \in Resources
    BY FlightShape DEF IInv
  <2>1. CASE i \in DOMAIN flight
    <3>1. \A k \in DOMAIN flight' : k < i => k \in DOMAIN flight
      BY <1>2, <2>0, <2>1
    <3> DEFINE m == flight[i]
               n == flight'[i]
    <3>2. /\ n.r = m.r /\ n.val = m.val /\ n.got = m.got /\ n.old = m.old
          /\ n.newest => m.newest /\ m.r # r
          /\ m.r \in Resources
      BY <1>2, <2>0, <2>1
    <3>3. /\ ~m.old => server.obs[m.r] \/ ~server.known
          /\ \A k \in DOMAIN flight :
               flight[k].r = m.r /\ k < i => ~flight[k].newest /\ (m.got => flight[k].got)
          /\ m.newest /\ ~m.old /\ m.got => server.val[m.r] = m.val
          /\ m.newest /\ ~m.old /\ rep[m.r].observed /\ rep[m.r].inProgress
             /\ ~rep[m.r].inQueue => m.val = value[m.r]
      BY <2>1 DEF IInv, FlightInv
    <3>4. n.newest => rep'[n.r] = rep[m.r] /\ value'[n.r] = value[m.r]
      BY <1>1, <3>2
    <3>5. \A k \in DOMAIN flight' :
            flight'[k].r = n.r /\ k < i => ~flight'[k].newest /\ (n.got => flight'[k].got)
      BY <1>2, <3>1, <3>2, <3>3
    <3> QED BY <3>2, <3>3, <3>4, <3>5
  <2>2. CASE i \notin DOMAIN flight
    <3>1. \A k \in DOMAIN flight' : k < i => k \in DOMAIN flight
      BY <1>2, <2>0, <2>2
    <3>2. server.obs[r] \/ ~server.known
      BY <1>1 DEF IInv, ClientInv
    <3> QED BY <1>1, <1>2, <2>0, <2>2, <3>1, <3>2
  <2> QED BY <2>1, <2>2
<1>5. ObservationsAgree' /\ NothingForgotten'
  <2>1. ObservationsAgree'
    BY <1>1, <1>2 DEF IInv, ObservationsAgree, Registering
  <2>2. NothingForgotten'
    BY <1>1, <1>2 DEF IInv, NothingForgotten, Registering, Synced
  <2> QED BY <2>1, <2>2
<1>6. PendingInv'
  <2> SUFFICES ASSUME NEW i \in DOMAIN flight', flight'[i].r # r,
                      ~flight'[i].got, ~flight'[i].old, flight'[i].r \notin unkept',
                      rep'[flight'[i].r].observed
               PROVE  LET q == flight'[i].r
                      IN rep'[q].inQueue \/ rep'[q].inProgress \/ flight'[i].val = value'[q]
    BY <1>1 DEF PendingInv
  <2>1. i \in DOMAIN flight /\ flight[i].r \in Resources
    BY <1>2, FlightShape DEF IInv
  <2>2. /\ flight'[i].r = flight[i].r /\ flight'[i].val = flight[i].val
        /\ ~flight[i].got /\ ~flight[i].old /\ flight[i].r \notin unkept
    BY <1>2, <2>1
  <2>3. /\ rep'[flight[i].r] = rep[flight[i].r] /\ value'[flight[i].r] = value[flight[i].r]
    BY <1>1, <2>1, <2>2
  <2> QED BY <2>1, <2>2, <2>3 DEF IInv, PendingInv
<1> QED BY <1>1, <1>2, <1>3, <1>4, <1>5, <1>6 DEF IInv

\* A step that sends nothing: what r has to send is still marked.
LEMMA KeepingStep ==
  ASSUME IInv, NEW r \in Resources, NEW g \in Handlers, NEW v \in Values,
         HandlerStep(r, g, v), UNCHANGED <<flight, unkept>>, ongoing' \in BOOLEAN,
         g.observed /\ (v # value[r] \/ rep[r].inQueue \/ rep[r].inProgress)
           => g.inQueue \/ (v = value[r] /\ g.inProgress),
         g.inProgress /\ ~g.inQueue => rep[r].inProgress /\ ~rep[r].inQueue
  PROVE  IInv'
<1>1. /\ value' \in [Resources -> Values] /\ rep' \in [Resources -> Handlers]
      /\ event' \in BOOLEAN /\ left' \in [sets : Nat, faults : Nat, attrs : Nat]
      /\ link' = link /\ server' = server
      /\ rep'[r] = g /\ value'[r] = v
      /\ \A q \in Resources : q # r => rep'[q] = rep[q] /\ value'[q] = value[q]
      /\ LinkInv' /\ ClientInv' /\ HandlerInv'
  BY HandlerStepCommon
<1>2. g.observed = rep[r].observed
  BY DEF HandlerStep
<1>3. TypeOK'
  <2>1. Resending' <= QueueMsgs
    BY <1>1 DEF IInv, TypeOK, Resending
  <2> QED BY <1>1, <2>1 DEF IInv, TypeOK
<1>4. FlightInv'
  <2>1. \A k \in DOMAIN flight : flight[k].r \in Resources
    BY FlightShape DEF IInv
  <2> QED BY <1>1, <1>2, <2>1 DEF IInv, FlightInv
<1>5. ObservationsAgree'
  BY <1>1, <1>2 DEF IInv, ObservationsAgree, Registering
<1>6. NothingForgotten'
  BY <1>1, <1>2 DEF IInv, NothingForgotten, ObservationsAgree, Registering, Synced
<1>7. PendingInv'
  <2>1. \A k \in DOMAIN flight : flight[k].r \in Resources
    BY FlightShape DEF IInv
  <2> QED BY <1>1, <1>2, <2>1 DEF IInv, PendingInv
<1> QED BY <1>1, <1>3, <1>4, <1>5, <1>6, <1>7 DEF IInv

\* schedule_report of the handler of r, which is in state h and has
\* something to send.
LEMMA ScheduleStep ==
  ASSUME IInv, NEW r \in Resources, NEW h \in Handlers, NEW v \in Values,
         NEW queued \in BOOLEAN,
         h.observed, rep[r].observed, h.current = v, h.timer => h.pmin,
         h.inQueue \/ (v = value[r] /\ h.inProgress),
         h.valid /\ ~h.inQueue => h.last = v,
         h.inProgress /\ ~h.inQueue => rep[r].inProgress /\ ~rep[r].inQueue,
         ScheduleReport(r, h, queued), value' = [value EXCEPT ![r] = v],
         event' \in BOOLEAN, left' \in [sets : Nat, faults : Nat, attrs : Nat],
         link' = link, server' = server
  PROVE  IInv'
<1> DEFINE k == [h EXCEPT !.notify = TRUE]
           g == Reported(k, queued)
<1>1. /\ k \in Handlers /\ k.observed /\ k.current = v /\ (k.timer => k.pmin)
      /\ k.inQueue = h.inQueue /\ k.inProgress = h.inProgress
      /\ k.valid = h.valid /\ k.last = h.last
  BY DEF Handlers
<1>2. /\ MayReport(k) => Report(r, k, queued)
      /\ ~MayReport(k) =>
           rep' = [rep EXCEPT ![r] = k] /\ UNCHANGED <<ongoing, flight, unkept>>
  BY DEF ScheduleReport
<1>3. ongoing \in BOOLEAN
  BY DEF IInv, TypeOK
<1> HIDE DEF k
<1>4. CASE ~MayReport(k)
  <2>1. HandlerStep(r, k, v)
    BY <1>1, <1>2, <1>4 DEF HandlerStep
  <2> QED BY <1>1, <1>2, <1>3, <1>4, <2>1, KeepingStep
<1>5. CASE MayReport(k)
  <2>1. /\ rep' = [rep EXCEPT ![r] = g]
        /\ Sends(k, queued) => SendNotification(r)
        /\ ~Sends(k, queued) => UNCHANGED <<ongoing, flight, unkept>>
    BY <1>2, <1>5 DEF Report
  <2>2. /\ g \in Handlers
        /\ g.observed /\ g.current = v
        /\ g.timer => g.pmin
        /\ Sends(k, queued) => ~g.inQueue /\ g.inProgress /\ g.valid /\ g.last = v
        /\ ~Sends(k, queued) =>
             /\ g.inQueue = k.inQueue /\ g.inProgress = k.inProgress
             /\ g.valid = k.valid /\ g.last = k.last
    BY <1>1, ReportedFacts
  <2> HIDE DEF g
  <2>3. HandlerStep(r, g, v)
    BY <1>1, <2>1, <2>2 DEF HandlerStep
  <2>4. CASE Sends(k, queued)
    BY <2>1, <2>2, <2>3, <2>4, SendingStep
  <2>5. CASE ~Sends(k, queued)
    BY <1>1, <1>3, <2>1, <2>2, <2>3, <2>5, KeepingStep
  <2> QED BY <2>4, <2>5
<1> QED BY <1>4, <1>5

\* The budgets stay natural numbers.
LEMMA LeftType ==
  ASSUME IInv
  PROVE  /\ left \in [sets : Nat, faults : Nat, attrs : Nat]
         /\ left.sets > 0 =>
              [left EXCEPT !.sets = @ - 1] \in [sets : Nat, faults : Nat, attrs : Nat]
         /\ left.faults > 0 =>
              [left EXCEPT !.faults = @ - 1] \in [sets : Nat, faults : Nat, attrs : Nat]
         /\ left.attrs > 0 =>
              [left EXCEPT !.attrs = @ - 1] \in [sets : Nat, faults : Nat, attrs : Nat]
BY DEF IInv

\* What the invariant says of one handler.
LEMMA HandlerOf ==
  ASSUME IInv, NEW r \in Resources
  PROVE  /\ rep[r] \in Handlers /\ value[r] \in Values
         /\ rep[r].timer => rep[r].pmin
         /\ \/ rep[r].observed /\ rep[r].current = value[r]
            \/ /\ ~rep[r].valid /\ ~rep[r].inQueue /\ ~rep[r].inProgress
               /\ rep[r].pmin => rep[r].current = rep[r].last
         /\ rep[r].valid /\ ~rep[r].inQueue => rep[r].last = value[r]
         /\ ongoing \in BOOLEAN /\ event \in BOOLEAN
         /\ rep = [rep EXCEPT ![r] = rep[r]] /\ value = [value EXCEPT ![r] = value[r]]
BY DEF IInv, TypeOK, HandlerInv

\* set_value keeps the invariant.
LEMMA SetValueStep ==
  ASSUME IInv, NEW r \in Resources, NEW v \in Values, SetValue(r, v)
  PROVE  IInv'
<1> DEFINE h == [rep[r] EXCEPT !.current = v]
           k == [h EXCEPT !.inQueue = TRUE]
<1>1. rep[r] \in Handlers
  BY HandlerOf
<1>2. /\ h \in Handlers /\ h.observed = rep[r].observed /\ h.current = v
      /\ h.timer = rep[r].timer /\ h.pmin = rep[r].pmin
      /\ h.inQueue = rep[r].inQueue /\ h.inProgress = rep[r].inProgress
      /\ h.valid = rep[r].valid /\ h.last = rep[r].last
  BY <1>1 DEF Handlers
<1>3. /\ k \in Handlers /\ k.observed = rep[r].observed /\ k.current = v
      /\ k.timer = rep[r].timer /\ k.pmin = rep[r].pmin /\ k.inQueue
  BY <1>1 DEF Handlers
<1>4. /\ v # value[r] /\ value' = [value EXCEPT ![r] = v]
      /\ event' \in BOOLEAN /\ left' \in [sets : Nat, faults : Nat, attrs : Nat]
      /\ link' = link /\ server' = server
  BY LeftType, HandlerOf DEF SetValue
<1>5. CASE ~rep[r].observed
  <2>1. UNCHANGED <<rep, ongoing, flight, unkept>>
    BY <1>5 DEF SetValue
  <2>2. HandlerStep(r, rep[r], v)
    BY <1>4, <1>5, <2>1, HandlerOf DEF HandlerStep
  <2> QED BY <1>1, <1>5, <2>1, <2>2, HandlerOf, KeepingStep
<1>6. CASE rep[r].observed /\ (~h.valid \/ v # h.last)
  <2>1. ScheduleReport(r, k, FALSE)
    BY <1>6 DEF SetValue
  <2> HIDE DEF k
  <2> QED BY <1>3, <1>4, <1>6, <2>1, HandlerOf, ScheduleStep
<1>7. CASE rep[r].observed /\ ~(~h.valid \/ v # h.last)
  <2>1. rep' = [rep EXCEPT ![r] = h] /\ UNCHANGED <<ongoing, flight, unkept>>
    BY <1>7 DEF SetValue
  <2> HIDE DEF h
  <2>2. h.valid /\ v = h.last
    BY <1>7
  <2>3. rep[r].inQueue
    BY <1>2, <1>4, <2>2, HandlerOf
  <2>4. HandlerStep(r, h, v)
    BY <1>2, <1>4, <1>7, <2>1, <2>3, HandlerOf DEF HandlerStep
  <2> QED BY <1>2, <2>1, <2>3, <2>4, HandlerOf, KeepingStep
<1> QED BY <1>5, <1>6, <1>7

\* The expiry of the pmin timer keeps the invariant.
LEMMA PminExpiresStep ==
  ASSUME IInv, NEW r \in Resources, PminExpires(r)
  PROVE  IInv'
<1> DEFINE h == [rep[r] EXCEPT !.exceeded = TRUE, !.timer = FALSE]
           g == Reported(h, FALSE)
           k == [g EXCEPT !.quiet = g.quiet \/ g.current = g.last]
           v == value[r]
<1>1. rep[r] \in Handlers /\ v \in Values
  BY HandlerOf
<1>2. /\ h \in Handlers /\ h.observed = rep[r].observed /\ h.current = rep[r].current
      /\ ~h.timer /\ h.pmin = rep[r].pmin
      /\ h.inQueue = rep[r].inQueue /\ h.inProgress = rep[r].inProgress
      /\ h.valid = rep[r].valid /\ h.last = rep[r].last
  BY <1>1 DEF Handlers
<1>3. /\ rep[r].timer /\ rep' = [rep EXCEPT ![r] = k]
      /\ Sends(h, FALSE) => value' = value /\ SendNotification(r)
      /\ ~Sends(h, FALSE) => UNCHANGED <<value, ongoing, flight, unkept>>
      /\ UNCHANGED <<event, link, server, left>>
  BY DEF PminExpires
<1> HIDE DEF h
<1>4. /\ g \in Handlers
      /\ g.observed = h.observed /\ g.pmin = h.pmin /\ g.current = h.current
      /\ g.timer => g.pmin
      /\ Sends(h, FALSE) => ~g.inQueue /\ g.inProgress /\ g.valid /\ g.last = h.current
      /\ ~Sends(h, FALSE) =>
           /\ g.inQueue = h.inQueue /\ g.inProgress = h.inProgress
           /\ g.valid = h.valid /\ g.last = h.last
  BY <1>2, ReportedFacts
<1> HIDE DEF g
<1>5. /\ k \in Handlers /\ k.observed = g.observed /\ k.pmin = g.pmin
      /\ k.current = g.current /\ k.timer = g.timer /\ k.inQueue = g.inQueue
      /\ k.inProgress = g.inProgress /\ k.valid = g.valid /\ k.last = g.last
  <2>1. (g.quiet \/ g.current = g.last) \in BOOLEAN
    BY <1>4, HandlerFields
  <2> QED BY <1>4, <2>1 DEF Handlers
<1> HIDE DEF k
<1>6. /\ value' = [value EXCEPT ![r] = v] /\ event' \in BOOLEAN
      /\ left' \in [sets : Nat, faults : Nat, attrs : Nat]
  BY <1>3, LeftType, HandlerOf
<1>7. CASE Sends(h, FALSE)
  <2>1. h.current # h.last
    BY <1>7 DEF Sends, Wants
  <2>2. rep[r].observed /\ rep[r].current = v
    BY <1>2, <1>3, <2>1, HandlerOf
  <2>3. HandlerStep(r, k, v)
    BY <1>2, <1>3, <1>4, <1>5, <1>6, <1>7, <2>2 DEF HandlerStep
  <2> QED BY <1>1, <1>2, <1>3, <1>4, <1>5, <1>7, <2>2, <2>3, SendingStep
<1>8. CASE ~Sends(h, FALSE)
  <2>1. HandlerStep(r, k, v)
    BY <1>2, <1>3, <1>4, <1>5, <1>6, <1>8, HandlerOf DEF HandlerStep
  <2> QED BY <1>1, <1>2, <1>3, <1>4, <1>5, <1>8, <2>1, HandlerOf, KeepingStep
<1> QED BY <1>7, <1>8

\* Writing the pmin attribute keeps the invariant.
LEMMA WritePminStep ==
  ASSUME IInv, NEW r \in Resources, WritePmin(r)
  PROVE  IInv'
<1> DEFINE h == [rep[r] EXCEPT !.current = value[r], !.last = value[r], !.valid = FALSE,
                               !.pmin = TRUE]
           g == IF h.observed THEN Subscribed(h) ELSE TimersStarted(h)
           v == value[r]
<1>1. rep[r] \in Handlers /\ v \in Values
  BY HandlerOf
<1>2. /\ h \in Handlers /\ h.observed = rep[r].observed /\ h.current = v
      /\ h.pmin /\ ~h.valid /\ h.last = v
      /\ h.inQueue = rep[r].inQueue /\ h.inProgress = rep[r].inProgress
  BY <1>1 DEF Handlers
<1>3. /\ rep' = [rep EXCEPT ![r] = g]
      /\ left.attrs > 0 /\ left' = [left EXCEPT !.attrs = @ - 1]
      /\ UNCHANGED <<value, ongoing, event, link, flight, server, unkept>>
  BY DEF WritePmin
<1> HIDE DEF h
<1>4. /\ g \in Handlers /\ g.observed = h.observed
      /\ g.inQueue = h.inQueue /\ g.inProgress = h.inProgress /\ g.pmin = h.pmin
      /\ g.valid = h.valid /\ g.current = h.current /\ g.last = h.last
      /\ g.timer => g.pmin
  <2>1. CASE h.observed
    BY <1>2, <2>1, SubscribedFacts
  <2>2. CASE ~h.observed
    BY <1>2, <2>2, TimersStartedFacts
  <2> QED BY <2>1, <2>2
<1> HIDE DEF g
<1>5. /\ value' = [value EXCEPT ![r] = v] /\ event' \in BOOLEAN
      /\ left' \in [sets : Nat, faults : Nat, attrs : Nat]
  BY <1>3, LeftType, HandlerOf
<1>6. HandlerStep(r, g, v)
  BY <1>2, <1>3, <1>4, <1>5, HandlerOf DEF HandlerStep
<1> QED BY <1>1, <1>2, <1>3, <1>4, <1>6, HandlerOf, KeepingStep

\* send_next_notification keeps the invariant.
LEMMA SendNextStep ==
  ASSUME IInv, SendNext
  PROVE  IInv'
<1> DEFINE due == {r \in Resources :
                     rep[r].observed /\ (rep[r].inQueue \/ rep[r].inProgress)}
<1>1. /\ event' = FALSE /\ value' = value /\ UNCHANGED <<link, server, left>>
      /\ IF due = {} THEN ongoing' = FALSE /\ UNCHANGED <<rep, flight, unkept>>
         ELSE ScheduleReport(Min(due), rep[Min(due)], TRUE)
  BY DEF SendNext
<1>2. CASE due = {}
  <2>1. ongoing' = FALSE /\ UNCHANGED <<rep, flight, unkept>>
    BY <1>1, <1>2
  <2> QED BY <1>1, <2>1
          DEF IInv, TypeOK, Resending, LinkInv, ClientInv, HandlerInv, FlightInv,
              PendingInv, ObservationsAgree, NothingForgotten, Registering, Synced
<1>3. CASE due # {}
  <2> DEFINE r == Min(due)
  <2>1. due \subseteq Nat
    BY NotifyAssumption
  <2>2. r \in due
    BY <1>3, <2>1, MinIsElement
  <2>3. ScheduleReport(r, rep[r], TRUE)
    BY <1>1, <1>3
  <2> HIDE DEF r
  <2>4. /\ r \in Resources /\ rep[r].observed /\ (rep[r].inQueue \/ rep[r].inProgress)
    BY <2>2
  <2>5. /\ value' = [value EXCEPT ![r] = value[r]] /\ rep[r].current = value[r]
        /\ left' \in [sets : Nat, faults : Nat, attrs : Nat]
    BY <1>1, <2>4, LeftType, HandlerOf
  <2> QED BY <1>1, <2>3, <2>4, <2>5, HandlerOf, ScheduleStep
<1> QED BY <1>2, <1>3

-----------------------------------------------------------------------------
(***************************************************************************)
(* The fate of a notification                                              *)
(***************************************************************************)

\* A notification leaves what is in flight: the others keep their order.
LEMMA RemoveStep ==
  ASSUME flight \in Seq(Notifications), FlightInv, NEW i \in DOMAIN flight,
         flight' = RemoveAt(flight, i), server' = server, value' = value,
         \A q \in Resources :
           rep'[q].observed /\ rep'[q].inProgress /\ ~rep'[q].inQueue =>
             rep[q].observed /\ rep[q].inProgress /\ ~rep[q].inQueue
  PROVE  /\ flight' \in Seq(Notifications) /\ FlightInv'
         /\ Cardinality(Waiting(flight')) <= Cardinality(Waiting(flight))
         /\ \A k \in DOMAIN flight' :
              \E l \in DOMAIN flight : l # i /\ flight'[k] = flight[l]
<1> DEFINE o(k) == IF k < i THEN k ELSE k + 1
<1>1. /\ Len(flight) \in Nat /\ DOMAIN flight = 1..Len(flight)
      /\ \A k \in DOMAIN flight : flight[k].r \in Resources
  BY FlightShape
<1>2. /\ flight' \in Seq(Notifications) /\ DOMAIN flight' = 1..(Len(flight) - 1)
      /\ \A k \in 1..(Len(flight) - 1) : flight'[k] = flight[o(k)]
  BY RemoveAtEntries
<1>3. \A k \in DOMAIN flight' : o(k) \in DOMAIN flight /\ flight'[k] = flight[o(k)]
  BY <1>1, <1>2
<1>4. /\ \A k, l \in DOMAIN flight' : k < l => o(k) < o(l)
      /\ \A k \in DOMAIN flight' : o(k) # i
  BY <1>1, <1>2
<1> HIDE DEF o
<1>5. FlightInv'
  <2> SUFFICES ASSUME NEW j \in DOMAIN flight'
               PROVE  LET m == flight'[j]
                      IN /\ ~m.old => server.obs[m.r] \/ ~server.known
                         /\ \A k \in DOMAIN flight' :
                              flight'[k].r = m.r /\ k < j =>
                                ~flight'[k].newest /\ (m.got => flight'[k].got)
                         /\ m.newest /\ ~m.old /\ m.got => server.val[m.r] = m.val
                         /\ m.newest /\ ~m.old /\ rep'[m.r].observed
                            /\ rep'[m.r].inProgress /\ ~rep'[m.r].inQueue
                            => m.val = value[m.r]
    BY DEF FlightInv
  <2> DEFINE m == flight[o(j)]
  <2>1. /\ o(j) \in DOMAIN flight /\ flight'[j] = m /\ m.r \in Resources
    BY <1>1, <1>3
  <2>2. /\ ~m.old => server.obs[m.r] \/ ~server.known
        /\ \A k \in DOMAIN flight :
             flight[k].r = m.r /\ k < o(j) => ~flight[k].newest /\ (m.got => flight[k].got)
        /\ m.newest /\ ~m.old /\ m.got => server.val[m.r] = m.val
        /\ m.newest /\ ~m.old /\ rep[m.r].observed /\ rep[m.r].inProgress
           /\ ~rep[m.r].inQueue => m.val = value[m.r]
    BY <2>1 DEF FlightInv
  <2> HIDE DEF m
  <2>3. \A k \in DOMAIN flight' :
          flight'[k].r = m.r /\ k < j => ~flight'[k].newest /\ (m.got => flight'[k].got)
    BY <1>3, <1>4, <2>2
  <2> QED BY <2>1, <2>2, <2>3
<1>6. \A k \in DOMAIN flight' :
        \E l \in DOMAIN flight : l # i /\ flight'[k] = flight[l]
  BY <1>3, <1>4
<1> QED BY <1>2, <1>5, <1>6, WaitingRemoved

\* Fewer notifications in flight, and nothing else that changed.
LEMMA PendingKept ==
  ASSUME IInv, UNCHANGED <<value, rep, unkept>>,
         \A k \in DOMAIN flight' : \E l \in DOMAIN flight : flight'[k] = flight[l]
  PROVE  PendingInv'
<1> SUFFICES ASSUME NEW k \in DOMAIN flight'
             PROVE  LET m == flight'[k]
                    IN ~m.got /\ ~m.old /\ m.r \notin unkept /\ rep[m.r].observed =>
                         rep[m.r].inQueue \/ rep[m.r].inProgress \/ m.val = value[m.r]
  BY DEF PendingInv
<1>1. PICK l \in DOMAIN flight : flight'[k] = flight[l]
  OBVIOUS
<1> QED BY <1>1 DEF IInv, PendingInv

\* The resending queue holds what it held before or less.
LEMMA ResendingBound ==
  ASSUME IInv, flight' \in Seq(Notifications),
         Cardinality(Waiting(flight')) <= Cardinality(Waiting(flight)),
         link'.reg \in {"update", "register"} => link.reg \in {"update", "register"}
  PROVE  Resending' <= QueueMsgs
<1> DEFINE a == IF link.reg \in {"update", "register"} THEN 1 ELSE 0
           b == IF link'.reg \in {"update", "register"} THEN 1 ELSE 0
<1>1. Resending = Cardinality(Waiting(flight)) + a
  BY DEF Resending, Waiting
<1>2. Resending' = Cardinality(Waiting(flight')) + b
  BY DEF Resending, Waiting
<1>3. Cardinality(Waiting(flight)) \in Nat /\ Cardinality(Waiting(flight')) \in Nat
  BY WaitingFinite DEF IInv
<1>4. Resending <= QueueMsgs /\ QueueMsgs \in Nat
  BY NotifyAssumption DEF IInv, TypeOK
<1>5. a \in Nat /\ b \in Nat /\ b <= a
  OBVIOUS
<1> HIDE DEF a, b
<1> QED BY <1>1, <1>2, <1>3, <1>4, <1>5

\* The variables that the steps below leave alone, or change as they may.
LEMMA Types ==
  ASSUME IInv
  PROVE  /\ value \in [Resources -> Values] /\ rep \in [Resources -> Handlers]
         /\ ongoing \in BOOLEAN /\ event \in BOOLEAN
         /\ link.online \in BOOLEAN /\ link.full \in BOOLEAN
         /\ link.reg \in {"idle", "update", "register", "down"}
         /\ link \in [online : BOOLEAN, reg : {"idle", "update", "register", "down"},
                      full : BOOLEAN]
         /\ server \in [known : BOOLEAN, obs : [Resources -> BOOLEAN],
                        val : [Resources -> Values]]
         /\ server.known \in BOOLEAN /\ server.obs \in [Resources -> BOOLEAN]
         /\ server.val \in [Resources -> Values]
         /\ unkept \subseteq Resources /\ flight \in Seq(Notifications)
         /\ Resending <= QueueMsgs
BY DEF IInv, TypeOK

\* An acknowledgement, of whichever notification, keeps the invariant.
LEMMA AckedStep ==
  ASSUME IInv, NEW i \in DOMAIN flight, Acked(i)
  PROVE  IInv'
<1> DEFINE m == flight[i]
           r == m.r
           g == [rep[r] EXCEPT !.inProgress = FALSE]
<1>1. m \in Notifications /\ r \in Resources
  BY FlightShape DEF IInv
<1>2. rep[r] \in Handlers
  BY <1>1, Types
<1>3. /\ g \in Handlers /\ g.observed = rep[r].observed /\ g.current = rep[r].current
      /\ g.timer = rep[r].timer /\ g.pmin = rep[r].pmin
      /\ g.inQueue = rep[r].inQueue /\ ~g.inProgress
      /\ g.valid = rep[r].valid /\ g.last = rep[r].last
  BY <1>2 DEF Handlers
<1>4. /\ m.got /\ rep' = [rep EXCEPT ![r] = g]
      /\ ongoing' = FALSE /\ event' = TRUE /\ flight' = RemoveAt(flight, i)
      /\ unkept' = IF (m.old \/ ~m.newest) /\ rep[r].inProgress /\ Unsettled(r)
                   THEN unkept \cup {r} ELSE unkept
      /\ UNCHANGED <<value, link, server, left>>
  BY DEF Acked
<1>5. /\ ~m.old => server.obs[r] \/ ~server.known
      /\ m.newest /\ ~m.old /\ m.got => server.val[r] = m.val
      /\ m.newest /\ ~m.old /\ rep[r].observed /\ rep[r].inProgress
         /\ ~rep[r].inQueue => m.val = value[r]
      /\ \A l \in DOMAIN flight : flight[l].r = r /\ m.newest => l <= i
      /\ \A l \in DOMAIN flight : flight[l].r = r /\ l < i => flight[l].got
  <2>1. /\ \A l \in DOMAIN flight : l \in Nat
        /\ i \in Nat
    BY FlightShape DEF IInv
  <2>2. \A l \in DOMAIN flight : flight[l].r = r /\ i < l => ~m.newest
    BY DEF IInv, FlightInv
  <2>3. \A l \in DOMAIN flight : flight[l].r = r /\ m.newest => l <= i
    BY <2>1, <2>2
  <2> QED BY <1>4, <2>3 DEF IInv, FlightInv
<1> HIDE DEF m, r, g
<1>6. /\ rep' \in [Resources -> Handlers] /\ rep'[r] = g
      /\ \A q \in Resources : q # r => rep'[q] = rep[q]
  BY <1>1, <1>3, <1>4, Types
<1>7. /\ flight' \in Seq(Notifications) /\ FlightInv'
      /\ Cardinality(Waiting(flight')) <= Cardinality(Waiting(flight))
      /\ \A k \in DOMAIN flight' :
           \E l \in DOMAIN flight : l # i /\ flight'[k] = flight[l]
  BY <1>1, <1>3, <1>4, <1>6, RemoveStep DEF IInv
<1>8. Resending' <= QueueMsgs
  BY <1>4, <1>7, ResendingBound
<1>9. TypeOK'
  BY <1>1, <1>4, <1>6, <1>8, Types DEF TypeOK
<1>10. LinkInv' /\ ClientInv'
  BY <1>3, <1>4, <1>6 DEF IInv, LinkInv, ClientInv
<1>11. HandlerInv'
  BY <1>3, <1>4, <1>6 DEF IInv, HandlerInv
<1>12. unkept \subseteq unkept'
  BY <1>4
<1>13. ObservationsAgree'
  BY <1>3, <1>4, <1>6, <1>12 DEF IInv, ObservationsAgree, Registering
<1>14. NothingForgotten'
  <2> SUFFICES ASSUME NEW q \in Resources \ unkept', server.obs[q], ~Synced(q), ~Registering
               PROVE  rep'[q].observed /\ (rep'[q].inQueue \/ rep'[q].inProgress)
    BY <1>4 DEF NothingForgotten, Registering, Synced
  <2>1. q \in Resources \ unkept
    BY <1>12
  <2>2. rep[q].observed /\ (rep[q].inQueue \/ rep[q].inProgress)
    BY <2>1 DEF IInv, NothingForgotten
  <2>3. CASE q # r
    BY <1>6, <2>2, <2>3
  <2>4. CASE q = r
    <3>1. rep[r].inQueue
      BY <1>4, <1>5, <2>2, <2>4 DEF Synced, Unsettled
    <3> QED BY <1>3, <1>6, <2>2, <2>4, <3>1
  <2> QED BY <2>3, <2>4
<1>15. PendingInv'
  <2> SUFFICES ASSUME NEW k \in DOMAIN flight', ~flight'[k].got, ~flight'[k].old,
                      flight'[k].r \notin unkept', rep'[flight'[k].r].observed
               PROVE  LET q == flight'[k].r
                      IN rep'[q].inQueue \/ rep'[q].inProgress \/ flight'[k].val = value[q]
    BY <1>4 DEF PendingInv
  <2>1. PICK l \in DOMAIN flight : l # i /\ flight'[k] = flight[l]
    BY <1>7
  <2> DEFINE q == flight[l].r
  <2>2. q \in Resources /\ l \in Nat /\ i \in Nat
    BY FlightShape DEF IInv
  <2>3. rep[q].observed
    BY <1>3, <1>6, <2>1, <2>2
  <2>4. rep[q].inQueue \/ rep[q].inProgress \/ flight[l].val = value[q]
    BY <1>12, <2>1, <2>3 DEF IInv, PendingInv
  <2>5. CASE q # r
    BY <1>6, <2>1, <2>2, <2>4, <2>5
  <2>6. CASE q = r /\ ~rep[r].inProgress
    BY <1>3, <1>6, <2>1, <2>4, <2>6
  <2>7. CASE q = r /\ rep[r].inProgress
    <3>1. m.old \/ ~m.newest
      BY <1>5, <2>1, <2>2, <2>7
    <3>2. ~Unsettled(r)
      BY <1>4, <2>1, <2>7, <3>1
    <3>3. flight[l].val = value[r]
      BY <2>1, <2>7, <3>2 DEF Unsettled
    <3> QED BY <2>1, <2>7, <3>3
  <2> QED BY <2>5, <2>6, <2>7
<1> QED BY <1>4, <1>7, <1>9, <1>10, <1>11, <1>13, <1>14, <1>15 DEF IInv

\* A reset, of whichever notification, keeps the invariant.
LEMMA ResetStep ==
  ASSUME IInv, NEW i \in DOMAIN flight, Reset(i)
  PROVE  IInv'
<1> DEFINE r == flight[i].r
           g == Cancelled(rep[r])
<1>1. r \in Resources
  BY FlightShape DEF IInv
<1>2. /\ g \in Handlers /\ ~g.observed /\ ~g.inQueue /\ ~g.inProgress
      /\ ~g.pmin /\ ~g.timer /\ ~g.valid
  BY <1>1, Types, CancelledFacts
<1>3. /\ rep' = [rep EXCEPT ![r] = g]
      /\ ongoing' = FALSE /\ event' = TRUE /\ flight' = RemoveAt(flight, i)
      /\ unkept' = IF server.obs[r] THEN unkept \cup {r} ELSE unkept
      /\ UNCHANGED <<value, link, server, left>>
  BY DEF Reset
<1> HIDE DEF r, g
<1>4. /\ rep' \in [Resources -> Handlers] /\ rep'[r] = g
      /\ \A q \in Resources : q # r => rep'[q] = rep[q]
  BY <1>1, <1>2, <1>3, Types
<1>5. /\ flight' \in Seq(Notifications) /\ FlightInv'
      /\ Cardinality(Waiting(flight')) <= Cardinality(Waiting(flight))
      /\ \A k \in DOMAIN flight' : \E l \in DOMAIN flight : flight'[k] = flight[l]
  BY <1>1, <1>2, <1>3, <1>4, RemoveStep DEF IInv
<1>6. Resending' <= QueueMsgs
  BY <1>3, <1>5, ResendingBound
<1>7. TypeOK'
  BY <1>1, <1>3, <1>4, <1>6, Types DEF TypeOK
<1>8. LinkInv' /\ ClientInv'
  BY <1>2, <1>3, <1>4 DEF IInv, LinkInv, ClientInv
<1>9. HandlerInv'
  BY <1>2, <1>3, <1>4 DEF IInv, HandlerInv
<1>10. ObservationsAgree'
  BY <1>2, <1>3, <1>4 DEF IInv, ObservationsAgree, Registering
<1>11. NothingForgotten'
  BY <1>2, <1>3, <1>4 DEF IInv, NothingForgotten, Registering, Synced
<1>12. PendingInv'
  <2>1. \A l \in DOMAIN flight : flight[l].r \in Resources
    BY FlightShape DEF IInv
  <2> QED BY <1>2, <1>3, <1>4, <1>5, <2>1 DEF IInv, PendingInv
<1> QED BY <1>3, <1>5, <1>7, <1>8, <1>9, <1>10, <1>11, <1>12 DEF IInv

\* Losing a notification that is not resent keeps the invariant.
LEMMA LostStep ==
  ASSUME IInv, NEW i \in DOMAIN flight, Lost(i)
  PROVE  IInv'
<1>1. /\ flight' = RemoveAt(flight, i)
      /\ UNCHANGED <<value, rep, ongoing, event, link, server, left, unkept>>
  BY DEF Lost
<1>2. /\ flight' \in Seq(Notifications) /\ FlightInv'
      /\ Cardinality(Waiting(flight')) <= Cardinality(Waiting(flight))
      /\ \A k \in DOMAIN flight' : \E l \in DOMAIN flight : flight'[k] = flight[l]
  BY <1>1, RemoveStep DEF IInv
<1>3. Resending' <= QueueMsgs
  BY <1>1, <1>2, ResendingBound
<1>4. PendingInv'
  BY <1>1, <1>2, PendingKept
<1> QED BY <1>1, <1>2, <1>3, <1>4
        DEF IInv, TypeOK, LinkInv, ClientInv, HandlerInv, ObservationsAgree,
            NothingForgotten, Registering, Synced

\* A client that goes down keeps what it has to send.
LEMMA DownStep ==
  ASSUME IInv, FlightInv', PendingInv', flight' \in Seq(Notifications),
         Cardinality(Waiting(flight')) <= Cardinality(Waiting(flight)),
         link' \in [online : {FALSE}, reg : {"down"}, full : BOOLEAN],
         link.full \/ (link.reg = "register" /\ server.known) => link'.full,
         left' \in [sets : Nat, faults : Nat, attrs : Nat],
         UNCHANGED <<value, rep, ongoing, event, server, unkept>>
  PROVE  IInv'
<1>1. link'.online = FALSE /\ link'.reg = "down" /\ link'.full \in BOOLEAN
  OBVIOUS
<1>2. Resending' <= QueueMsgs
  BY <1>1, ResendingBound
<1>3. TypeOK'
  BY <1>2, Types DEF TypeOK
<1>4. LinkInv' /\ ClientInv' /\ HandlerInv'
  BY <1>1 DEF IInv, LinkInv, ClientInv, HandlerInv
<1>5. \A r \in Resources : server.obs[r] => (Registering => Registering')
  BY <1>1, Types DEF IInv, LinkInv, Registering
<1>6. ObservationsAgree' /\ NothingForgotten'
  BY <1>5 DEF IInv, ObservationsAgree, NothingForgotten, Synced
<1> QED BY <1>3, <1>4, <1>6 DEF IInv

\* A notification that is given up keeps the invariant.
LEMMA SendingFailsStep ==
  ASSUME IInv, NEW i \in DOMAIN flight, SendingFails(i)
  PROVE  IInv'
<1>1. /\ flight' = RemoveAt(flight, i)
      /\ left.faults > 0 /\ left' = [left EXCEPT !.faults = @ - 1]
      /\ link.reg # "down"
      /\ UNCHANGED <<value, rep, ongoing, event, server, unkept>>
  BY DEF SendingFails, Fault, Connected
<1>2. PICK full \in BOOLEAN :
        link' = [online |-> FALSE, reg |-> "down", full |-> link.full \/ full]
  BY DEF SendingFails, RegistrationError
<1>3. link.full \in BOOLEAN
  BY Types
<1>4. /\ flight' \in Seq(Notifications) /\ FlightInv'
      /\ Cardinality(Waiting(flight')) <= Cardinality(Waiting(flight))
      /\ \A k \in DOMAIN flight' : \E l \in DOMAIN flight : flight'[k] = flight[l]
  BY <1>1, RemoveStep DEF IInv
<1>7. PendingInv'
  BY <1>1, <1>4, PendingKept
<1>5. CASE link.full \/ full \/ ~(link.reg = "register" /\ server.known)
  BY <1>1, <1>2, <1>3, <1>4, <1>5, <1>7, LeftType, DownStep
<1>6. CASE ~link.full /\ link.reg = "register" /\ server.known
  BY <1>6 DEF IInv, LinkInv
<1> QED BY <1>3, <1>5, <1>6, Types

\* The arrival of a notification at the service keeps the invariant.
LEMMA DeliverStep ==
  ASSUME IInv, NEW i \in DOMAIN flight, Deliver(i)
  PROVE  IInv'
<1> DEFINE m == flight[i]
           r == m.r
<1>1. /\ m \in Notifications /\ r \in Resources /\ m.val \in Values
      /\ Len(flight) \in Nat /\ DOMAIN flight = 1..Len(flight)
      /\ \A k \in DOMAIN flight : flight[k] \in Notifications /\ flight[k].r \in Resources
  BY FlightShape DEF IInv
<1>2. /\ ~m.got /\ ~m.old
      /\ server' = [server EXCEPT !.val[r] = m.val]
      /\ flight' = [k \in DOMAIN flight |->
                      IF k <= i /\ flight[k].r = r
                      THEN [flight[k] EXCEPT !.got = TRUE] ELSE flight[k]]
      /\ UNCHANGED <<value, rep, ongoing, event, link, left, unkept>>
  BY DEF Deliver
<1> HIDE DEF m, r
<1>3. /\ server' \in [known : BOOLEAN, obs : [Resources -> BOOLEAN],
                      val : [Resources -> Values]]
      /\ server'.known = server.known /\ server'.obs = server.obs
      /\ server'.val[r] = m.val
      /\ \A q \in Resources : q # r => server'.val[q] = server.val[q]
  BY <1>1, <1>2, Types
<1>4. /\ DOMAIN flight' = DOMAIN flight
      /\ \A k \in DOMAIN flight :
           LET p == flight[k]
               n == flight'[k]
           IN /\ n \in Notifications /\ n.r = p.r /\ n.val = p.val /\ n.old = p.old
              /\ n.newest = p.newest /\ n.resent = p.resent
              /\ n.got = IF k <= i /\ p.r = r THEN TRUE ELSE p.got
  BY <1>1, <1>2 DEF Notifications
<1>5. flight' \in Seq(Notifications)
  <2>1. flight' = [k \in DOMAIN flight |-> flight'[k]]
    BY <1>2
  <2> QED BY <1>4, <2>1, MarkedFlight DEF IInv
<1>6. Waiting(flight') = Waiting(flight)
  BY <1>4 DEF Waiting
<1>7. Resending' <= QueueMsgs
  <2>1. Cardinality(Waiting(flight')) <= Cardinality(Waiting(flight))
    BY <1>5, <1>6, WaitingShrinks DEF IInv
  <2> QED BY <1>2, <1>5, <2>1, ResendingBound
<1>8. TypeOK'
  BY <1>2, <1>3, <1>7, Types DEF TypeOK
<1>9. LinkInv' /\ ClientInv' /\ HandlerInv'
  BY <1>2, <1>3 DEF IInv, LinkInv, ClientInv, HandlerInv
<1>10. FlightInv'
  <2> SUFFICES ASSUME NEW j \in DOMAIN flight
               PROVE  LET n == flight'[j]
                      IN /\ ~n.old => server.obs[n.r] \/ ~server.known
                         /\ \A k \in DOMAIN flight :
                              flight'[k].r = n.r /\ k < j =>
                                ~flight'[k].newest /\ (n.got => flight'[k].got)
                         /\ n.newest /\ ~n.old /\ n.got => server'.val[n.r] = n.val
                         /\ n.newest /\ ~n.old /\ rep[n.r].observed
                            /\ rep[n.r].inProgress /\ ~rep[n.r].inQueue
                            => n.val = value[n.r]
    BY <1>2, <1>3, <1>4 DEF FlightInv
  <2> DEFINE p == flight[j]
             n == flight'[j]
  <2>1. /\ ~p.old => server.obs[p.r] \/ ~server.known
        /\ \A k \in DOMAIN flight :
             flight[k].r = p.r /\ k < j => ~flight[k].newest /\ (p.got => flight[k].got)
        /\ p.newest /\ ~p.old /\ p.got => server.val[p.r] = p.val
        /\ p.newest /\ ~p.old /\ rep[p.r].observed /\ rep[p.r].inProgress
           /\ ~rep[p.r].inQueue => p.val = value[p.r]
    BY DEF IInv, FlightInv
  <2>2. /\ n.r = p.r /\ n.val = p.val /\ n.old = p.old /\ n.newest = p.newest
        /\ n.got = IF j <= i /\ p.r = r THEN TRUE ELSE p.got
        /\ p.r \in Resources
    BY <1>1, <1>4
  <2>3. \A k \in DOMAIN flight : flight[k].r = r /\ k < i => ~flight[k].newest
    BY DEF IInv, FlightInv, m, r
  <2>4. \A k \in DOMAIN flight :
          flight'[k].r = n.r /\ k < j => ~flight'[k].newest /\ (n.got => flight'[k].got)
    <3> SUFFICES ASSUME NEW k \in DOMAIN flight, flight'[k].r = n.r, k < j
                 PROVE  ~flight'[k].newest /\ (n.got => flight'[k].got)
      OBVIOUS
    <3>1. /\ flight[k].r = p.r /\ ~flight[k].newest /\ (p.got => flight[k].got)
          /\ ~flight'[k].newest
          /\ flight'[k].got = IF k <= i /\ flight[k].r = r THEN TRUE ELSE flight[k].got
      BY <1>4, <2>1, <2>2
    <3> QED BY <1>1, <2>2, <3>1
  <2>5. n.newest /\ ~n.old /\ n.got => server'.val[n.r] = n.val
    <3> SUFFICES ASSUME p.newest, ~p.old, n.got
                 PROVE  server'.val[p.r] = p.val
      BY <2>2
    <3>1. CASE p.r # r
      BY <1>3, <2>1, <2>2, <3>1
    <3>2. CASE p.r = r /\ j = i
      BY <1>3, <3>2 DEF m
    <3>3. CASE p.r = r /\ j # i
      <4>1. j > i
        BY <1>1, <2>3, <3>3
      <4>2. p.got
        <5>1. ~(j <= i)
          BY <1>1, <4>1
        <5>2. n.got = p.got
          BY <2>2, <5>1
        <5> QED BY <5>2
      <4>3. m.got
        BY <1>1, <2>1, <3>3, <4>1, <4>2 DEF m, r
      <4> QED BY <1>2, <4>3
    <3> QED BY <3>1, <3>2, <3>3
  <2> QED BY <2>1, <2>2, <2>4, <2>5
<1>11. ObservationsAgree'
  BY <1>2, <1>3 DEF IInv, ObservationsAgree, Registering
<1>12. NothingForgotten'
  <2> SUFFICES ASSUME NEW q \in Resources \ unkept, server.obs[q], ~Registering,
                      server'.val[q] # value[q]
               PROVE  rep[q].observed /\ (rep[q].inQueue \/ rep[q].inProgress)
    BY <1>2, <1>3 DEF NothingForgotten, Registering, Synced
  <2>1. CASE ~Synced(q)
    BY <2>1 DEF IInv, NothingForgotten
  <2>2. CASE Synced(q)
    <3>1. q = r /\ m.val # value[r]
      BY <1>3, <2>2 DEF Synced
    <3>2. rep[r].observed
      BY <3>1 DEF IInv, ObservationsAgree
    <3> QED BY <1>2, <3>1, <3>2 DEF IInv, PendingInv, m, r
  <2> QED BY <2>1, <2>2
<1>13. PendingInv'
  BY <1>2, <1>4 DEF IInv, PendingInv
<1> QED BY <1>2, <1>5, <1>8, <1>9, <1>10, <1>11, <1>12, <1>13 DEF IInv

-----------------------------------------------------------------------------
(***************************************************************************)
(* The registration and the observations                                   *)
(***************************************************************************)

\* Notifications in flight are marked, each as old or as no longer resent.
Marked(m, n) ==
    /\ n \in Notifications
    /\ n.r = m.r /\ n.val = m.val /\ n.got = m.got /\ n.newest = m.newest
    /\ (m.old => n.old) /\ (n.resent => m.resent)

\* Marking them keeps the invariants of what is in flight, when what is not
\* old is still observed and nothing but old ones is of a changed resource.
LEMMA MarkStep ==
  ASSUME IInv, flight' = [i \in DOMAIN flight |-> flight'[i]],
         \A i \in DOMAIN flight : Marked(flight[i], flight'[i]),
         \A i \in DOMAIN flight : LET q == flight[i].r IN ~flight'[i].old =>
           /\ server'.obs[q] \/ ~server'.known
           /\ server'.val[q] = server.val[q] /\ value'[q] = value[q]
           /\ rep'[q].observed => rep'[q] = rep[q] /\ (q \in unkept => q \in unkept')
  PROVE  /\ flight' \in Seq(Notifications) /\ FlightInv' /\ PendingInv'
         /\ Len(flight') = Len(flight)
         /\ Waiting(flight') \subseteq Waiting(flight)
         /\ Cardinality(Waiting(flight')) <= Cardinality(Waiting(flight))
<1>1. DOMAIN flight' = DOMAIN flight
  OBVIOUS
<1>2. flight' \in Seq(Notifications) /\ Len(flight') = Len(flight)
  BY <1>1, MarkedFlight DEF IInv, Marked
<1>3. Waiting(flight') \subseteq Waiting(flight)
  BY <1>1 DEF Waiting, Marked
<1>4. Cardinality(Waiting(flight')) <= Cardinality(Waiting(flight))
  BY <1>2, <1>3, WaitingShrinks DEF IInv
<1>5. FlightInv'
  <2> SUFFICES ASSUME NEW i \in DOMAIN flight
               PROVE  LET m == flight'[i]
                      IN /\ ~m.old => server'.obs[m.r] \/ ~server'.known
                         /\ \A k \in DOMAIN flight :
                              flight'[k].r = m.r /\ k < i =>
                                ~flight'[k].newest /\ (m.got => flight'[k].got)
                         /\ m.newest /\ ~m.old /\ m.got => server'.val[m.r] = m.val
                         /\ m.newest /\ ~m.old /\ rep'[m.r].observed
                            /\ rep'[m.r].inProgress /\ ~rep'[m.r].inQueue
                            => m.val = value'[m.r]
    BY <1>1 DEF FlightInv
  <2> DEFINE m == flight[i]
             n == flight'[i]
  <2>1. /\ ~m.old => server.obs[m.r] \/ ~server.known
        /\ \A k \in DOMAIN flight :
             flight[k].r = m.r /\ k < i => ~flight[k].newest /\ (m.got => flight[k].got)
        /\ m.newest /\ ~m.old /\ m.got => server.val[m.r] = m.val
        /\ m.newest /\ ~m.old /\ rep[m.r].observed /\ rep[m.r].inProgress
           /\ ~rep[m.r].inQueue => m.val = value[m.r]
    BY DEF IInv, FlightInv
  <2>2. /\ n.r = m.r /\ n.val = m.val /\ n.got = m.got /\ n.newest = m.newest
        /\ m.old => n.old
    BY DEF Marked
  <2>3. \A k \in DOMAIN flight :
          flight'[k].r = n.r /\ k < i => ~flight'[k].newest /\ (n.got => flight'[k].got)
    BY <2>1, <2>2 DEF Marked
  <2>4. ~n.old => /\ server'.obs[m.r] \/ ~server'.known
                  /\ server'.val[m.r] = server.val[m.r] /\ value'[m.r] = value[m.r]
                  /\ rep'[m.r].observed => rep'[m.r] = rep[m.r]
    OBVIOUS
  <2> HIDE DEF m, n
  <2>5. /\ ~n.old => server'.obs[n.r] \/ ~server'.known
        /\ n.newest /\ ~n.old /\ n.got => server'.val[n.r] = n.val
        /\ n.newest /\ ~n.old /\ rep'[n.r].observed
           /\ rep'[n.r].inProgress /\ ~rep'[n.r].inQueue => n.val = value'[n.r]
    BY <2>1, <2>2, <2>4
  <2> QED BY <2>3, <2>5 DEF n
<1>6. PendingInv'
  <2> SUFFICES ASSUME NEW i \in DOMAIN flight, ~flight'[i].got, ~flight'[i].old,
                      flight'[i].r \notin unkept', rep'[flight'[i].r].observed
               PROVE  LET q == flight'[i].r
                      IN rep'[q].inQueue \/ rep'[q].inProgress \/ flight'[i].val = value'[q]
    BY <1>1 DEF PendingInv
  <2>1. /\ flight'[i].r = flight[i].r /\ flight'[i].val = flight[i].val
        /\ ~flight[i].got /\ ~flight[i].old
    BY DEF Marked
  <2>2. LET q == flight[i].r
        IN rep'[q] = rep[q] /\ value'[q] = value[q] /\ q \notin unkept
    BY <2>1
  <2> QED BY <2>1, <2>2 DEF IInv, PendingInv
<1> QED BY <1>2, <1>3, <1>4, <1>5, <1>6

\* The three ways of marking.
LEMMA Markings ==
  ASSUME IInv
  PROVE  /\ \A i \in DOMAIN flight :
              /\ Marked(flight[i], flight[i])
              /\ Marked(flight[i], QueueCleared[i]) /\ ~QueueCleared[i].resent
              /\ QueueCleared[i].old = flight[i].old
              /\ Marked(flight[i], ObservationsGone[i]) /\ ObservationsGone[i].old
              /\ Marked(flight[i], [flight[i] EXCEPT !.old = TRUE])
              /\ [flight[i] EXCEPT !.old = TRUE].old
         /\ flight = [i \in DOMAIN flight |-> flight[i]]
         /\ QueueCleared = [i \in DOMAIN flight |-> QueueCleared[i]]
         /\ ObservationsGone = [i \in DOMAIN flight |-> ObservationsGone[i]]
<1>1. \A m \in Notifications :
        /\ Marked(m, m)
        /\ Marked(m, [m EXCEPT !.resent = FALSE]) /\ ~[m EXCEPT !.resent = FALSE].resent
        /\ [m EXCEPT !.resent = FALSE].old = m.old
        /\ Marked(m, [m EXCEPT !.old = TRUE]) /\ [m EXCEPT !.old = TRUE].old
  BY DEF Marked, Notifications
<1>2. \A i \in DOMAIN flight : flight[i] \in Notifications
  BY FlightShape DEF IInv
<1>3. flight = [i \in DOMAIN flight |-> flight[i]]
  BY FlightShape DEF IInv
<1> QED BY <1>1, <1>2, <1>3 DEF QueueCleared, ObservationsGone

\* An empty resending queue has room for a registration message.
LEMMA ResendingCleared ==
  ASSUME flight' \in Seq(Notifications), \A i \in DOMAIN flight' : ~flight'[i].resent
  PROVE  Resending' <= QueueMsgs
<1>1. Waiting(flight') = {}
  BY DEF Waiting
<1>2. Cardinality(Waiting(flight')) = 0
  BY <1>1, FS_EmptySet
<1> DEFINE b == IF link'.reg \in {"update", "register"} THEN 1 ELSE 0
<1>3. Resending' = Cardinality(Waiting(flight')) + b
  BY DEF Resending, Waiting
<1>4. QueueMsgs \in Nat \ {0}
  BY NotifyAssumption
<1> QED BY <1>2, <1>3, <1>4

\* send_update_registration: the message finds room in the resending queue.
LEMMA SendUpdateStep ==
  ASSUME IInv, NEW flag \in BOOLEAN, link.reg \in {"idle", "down"}, ~link.full,
         SendUpdate(flag), UNCHANGED <<value, rep, ongoing, event, server, left, unkept>>
  PROVE  IInv'
<1>1. /\ link' = [link EXCEPT !.reg = "update", !.online = flag]
      /\ flight' = IF Resending < QueueMsgs THEN flight ELSE QueueCleared
  BY DEF SendUpdate
<1>2. /\ link'.reg = "update" /\ link'.full = link.full
      /\ link' \in [online : BOOLEAN, reg : {"idle", "update", "register", "down"},
                    full : BOOLEAN]
  BY <1>1, Types
<1>3. /\ flight' = [i \in DOMAIN flight |-> flight'[i]]
      /\ \A i \in DOMAIN flight :
           Marked(flight[i], flight'[i]) /\ flight'[i].old = flight[i].old
  BY <1>1, Markings
<1>4. \A i \in DOMAIN flight : ~flight[i].old => server.obs[flight[i].r] \/ ~server.known
  BY DEF IInv, FlightInv
<1>5. /\ flight' \in Seq(Notifications) /\ FlightInv' /\ PendingInv'
      /\ Len(flight') = Len(flight)
  BY <1>3, <1>4, MarkStep
<1>6. Resending' <= QueueMsgs
  <2>1. CASE Resending < QueueMsgs
    <3>1. Resending' = Cardinality(Waiting(flight)) + 1 /\ Resending = Cardinality(Waiting(flight)) + 0
      BY <1>1, <1>2, <2>1 DEF Resending, Waiting
    <3>2. Cardinality(Waiting(flight)) \in Nat /\ QueueMsgs \in Nat
      BY WaitingFinite, NotifyAssumption DEF IInv
    <3> QED BY <2>1, <3>1, <3>2
  <2>2. CASE ~(Resending < QueueMsgs)
    <3>1. \A i \in DOMAIN flight' : ~flight'[i].resent
      BY <1>1, <2>2, Markings
    <3> QED BY <1>5, <3>1, ResendingCleared
  <2> QED BY <2>1, <2>2
<1>7. TypeOK'
  BY <1>2, <1>6, Types DEF TypeOK
<1>8. LinkInv' /\ ClientInv' /\ HandlerInv'
  BY <1>2 DEF IInv, LinkInv, ClientInv, HandlerInv
<1>9. ObservationsAgree' /\ NothingForgotten'
  BY <1>2 DEF IInv, ObservationsAgree, NothingForgotten, Registering, Synced
<1> QED BY <1>5, <1>7, <1>8, <1>9 DEF IInv

\* Before a full registration the observations are cancelled.
LEMMA SendRegisterStep ==
  ASSUME IInv, NEW flag \in BOOLEAN, link.full \/ ~server.known,
         SendRegister(flag), UNCHANGED <<value, event, server, left, unkept>>
  PROVE  IInv'
<1>1. /\ rep' = [r \in Resources |-> Cancelled(rep[r])] /\ ongoing' = FALSE
      /\ link' = [link EXCEPT !.reg = "register", !.online = flag]
      /\ flight' = QueueCleared
  BY DEF SendRegister
<1>2. /\ link'.reg = "register" /\ link'.full = link.full
      /\ link' \in [online : BOOLEAN, reg : {"idle", "update", "register", "down"},
                    full : BOOLEAN]
  BY <1>1, Types
<1>3. /\ rep' \in [Resources -> Handlers]
      /\ \A r \in Resources :
           /\ ~rep'[r].observed /\ ~rep'[r].inQueue /\ ~rep'[r].inProgress
           /\ ~rep'[r].pmin /\ ~rep'[r].timer /\ ~rep'[r].valid
  BY <1>1, Types, CancelledFacts
<1>4. /\ flight' = [i \in DOMAIN flight |-> flight'[i]]
      /\ \A i \in DOMAIN flight : /\ Marked(flight[i], flight'[i])
                                  /\ ~flight'[i].resent
                                  /\ flight'[i].old = flight[i].old
      /\ DOMAIN flight' = DOMAIN flight
  BY <1>1, Markings
<1>5. \A i \in DOMAIN flight :
        /\ ~flight[i].old => server.obs[flight[i].r] \/ ~server.known
        /\ flight[i].r \in Resources
  BY FlightShape DEF IInv, FlightInv
<1>6. flight' \in Seq(Notifications) /\ FlightInv' /\ PendingInv'
  BY <1>3, <1>4, <1>5, MarkStep
<1>7. Resending' <= QueueMsgs
  BY <1>4, <1>6, ResendingCleared
<1>8. TypeOK'
  BY <1>1, <1>2, <1>3, <1>7, Types DEF TypeOK
<1>9. LinkInv' /\ ClientInv' /\ HandlerInv'
  BY <1>2, <1>3 DEF IInv, LinkInv, ClientInv, HandlerInv
<1>10. ObservationsAgree' /\ NothingForgotten'
  BY <1>2 DEF ObservationsAgree, NothingForgotten, Registering
<1> QED BY <1>6, <1>8, <1>9, <1>10 DEF IInv

\* The registration timer keeps the invariant.
LEMMA UpdateRegistrationStep ==
  ASSUME IInv, UpdateRegistration
  PROVE  IInv'
<1>1. ~link.full
  BY Types DEF IInv, LinkInv, UpdateRegistration
<1> QED BY <1>1, SendUpdateStep DEF UpdateRegistration

\* A refused update keeps the invariant.
LEMMA UpdateRefusedStep ==
  ASSUME IInv, UpdateRefused
  PROVE  IInv'
BY Types, SendRegisterStep DEF UpdateRefused

\* Reconnecting keeps the invariant.
LEMMA ReconnectStep ==
  ASSUME IInv, Reconnect
  PROVE  IInv'
<1>1. CASE link.full
  BY <1>1, SendRegisterStep DEF Reconnect
<1>2. CASE ~link.full
  BY <1>2, SendUpdateStep DEF Reconnect
<1> QED BY <1>1, <1>2

\* An update that is answered keeps the invariant.
LEMMA UpdateAnsweredStep ==
  ASSUME IInv, UpdateAnswered
  PROVE  IInv'
<1>1. /\ link.reg = "update" /\ server.known
      /\ link' = [online |-> TRUE, reg |-> "idle", full |-> FALSE]
      /\ ongoing' = FALSE /\ event' = TRUE
      /\ UNCHANGED <<value, rep, flight, server, left, unkept>>
  BY DEF UpdateAnswered
<1>2. link'.reg = "idle" /\ link'.full = FALSE /\ ~link.full
  BY <1>1, Types DEF IInv, LinkInv
<1>3. Resending' <= QueueMsgs
  <2>1. Cardinality(Waiting(flight')) <= Cardinality(Waiting(flight))
    BY <1>1, WaitingFinite DEF IInv
  <2> QED BY <1>1, <1>2, <2>1, ResendingBound DEF IInv
<1>4. TypeOK'
  BY <1>1, <1>3, Types DEF TypeOK
<1>5. LinkInv' /\ ClientInv' /\ HandlerInv'
  BY <1>1, <1>2 DEF IInv, LinkInv, ClientInv, HandlerInv
<1>6. FlightInv' /\ PendingInv'
  BY <1>1 DEF IInv, FlightInv, PendingInv
<1>7. ObservationsAgree' /\ NothingForgotten'
  BY <1>1, <1>2 DEF IInv, ObservationsAgree, NothingForgotten, Registering, Synced
<1> QED BY <1>1, <1>4, <1>5, <1>6, <1>7 DEF IInv

\* A registration that is answered keeps the invariant.
LEMMA RegisterAnsweredStep ==
  ASSUME IInv, RegisterAnswered
  PROVE  IInv'
<1>1. /\ link.reg = "register"
      /\ link' = [online |-> TRUE, reg |-> "idle", full |-> FALSE]
      /\ ongoing' = FALSE /\ event' = TRUE
      /\ server' = [server EXCEPT !.known = TRUE, !.obs = [r \in Resources |-> FALSE]]
      /\ flight' = ObservationsGone /\ unkept' = {}
      /\ UNCHANGED <<value, rep, left>>
  BY DEF RegisterAnswered
<1>2. link'.reg = "idle" /\ link'.full = FALSE
  BY <1>1
<1>3. /\ server' \in [known : BOOLEAN, obs : [Resources -> BOOLEAN],
                      val : [Resources -> Values]]
      /\ server'.known = TRUE /\ \A r \in Resources : server'.obs[r] = FALSE
  BY <1>1, Types
<1>4. /\ flight' = [i \in DOMAIN flight |-> flight'[i]]
      /\ \A i \in DOMAIN flight : Marked(flight[i], flight'[i]) /\ flight'[i].old
  BY <1>1, Markings
<1>5. /\ flight' \in Seq(Notifications) /\ FlightInv' /\ PendingInv'
      /\ Cardinality(Waiting(flight')) <= Cardinality(Waiting(flight))
  BY <1>4, MarkStep
<1>6. Resending' <= QueueMsgs
  BY <1>2, <1>5, ResendingBound
<1>7. TypeOK'
  BY <1>1, <1>3, <1>6, Types DEF TypeOK
<1>8. LinkInv' /\ ClientInv' /\ HandlerInv'
  BY <1>1, <1>2, <1>3 DEF IInv, LinkInv, ClientInv, HandlerInv
<1>9. ObservationsAgree' /\ NothingForgotten'
  BY <1>3 DEF ObservationsAgree, NothingForgotten
<1> QED BY <1>1, <1>5, <1>7, <1>8, <1>9 DEF IInv

\* Nothing in flight changes when the client goes down.
LEMMA DownUnchanged ==
  ASSUME IInv, UNCHANGED <<value, rep, ongoing, event, flight, server, unkept>>
  PROVE  /\ flight' \in Seq(Notifications) /\ FlightInv' /\ PendingInv'
         /\ Cardinality(Waiting(flight')) <= Cardinality(Waiting(flight))
BY WaitingFinite DEF IInv, FlightInv, PendingInv

\* A registration message without an answer keeps the invariant.
LEMMA RegistrationFailsStep ==
  ASSUME IInv, RegistrationFails
  PROVE  IInv'
<1>1. /\ left.faults > 0 /\ left' = [left EXCEPT !.faults = @ - 1]
      /\ link.reg \in {"update", "register"}
      /\ UNCHANGED <<value, rep, ongoing, event, flight, server, unkept>>
  BY DEF RegistrationFails, Fault
<1>2. PICK full \in BOOLEAN :
        /\ link' = [online |-> FALSE, reg |-> "down", full |-> link.full \/ full]
        /\ link.reg = "register" => full
  BY <1>1 DEF RegistrationFails, RegistrationError
<1>3. link.full \in BOOLEAN
  BY Types
<1>4. /\ flight' \in Seq(Notifications) /\ FlightInv' /\ PendingInv'
      /\ Cardinality(Waiting(flight')) <= Cardinality(Waiting(flight))
  BY <1>1, DownUnchanged
<1> QED BY <1>1, <1>2, <1>3, <1>4, LeftType, DownStep

\* A socket error keeps the invariant.
LEMMA SocketErrorStep ==
  ASSUME IInv, SocketError
  PROVE  IInv'
<1>1. /\ left.faults > 0 /\ left' = [left EXCEPT !.faults = @ - 1]
      /\ link' = [link EXCEPT !.online = FALSE, !.reg = "down"]
      /\ UNCHANGED <<value, rep, ongoing, event, flight, server, unkept>>
  BY DEF SocketError, Fault
<1>2. link' \in [online : {FALSE}, reg : {"down"}, full : BOOLEAN] /\ link'.full = link.full
  BY <1>1, Types
<1>3. link.reg = "register" /\ server.known => link.full
  BY DEF IInv, LinkInv
<1>4. /\ flight' \in Seq(Notifications) /\ FlightInv' /\ PendingInv'
      /\ Cardinality(Waiting(flight')) <= Cardinality(Waiting(flight))
  BY <1>1, DownUnchanged
<1> QED BY <1>1, <1>2, <1>3, <1>4, LeftType, DownStep

\* The end of the registration at the service keeps the invariant.
LEMMA ServiceForgetsStep ==
  ASSUME IInv, ServiceForgets
  PROVE  IInv'
<1>1. /\ left.faults > 0 /\ left' = [left EXCEPT !.faults = @ - 1]
      /\ server' = [server EXCEPT !.known = FALSE, !.obs = [r \in Resources |-> FALSE]]
      /\ flight' = ObservationsGone
      /\ UNCHANGED <<value, rep, ongoing, event, link, unkept>>
  BY DEF ServiceForgets, Fault
<1>2. /\ server' \in [known : BOOLEAN, obs : [Resources -> BOOLEAN],
                      val : [Resources -> Values]]
      /\ server'.known = FALSE /\ \A r \in Resources : server'.obs[r] = FALSE
  BY <1>1, Types
<1>3. /\ flight' = [i \in DOMAIN flight |-> flight'[i]]
      /\ \A i \in DOMAIN flight : Marked(flight[i], flight'[i]) /\ flight'[i].old
  BY <1>1, Markings
<1>4. /\ flight' \in Seq(Notifications) /\ FlightInv' /\ PendingInv'
      /\ Cardinality(Waiting(flight')) <= Cardinality(Waiting(flight))
  BY <1>3, MarkStep
<1>5. Resending' <= QueueMsgs
  BY <1>1, <1>4, ResendingBound
<1>6. TypeOK'
  BY <1>1, <1>2, <1>5, Types DEF TypeOK
<1>7. LinkInv' /\ ClientInv' /\ HandlerInv'
  BY <1>1, <1>2 DEF IInv, LinkInv, ClientInv, HandlerInv
<1>8. ObservationsAgree' /\ NothingForgotten'
  BY <1>2 DEF ObservationsAgree, NothingForgotten
<1> QED BY <1>1, <1>4, <1>6, <1>7, <1>8, LeftType DEF IInv

\* A new observation keeps the invariant.
LEMMA ObserveStep ==
  ASSUME IInv, NEW r \in Resources, Observe(r)
  PROVE  IInv'
<1> DEFINE g == Subscribed(rep[r])
<1>1. /\ link.reg # "register" /\ server.known /\ ~server.obs[r]
      /\ rep' = [rep EXCEPT ![r] = g]
      /\ server' = [server EXCEPT !.obs[r] = TRUE, !.val[r] = value[r]]
      /\ event' = TRUE
      /\ UNCHANGED <<value, ongoing, link, flight, left, unkept>>
  BY DEF Observe
<1>2. /\ g \in Handlers /\ g.observed /\ g.inQueue = rep[r].inQueue
      /\ g.inProgress = rep[r].inProgress /\ g.pmin = rep[r].pmin
      /\ g.valid = rep[r].valid /\ g.current = rep[r].current /\ g.last = rep[r].last
      /\ g.timer => g.pmin
  BY HandlerOf, SubscribedFacts
<1> HIDE DEF g
<1>3. /\ rep' \in [Resources -> Handlers] /\ rep'[r] = g
      /\ \A q \in Resources : q # r => rep'[q] = rep[q]
  BY <1>1, <1>2, Types
<1>4. /\ server' \in [known : BOOLEAN, obs : [Resources -> BOOLEAN],
                      val : [Resources -> Values]]
      /\ server'.known = server.known /\ server'.obs[r] = TRUE /\ server'.val[r] = value[r]
      /\ \A q \in Resources : q # r => /\ server'.obs[q] = server.obs[q]
                                       /\ server'.val[q] = server.val[q]
  BY <1>1, Types
<1>5. ~rep[r].observed
  BY <1>1 DEF IInv, ClientInv
<1>6. /\ flight' = [i \in DOMAIN flight |-> flight'[i]]
      /\ \A i \in DOMAIN flight :
           /\ Marked(flight[i], flight'[i]) /\ flight[i].r \in Resources
           /\ ~flight[i].old => server.obs[flight[i].r] \/ ~server.known
  BY <1>1, Markings, FlightShape DEF IInv, FlightInv
<1>7. /\ flight' \in Seq(Notifications) /\ FlightInv' /\ PendingInv'
      /\ Cardinality(Waiting(flight')) <= Cardinality(Waiting(flight))
  <2>1. \A i \in DOMAIN flight : ~flight[i].old => flight[i].r # r
    BY <1>1, <1>6
  <2> QED BY <1>1, <1>3, <1>4, <1>6, <2>1, MarkStep
<1>8. Resending' <= QueueMsgs
  BY <1>1, <1>7, ResendingBound
<1>9. TypeOK'
  BY <1>1, <1>3, <1>4, <1>8, Types DEF TypeOK
<1>10. LinkInv' /\ ClientInv'
  BY <1>1, <1>3, <1>4 DEF IInv, LinkInv, ClientInv
<1>11. HandlerInv'
  BY <1>1, <1>2, <1>3, <1>5 DEF IInv, HandlerInv
<1>12. ObservationsAgree'
  BY <1>1, <1>2, <1>3, <1>4 DEF IInv, ObservationsAgree, Registering
<1>13. NothingForgotten'
  BY <1>1, <1>2, <1>3, <1>4 DEF IInv, NothingForgotten, Registering, Synced
<1> QED BY <1>1, <1>7, <1>9, <1>10, <1>11, <1>12, <1>13 DEF IInv

\* The end of an observation keeps the invariant.
LEMMA UnobserveStep ==
  ASSUME IInv, NEW r \in Resources, Unobserve(r)
  PROVE  IInv'
<1> DEFINE g == Cancelled(rep[r])
<1>1. /\ left.faults > 0 /\ left' = [left EXCEPT !.faults = @ - 1]
      /\ rep' = [rep EXCEPT ![r] = g]
      /\ server' = [server EXCEPT !.obs[r] = FALSE]
      /\ flight' = [i \in DOMAIN flight |->
                      IF flight[i].r = r THEN [flight[i] EXCEPT !.old = TRUE] ELSE flight[i]]
      /\ unkept' = unkept \ {r}
      /\ UNCHANGED <<value, ongoing, event, link>>
  BY DEF Unobserve, Fault
<1>2. /\ g \in Handlers /\ ~g.observed /\ ~g.inQueue /\ ~g.inProgress
      /\ ~g.pmin /\ ~g.timer /\ ~g.valid
  BY HandlerOf, CancelledFacts
<1> HIDE DEF g
<1>3. /\ rep' \in [Resources -> Handlers] /\ rep'[r] = g
      /\ \A q \in Resources : q # r => rep'[q] = rep[q]
  BY <1>1, <1>2, Types
<1>4. /\ server' \in [known : BOOLEAN, obs : [Resources -> BOOLEAN],
                      val : [Resources -> Values]]
      /\ server'.known = server.known /\ server'.obs[r] = FALSE
      /\ server'.val = server.val
      /\ \A q \in Resources : q # r => server'.obs[q] = server.obs[q]
  BY <1>1, Types
<1>5. /\ flight' = [i \in DOMAIN flight |-> flight'[i]]
      /\ \A i \in DOMAIN flight :
           /\ Marked(flight[i], flight'[i]) /\ flight[i].r \in Resources
           /\ flight[i].r = r => flight'[i].old
           /\ flight[i].r # r => flight'[i] = flight[i]
           /\ ~flight[i].old => server.obs[flight[i].r] \/ ~server.known
  BY <1>1, Markings, FlightShape DEF IInv, FlightInv
<1>6. /\ flight' \in Seq(Notifications) /\ FlightInv' /\ PendingInv'
      /\ Cardinality(Waiting(flight')) <= Cardinality(Waiting(flight))
  BY <1>1, <1>3, <1>4, <1>5, MarkStep
<1>7. Resending' <= QueueMsgs
  BY <1>1, <1>6, ResendingBound
<1>8. TypeOK'
  BY <1>1, <1>3, <1>4, <1>7, Types DEF TypeOK
<1>9. LinkInv' /\ ClientInv'
  BY <1>1, <1>2, <1>3, <1>4 DEF IInv, LinkInv, ClientInv
<1>10. HandlerInv'
  BY <1>1, <1>2, <1>3 DEF IInv, HandlerInv
<1>11. ObservationsAgree'
  BY <1>1, <1>3, <1>4 DEF IInv, ObservationsAgree, Registering
<1>12. NothingForgotten'
  BY <1>1, <1>3, <1>4 DEF IInv, NothingForgotten, Registering, Synced
<1> QED BY <1>1, <1>6, <1>8, <1>9, <1>10, <1>11, <1>12, LeftType DEF IInv

-----------------------------------------------------------------------------
(***************************************************************************)
(* Theorems                                                                *)
(***************************************************************************)

\* The initial states satisfy the invariant.
LEMMA InitHolds == Init => IInv
<1> SUFFICES ASSUME Init PROVE IInv
  OBVIOUS
<1>1. NewHandler \in Handlers
  BY NotifyAssumption DEF NewHandler, Handlers
<1>2. /\ value = [r \in Resources |-> 0] /\ rep = [r \in Resources |-> NewHandler]
      /\ link.online = TRUE /\ link.reg = "idle" /\ link.full = FALSE
      /\ flight = <<>> /\ unkept = {} /\ ongoing = FALSE /\ event = FALSE
      /\ server.known = TRUE /\ server.val = value
      /\ server.obs = [r \in Resources |-> TRUE]
      /\ server \in [known : BOOLEAN, obs : [Resources -> BOOLEAN],
                     val : [Resources -> Values]]
      /\ left \in [sets : Nat, faults : Nat, attrs : Nat]
      /\ link \in [online : BOOLEAN, reg : {"idle", "update", "register", "down"},
                   full : BOOLEAN]
  BY NotifyAssumption DEF Init
<1>3. flight \in Seq(Notifications) /\ DOMAIN flight = {}
  BY <1>2
<1>4. Resending <= QueueMsgs
  <2>1. {i \in DOMAIN flight : flight[i].resent} = {}
    BY <1>3
  <2>2. Resending = 0
    BY <1>2, <2>1, FS_EmptySet DEF Resending
  <2> QED BY <2>2, NotifyAssumption
<1>5. TypeOK
  BY <1>1, <1>2, <1>4, NotifyAssumption DEF TypeOK
<1>6. LinkInv /\ ClientInv
  BY <1>2 DEF LinkInv, ClientInv
<1>7. HandlerInv
  BY <1>2 DEF HandlerInv, NewHandler
<1>8. FlightInv /\ PendingInv
  BY <1>3 DEF FlightInv, PendingInv
<1>9. ObservationsAgree /\ NothingForgotten
  BY <1>2 DEF ObservationsAgree, NothingForgotten, Synced, NewHandler
<1> QED BY <1>2, <1>3, <1>5, <1>6, <1>7, <1>8, <1>9 DEF IInv

\* Every step keeps the invariant.
LEMMA NextHolds == IInv /\ [Next]_vars => IInv'
<1> SUFFICES ASSUME IInv, [Next]_vars PROVE IInv'
  OBVIOUS
<1>1. CASE UNCHANGED vars
  BY <1>1 DEF vars, IInv, TypeOK, Resending, LinkInv, ClientInv, HandlerInv, FlightInv,
              PendingInv, ObservationsAgree, NothingForgotten, Registering, Synced
<1>2. CASE Next
  BY <1>2, SetValueStep, PminExpiresStep, SendNextStep, DeliverStep, AckedStep, ResetStep,
     LostStep, SendingFailsStep, UpdateRegistrationStep, UpdateAnsweredStep,
     UpdateRefusedStep, RegisterAnsweredStep, RegistrationFailsStep, SocketErrorStep,
     ReconnectStep, ServiceForgetsStep, ObserveStep, UnobserveStep, WritePminStep DEF Next
<1> QED BY <1>1, <1>2

\* The inductive invariant holds in every state.
THEOREM Inductive == Spec => []IInv
BY InitHolds, NextHolds, PTL DEF Spec

\* The report handlers and the service are well-formed, and the client never
\* has more messages in the resending queue of the CoAP layer than the queue
\* has room for: send_update_registration clears a full queue, and a
\* notification that finds it full is not built.
THEOREM TypeCorrect == Spec => []TypeOK
<1>1. IInv => TypeOK
  BY DEF IInv
<1> QED BY <1>1, Inductive, PTL

\* What the service observes the client holds to be observed, unless a full
\* registration is on its way or a reset of an earlier observation cancelled it.
THEOREM ObservationsSafe == Spec => []ObservationsAgree
<1>1. IInv => ObservationsAgree
  BY DEF IInv
<1> QED BY <1>1, Inductive, PTL

\* A value the service observes and has not received is marked for sending at
\* its report handler: the two flags that choose the next notification are
\* enough, except where the answer of an earlier notification was taken for
\* that of the one under way.
THEOREM ValuesSafe == Spec => []NothingForgotten
<1>1. IInv => NothingForgotten
  BY DEF IInv
<1> QED BY <1>1, Inductive, PTL
=============================================================================
