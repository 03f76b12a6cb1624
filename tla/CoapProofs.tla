------------------------------ MODULE CoapProofs ------------------------------
(***************************************************************************)
(* Machine-checked proofs about module Coap.                               *)
(***************************************************************************)
EXTENDS Coap, FiniteSetTheorems, SequenceTheorems, WellFoundedInduction, TLAPS

-----------------------------------------------------------------------------
(***************************************************************************)
(* The two sides number their messages independently, and an id of one may *)
(* be an id of the other.  The client itself does not use an id twice: a   *)
(* behaviour ends before its counter of 65535 ids has come round (bound    *)
(* Scenarios of module Coap).                                              *)
(***************************************************************************)

\* The ids that get_new_message_id gives out after id m.
Wrap(x) == IF x > IdMax THEN x - IdMax ELSE x
IdsAfter(m, n) == {Wrap(m + i) : i \in 1..n}

-----------------------------------------------------------------------------
(***************************************************************************)
(* The inductive invariant                                                 *)
(***************************************************************************)

\* Ids that are still to be given out, by the client and by the server.
Fresh == IdsAfter(messageId, left.own)
Coming == (srv.last + 1)..SrvTop

\* The ids of the client's own exchanges that may still go on: of messages to be
\* sent again, of messages on their way, and of what answers them.
ResendIds == {resend[k].id : k \in DOMAIN resend}
OwnLive == ResendIds \cup {m.id : m \in {x \in toServer : ~Answering(x)}}
           \cup {m.id : m \in {x \in toClient : Answering(x)}}

\* The ids of the duplicate list.
DupIds == {dups[k].id : k \in DOMAIN dups}

ResendEntry == [id : Ids, kind : OwnKinds, count : 0..ResendCount]
DupEntry == [id : Ids, own : BOOLEAN, answer : AnswerSet \cup {NoAnswer}]
Payload == [blocks : Seq(0..Blocks), last : -1..(Blocks - 1), sized : BOOLEAN]
Allowance == [own : Nat, srv : Nat, upload : BOOLEAN, allocs : Nat]
ServerState == [last : Nat, next : 0..Blocks, blockId : Nat, sized : BOOLEAN,
                reply : [Ids -> {"none", "piggy", "separate", "ack", "reset", "responded"}]]

\* The messages of the server and those of the client.
SrvMsgs == [type : {"CON", "NON", "ACK", "RST"}, id : Ids,
            code : {"req", "empty", "resp", "block"}, arg : 0..(IdMax + Blocks)]
IsSrvMsg(m) ==
    /\ m \in SrvMsgs
    /\ m.code = "resp" => m.arg \in Ids
    /\ m.code = "block" => m.arg < srv.next
    /\ m.type \in {"ACK", "RST"} => m.code \in {"resp", "empty"}
OwnMsgs == [type : {"CON"}, id : Ids, code : OwnKinds, arg : {0}]
           \cup AnswerSet \cup [type : {"RST"}, id : Ids, code : {"empty"}, arg : {0}]

Types ==
    /\ messageId \in 0..IdMax
    /\ resend \in Seq(ResendEntry) /\ Len(resend) <= QueueMsgs
    /\ dups \in Seq(DupEntry) /\ Len(dups) <= DupSize
    /\ copies \in SUBSET Ids
    /\ payload \in Payload
    /\ \A m \in toClient : IsSrvMsg(m)
    /\ toServer \in SUBSET OwnMsgs
    /\ srv \in ServerState
    /\ left \in Allowance
    /\ sends \in [Ids -> 0..(ResendCount + 1)]
    /\ heard \in SUBSET Ids /\ answered \in SUBSET Ids
    /\ failed \in [Ids -> SUBSET {"send", "untold", "block", "refused", "cleared"}]
    /\ accepted \in Seq(SrvMsgs)
    /\ lapses \in SUBSET {"alloc", "timeout", "cleared"}

\* Whatever is in use has been given out by the side that uses it.
IdInv ==
    /\ left.own <= IdMax
    /\ \A id \in OwnLive \cup heard : id \notin Fresh
    /\ \A m \in toClient : ~Answering(m) => m.id \notin Coming
    /\ \A k \in DOMAIN accepted : IF Answering(accepted[k]) THEN accepted[k].id \in heard
                                                           ELSE accepted[k].id \notin Coming

\* One entry for an id; what is kept is not acknowledged and was transmitted
\* once more than it was due.
ListInv ==
    /\ \A j, k \in DOMAIN resend : resend[j].id = resend[k].id => j = k
    /\ \A k \in DOMAIN resend : /\ resend[k].id \notin heard
                                /\ sends[resend[k].id] <= resend[k].count + 1
    /\ \A id \in Fresh : sends[id] = 0
    /\ \A j, k \in DOMAIN dups : dups[j].id = dups[k].id => j = k
    /\ \A k \in DOMAIN dups : dups[k].answer = NoAnswer \/ dups[k].answer.id = dups[k].id

\* The exchange of message m is over: m is not under way, and never will be again.
Dead(m) ==
    /\ m \notin toClient
    /\ IF Answering(m) THEN m.id \notin Fresh /\ m.id \notin ResendIds
                             /\ (\A x \in toServer : x.id = m.id => Answering(x))
                        ELSE m.id \notin Coming

\* The entry e of the duplicate list is that of message m.
EntryOf(e, m) == e.id = m.id /\ e.own = Answering(m)

\* The duplicate list is the end of what was accepted; what was accepted
\* recently and is not in the list any more is over.
DupInv ==
    "alloc" \notin lapses =>
        /\ Len(dups) <= Len(accepted)
        /\ \A k \in DOMAIN dups : EntryOf(dups[k], accepted[Len(accepted) - Len(dups) + k])
        /\ \A j \in DOMAIN accepted :
             j <= Len(accepted) - Len(dups) /\ j > Len(accepted) - DupSize => Dead(accepted[j])

\* The blocks of the upload that were accepted.
IsBlock(m, n) == m.code = "block" /\ m.arg = n
Accepted(n) == \E k \in DOMAIN accepted : IsBlock(accepted[k], n)
Once(n) == \A j, k \in DOMAIN accepted : IsBlock(accepted[j], n) /\ IsBlock(accepted[k], n) => j = k

\* Blocks up to n were acknowledged at most.
Continued(n) ==
    /\ \A m \in toServer : m.type = "ACK" /\ m.code = "continue" => m.arg <= n
    /\ \A k \in DOMAIN dups : dups[k].answer.code = "continue" => dups[k].answer.arg <= n

\* What a payload with blocks 0..n looks like.
Filled(n) == IF srv.sized THEN [k \in 1..Blocks |-> IF k <= n + 1 THEN k ELSE 0]
             ELSE [k \in 1..(n + 1) |-> k]

PayloadUpTo(n) == [blocks |-> Filled(n), last |-> n, sized |-> srv.sized]

\* The upload has not begun, is under way, or has been handed over.
NotBegun == /\ payload = NoPayload /\ uploads = {} /\ srv.next <= 1 /\ Continued(-1)
            /\ ~Accepted(0) /\ ~Accepted(Blocks - 1)
UnderWay == /\ payload = PayloadUpTo(payload.last)
            /\ payload.last \in 0..(Blocks - 2)
            /\ uploads = {} /\ srv.next <= payload.last + 2 /\ Continued(payload.last)
            /\ Accepted(0) /\ ~Accepted(Blocks - 1)
HandedOver == /\ payload = NoPayload /\ uploads = {[k \in 1..Blocks |-> k]}
              /\ Accepted(0) /\ Accepted(Blocks - 1)

UploadInv ==
    lapses = {} /\ Once(0) /\ Once(Blocks - 1) => NotBegun \/ UnderWay \/ HandedOver

IInv == Types /\ IdInv /\ ListInv /\ DupInv /\ UploadInv

-----------------------------------------------------------------------------
(***************************************************************************)
(* Lemmas about ids and lists                                              *)
(***************************************************************************)

\* get_new_message_id gives out the next of the ids to come.
LEMMA FreshStep ==
  ASSUME NEW m \in 0..IdMax, NEW n \in Nat, n > 0, n <= IdMax,
         NEW new, new = IF m = IdMax THEN 1 ELSE m + 1
  PROVE  /\ new \in Ids /\ new \in IdsAfter(m, n)
         /\ IdsAfter(new, n - 1) \subseteq IdsAfter(m, n)
         /\ new \notin IdsAfter(new, n - 1)
<1>1. IdMax \in Nat /\ IdMax > 1
  BY CoapAssumption
<1>2. new = Wrap(m + 1) /\ new \in Ids
  BY <1>1 DEF Wrap, Ids
<1>3. ASSUME NEW i \in 1..(n - 1)
      PROVE  Wrap(new + i) = Wrap(m + (i + 1)) /\ i + 1 \in 1..n /\ Wrap(new + i) # new
  BY <1>1 DEF Wrap
<1>4. 1 \in 1..n
  OBVIOUS
<1> QED BY <1>2, <1>3, <1>4 DEF IdsAfter

\* The ids to come are ids.
LEMMA WrapIds ==
  ASSUME NEW m \in 0..IdMax, NEW n \in Nat, n <= IdMax
  PROVE  IdsAfter(m, n) \subseteq Ids
<1>1. IdMax \in Nat /\ IdMax > 1
  BY CoapAssumption
<1>2. ASSUME NEW i \in 1..n PROVE Wrap(m + i) \in Ids
  BY <1>1 DEF Wrap, Ids
<1> QED BY <1>2 DEF IdsAfter

\* A set of natural numbers that is not empty has a least element.
LEMMA MinIsElement ==
  ASSUME NEW T, T \subseteq Nat, T # {}
  PROVE  Min(T) \in T
<1>1. PICK x \in T : \A y \in T : <<y, x>> \notin OpToRel(<, Nat)
  BY WFMin, NatLessThanWellFounded
<1>2. \A y \in T : ~(y < x)
  BY <1>1 DEF OpToRel
<1>3. \A y \in T : x <= y
  BY <1>2
<1> QED BY <1>3 DEF Min

\* Where the entries of RemoveAt(s, i) come from.
LEMMA RemoveAtEntries ==
  ASSUME NEW S, NEW s \in Seq(S), NEW i \in DOMAIN s
  PROVE  /\ RemoveAt(s, i) \in Seq(S)
         /\ Len(RemoveAt(s, i)) = Len(s) - 1
         /\ DOMAIN RemoveAt(s, i) = 1..(Len(s) - 1)
         /\ \A k \in 1..(Len(s) - 1) :
              RemoveAt(s, i)[k] = s[IF k < i THEN k ELSE k + 1]
<1>1. i \in 1..Len(s) /\ Len(s) \in Nat /\ \A k \in 1..Len(s) : s[k] \in S
  BY LenProperties, ElementOfSeq
<1> DEFINE a == SubSeq(s, 1, i - 1)
           b == SubSeq(s, i + 1, Len(s))
<1>2. /\ a \in Seq(S) /\ Len(a) = i - 1 /\ \A k \in 1..(i - 1) : a[k] = s[k]
  <2>1. \A k \in 1..(i - 1) : s[k] \in S
    BY <1>1
  <2> QED BY <1>1, <2>1, SubSeqProperties
<1>3. /\ b \in Seq(S) /\ Len(b) = Len(s) - i
      /\ \A k \in 1..(Len(s) - i) : b[k] = s[i + k]
  <2>1. \A k \in (i + 1)..Len(s) : s[k] \in S
    BY <1>1
  <2>2. /\ b \in Seq(S)
        /\ Len(b) = IF i + 1 <= Len(s) THEN Len(s) - (i + 1) + 1 ELSE 0
        /\ \A k \in 1..(Len(s) - (i + 1) + 1) : b[k] = s[(i + 1) + k - 1]
    BY <1>1, <2>1, SubSeqProperties
  <2> QED BY <1>1, <2>2
<1>4. /\ a \o b \in Seq(S) /\ Len(a \o b) = Len(a) + Len(b)
      /\ \A k \in 1..(Len(a) + Len(b)) :
           (a \o b)[k] = IF k <= Len(a) THEN a[k] ELSE b[k - Len(a)]
  BY <1>2, <1>3, ConcatProperties
<1> HIDE DEF a, b
<1>5. Len(a \o b) = Len(s) - 1
  BY <1>1, <1>2, <1>3, <1>4
<1>6. \A k \in 1..(Len(s) - 1) : (a \o b)[k] = s[IF k < i THEN k ELSE k + 1]
  <2> SUFFICES ASSUME NEW k \in 1..(Len(s) - 1)
               PROVE  (a \o b)[k] = s[IF k < i THEN k ELSE k + 1]
    OBVIOUS
  <2>1. (a \o b)[k] = IF k <= i - 1 THEN a[k] ELSE b[k - (i - 1)]
    <3>1. k \in 1..(Len(a) + Len(b)) /\ Len(a) = i - 1
      BY <1>1, <1>2, <1>3
    <3> QED BY <1>4, <3>1
  <2>2. CASE k < i
    BY <1>1, <1>2, <2>1, <2>2
  <2>3. CASE ~(k < i)
    <3>1. k - (i - 1) \in 1..(Len(s) - i) /\ i + (k - (i - 1)) = k + 1
      BY <1>1, <2>3
    <3> QED BY <1>1, <1>3, <2>1, <2>3, <3>1
  <2> QED BY <2>2, <2>3
<1>7. DOMAIN (a \o b) = 1..(Len(s) - 1)
  BY <1>4, <1>5, LenProperties
<1> QED BY <1>4, <1>5, <1>6, <1>7 DEF RemoveAt, a, b

\* A list that another one becomes when entries are dropped.
Shortened(t, s) ==
    /\ t \in Seq(ResendEntry) /\ Len(t) <= Len(s)
    /\ \A j \in DOMAIN t : \E i \in DOMAIN s : t[j] = s[i]
    /\ \A i, j \in DOMAIN t : t[i].id = t[j].id => i = j

\* Dropping the entry at position k.
LEMMA DropAt ==
  ASSUME NEW s \in Seq(ResendEntry), NEW k \in DOMAIN s,
         \A i, j \in DOMAIN s : s[i].id = s[j].id => i = j
  PROVE  /\ Shortened(RemoveAt(s, k), s)
         /\ \A j \in DOMAIN RemoveAt(s, k) : RemoveAt(s, k)[j].id # s[k].id
<1> DEFINE t == RemoveAt(s, k)
<1>1. /\ t \in Seq(ResendEntry) /\ Len(t) = Len(s) - 1 /\ DOMAIN t = 1..(Len(s) - 1)
      /\ \A j \in 1..(Len(s) - 1) : t[j] = s[IF j < k THEN j ELSE j + 1]
  BY RemoveAtEntries
<1>2. DOMAIN s = 1..Len(s) /\ Len(s) \in Nat
  OBVIOUS
<1> HIDE DEF t
<1> DEFINE f(j) == IF j < k THEN j ELSE j + 1
<1>3. \A j \in DOMAIN t : f(j) \in DOMAIN s /\ f(j) # k /\ t[j] = s[f(j)]
  BY <1>1, <1>2
<1>4. \A i, j \in DOMAIN t : f(i) = f(j) => i = j
  BY <1>1, <1>2
<1> HIDE DEF f
<1>5. \A i, j \in DOMAIN t : t[i].id = t[j].id => i = j
  BY <1>3, <1>4
<1>6. \A j \in DOMAIN t : t[j].id # s[k].id
  BY <1>3
<1>7. \A j \in DOMAIN t : \E i \in DOMAIN s : t[j] = s[i]
  BY <1>3
<1>8. Len(t) <= Len(s)
  BY <1>1, <1>2
<1> QED BY <1>1, <1>5, <1>6, <1>7, <1>8 DEF t, Shortened

\* Dropping the message with an id.
LEMMA DropId ==
  ASSUME resend \in Seq(ResendEntry), NEW id,
         \A i, j \in DOMAIN resend : resend[i].id = resend[j].id => i = j
  PROVE  /\ Shortened(WithoutResend(id), resend)
         /\ \A j \in DOMAIN WithoutResend(id) : WithoutResend(id)[j].id # id
<1>1. DOMAIN resend = 1..Len(resend) /\ Len(resend) \in Nat
  OBVIOUS
<1>2. CASE \E i \in 1..Len(resend) : resend[i].id = id
  <2> DEFINE I == {i \in 1..Len(resend) : resend[i].id = id}
  <2>1. I \subseteq Nat /\ I # {}
    BY <1>1, <1>2
  <2>2. Min(I) \in I
    BY <2>1, MinIsElement
  <2>3. WithoutResend(id) = RemoveAt(resend, Min(I))
    BY <1>2, <2>1 DEF WithoutResend, RemoveFirstMatch, SelectInSeq
  <2>4. Min(I) \in DOMAIN resend /\ resend[Min(I)].id = id
    BY <1>1, <2>2
  <2> QED BY <2>3, <2>4, DropAt
<1>3. CASE ~\E i \in 1..Len(resend) : resend[i].id = id
  <2>1. WithoutResend(id) = resend
    BY <1>3 DEF WithoutResend, RemoveFirstMatch
  <2> QED BY <1>1, <1>3, <2>1 DEF Shortened
<1> QED BY <1>2, <1>3

\* The list with room for one more entry: all of it, or all but the oldest.
LEMMA MadeRoomFacts ==
  ASSUME dups \in Seq(DupEntry), Len(dups) <= DupSize
  PROVE  \E s \in {0, 1} :
           /\ MadeRoom(dups) \in Seq(DupEntry)
           /\ Len(MadeRoom(dups)) = Len(dups) - s /\ Len(MadeRoom(dups)) < DupSize
           /\ \A k \in 1..Len(MadeRoom(dups)) : k + s \in DOMAIN dups /\ MadeRoom(dups)[k] = dups[k + s]
           /\ s = 1 => Len(dups) = DupSize
<1>1. DupSize \in Nat /\ DupSize > 0 /\ Len(dups) \in Nat /\ DOMAIN dups = 1..Len(dups)
  BY CoapAssumption
<1>2. CASE Len(dups) >= DupSize
  <2>1. MadeRoom(dups) = Tail(dups) /\ dups # <<>> /\ Len(dups) = DupSize
    <3>1. MadeRoom(dups) = Tail(dups)
      BY <1>2 DEF MadeRoom
    <3>2. Len(dups) = DupSize
      <4>1. DupSize \in Nat /\ Len(dups) \in Nat
        BY <1>1
      <4> QED BY ONLY <1>2, <4>1, Len(dups) <= DupSize
    <3>3. dups # <<>>
      BY <1>1, <3>2, EmptySeq
    <3> QED BY <3>1, <3>2, <3>3
  <2>2. /\ Tail(dups) \in Seq(DupEntry) /\ Len(Tail(dups)) = Len(dups) - 1
        /\ \A k \in 1..Len(Tail(dups)) : Tail(dups)[k] = dups[k + 1]
    BY <2>1, HeadTailProperties
  <2> WITNESS 1 \in {0, 1}
  <2> QED BY <1>1, <2>1, <2>2
<1>3. CASE ~(Len(dups) >= DupSize)
  <2>1. MadeRoom(dups) = dups
    BY <1>3 DEF MadeRoom
  <2> WITNESS 0 \in {0, 1}
  <2> QED BY <1>1, <1>3, <2>1
<1> QED BY <1>2, <1>3

\* What the duplicate list is after a message with a new id: entry k is an
\* old one, s positions further on, or the last and of the message.
Entered(d, m, s, answers) ==
    /\ d \in Seq(DupEntry) /\ Len(d) <= DupSize
    /\ s \in {0, 1} /\ (s = 1 => Len(dups) = DupSize)
    /\ Len(d) \in {Len(dups) - s, Len(dups) - s + 1}
    /\ \A k \in DOMAIN d :
         \/ /\ k <= Len(dups) - s /\ k + s \in DOMAIN dups /\ d[k].id = dups[k + s].id
            /\ d[k].own = dups[k + s].own /\ d[k].answer = dups[k + s].answer
         \/ /\ k = Len(dups) - s + 1 /\ EntryOf(d[k], m)
            /\ d[k].answer \in {NoAnswer} \cup answers

\* The list before an answer is there.
LEMMA AcceptEnters ==
  ASSUME Types, NEW m, m.id \in Ids, NEW o \in AcceptOutcomes(m)
  PROVE  \E s : /\ Entered(o.dups, m, s, {})
                /\ o.allocs = left.allocs => Len(o.dups) = Len(dups) - s + 1
                /\ o.allocs \in Nat /\ o.allocs <= left.allocs
<1>1. dups \in Seq(DupEntry) /\ Len(dups) <= DupSize /\ DOMAIN dups = 1..Len(dups) /\ Len(dups) \in Nat
  BY DEF Types
<1> DEFINE r == MadeRoom(dups)
<1>2. PICK s \in {0, 1} :
        /\ r \in Seq(DupEntry)
        /\ Len(r) = Len(dups) - s /\ Len(r) < DupSize
        /\ \A k \in 1..Len(r) : k + s \in DOMAIN dups /\ r[k] = dups[k + s]
        /\ s = 1 => Len(dups) = DupSize
  BY <1>1, MadeRoomFacts
<1>3. left.allocs \in Nat
  BY DEF Types, Allowance
<1> DEFINE e == [id |-> m.id, own |-> Answering(m), answer |-> NoAnswer]
<1>4. e \in DupEntry /\ EntryOf(e, m) /\ e.answer = NoAnswer
  <2>1. Answering(m) \in BOOLEAN
    BY DEF Answering
  <2> QED BY <2>1 DEF DupEntry, EntryOf
<1>5. DupSize \in Nat
  BY CoapAssumption
<1> HIDE DEF r, e
<1>6. CASE o = Outcome(Append(r, e), left.allocs)
  <2> DEFINE d == Append(r, e)
  <2>1. /\ d \in Seq(DupEntry) /\ Len(d) = Len(r) + 1 /\ DOMAIN d = 1..(Len(r) + 1)
        /\ \A k \in 1..Len(r) : d[k] = r[k]
        /\ d[Len(r) + 1] = e
    BY <1>2, <1>4
  <2> HIDE DEF d
  <2>2. o.dups = d /\ o.allocs = left.allocs
    BY <1>6 DEF Outcome, d
  <2>3. \A k \in DOMAIN d : k \in 1..Len(r) \/ k = Len(r) + 1
    BY <1>1, <1>2, <2>1
  <2>4. Entered(d, m, s, {})
    <3>1. \A k \in DOMAIN d :
            \/ /\ k <= Len(dups) - s /\ k + s \in DOMAIN dups /\ d[k].id = dups[k + s].id
               /\ d[k].own = dups[k + s].own /\ d[k].answer = dups[k + s].answer
            \/ /\ k = Len(dups) - s + 1 /\ EntryOf(d[k], m)
               /\ d[k].answer \in {NoAnswer} \cup {}
      BY <1>1, <1>2, <1>4, <2>1, <2>3
    <3>2. Len(d) <= DupSize /\ Len(d) = Len(dups) - s + 1
      <4>1. /\ Len(dups) \in Nat /\ DupSize \in Nat /\ s \in {0, 1} /\ Len(r) = Len(dups) - s
            /\ Len(r) < DupSize /\ Len(d) = Len(r) + 1
        BY <1>1, <1>2, <1>5, <2>1
      <4> QED BY ONLY <4>1
    <3> QED BY <1>2, <2>1, <3>1, <3>2 DEF Entered
  <2> QED BY <1>1, <1>2, <1>3, <2>1, <2>2, <2>4
<1>7. CASE \E mem \in {left.allocs - 1} \cap Nat : o = Outcome(r, mem)
  <2>1. o.dups = r /\ o.allocs = left.allocs - 1 /\ o.allocs \in Nat
    BY <1>7 DEF Outcome
  <2>2. Entered(r, m, s, {})
    <3>1. DOMAIN r = 1..Len(r)
      BY <1>2
    <3>2. \A k \in DOMAIN r :
            /\ k <= Len(dups) - s /\ k + s \in DOMAIN dups /\ r[k].id = dups[k + s].id
            /\ r[k].own = dups[k + s].own /\ r[k].answer = dups[k + s].answer
      BY <1>1, <1>2, <3>1
    <3>3. Len(r) <= DupSize
      <4>1. /\ Len(dups) \in Nat /\ DupSize \in Nat /\ s \in {0, 1} /\ Len(r) = Len(dups) - s
            /\ Len(r) < DupSize
        BY <1>1, <1>2, <1>5
      <4> QED BY ONLY <4>1
    <3> QED BY <1>2, <3>2, <3>3 DEF Entered
  <2> QED BY <1>3, <2>1, <2>2
<1> QED BY <1>6, <1>7 DEF AcceptOutcomes, Stored, r, e

\* The list once the answer a is kept.
LEMMA AnswerEnters ==
  ASSUME Types, NEW m, m.id \notin DupIds, NEW s, NEW d, Entered(d, m, s, {}),
         NEW a \in AnswerSet, a.id = m.id
  PROVE  /\ Entered(WithAnswer(d, a), m, s, {a})
         /\ Len(WithAnswer(d, a)) = Len(d)
<1> DEFINE t == WithAnswer(d, a)
<1>1. d \in Seq(DupEntry) /\ DOMAIN d = 1..Len(d) /\ Len(d) \in Nat
  BY DEF Entered
<1>2. \A k \in DOMAIN d : d[k] \in DupEntry
  BY <1>1
<1>3. \A k \in DOMAIN d : [d[k] EXCEPT !.answer = a] = [id |-> d[k].id, own |-> d[k].own, answer |-> a]
  BY <1>2 DEF DupEntry
<1>4. \A k \in DOMAIN d :
        /\ t[k] \in DupEntry /\ t[k].id = d[k].id /\ t[k].own = d[k].own
        /\ IF d[k].id = a.id /\ d[k].answer = NoAnswer THEN t[k].answer = a
           ELSE t[k].answer = d[k].answer
  BY <1>2, <1>3 DEF DupEntry, WithAnswer
<1>5. DOMAIN t = 1..Len(d)
  BY <1>1 DEF WithAnswer
<1>6. t \in Seq(DupEntry) /\ Len(t) = Len(d)
  <2>1. t = [k \in 1..Len(d) |-> t[k]]
    BY <1>1 DEF WithAnswer
  <2>2. t \in [1..Len(d) -> DupEntry]
    BY <1>1, <1>4, <2>1
  <2> QED BY <1>1, <2>2, IsASeq, LenProperties
<1> HIDE DEF t
<1>7. ASSUME NEW k \in DOMAIN t
      PROVE  \/ /\ k <= Len(dups) - s /\ k + s \in DOMAIN dups /\ t[k].id = dups[k + s].id
                /\ t[k].own = dups[k + s].own /\ t[k].answer = dups[k + s].answer
             \/ /\ k = Len(dups) - s + 1 /\ EntryOf(t[k], m)
                /\ t[k].answer \in {NoAnswer} \cup {a}
  <2>1. k \in DOMAIN d
    BY <1>1, <1>5
  <2>2. CASE /\ k <= Len(dups) - s /\ k + s \in DOMAIN dups /\ d[k].id = dups[k + s].id
             /\ d[k].own = dups[k + s].own /\ d[k].answer = dups[k + s].answer
    <3>1. dups[k + s].id \in DupIds
      BY <2>2 DEF DupIds
    <3> QED BY <1>4, <2>1, <2>2, <3>1
  <2>3. CASE /\ k = Len(dups) - s + 1 /\ EntryOf(d[k], m)
             /\ d[k].answer \in {NoAnswer} \cup {}
    BY <1>4, <2>1, <2>3 DEF EntryOf
  <2> QED BY <2>1, <2>2, <2>3 DEF Entered
<1> QED BY <1>6, <1>7 DEF Entered, t

\* What every handler of a message that is not a duplicate does: the message
\* is entered in the list, perhaps with the answer a.
Accepting(m, a) ==
    /\ m \in toClient /\ m.id \notin DupIds /\ accepted' = Append(accepted, m)
    /\ a \in AnswerSet /\ a.id = m.id
    /\ toServer' \in {toServer, toServer \cup {a}}
    /\ \E s : /\ Entered(dups', m, s, {a})
              /\ "alloc" \notin lapses' => Len(dups') = Len(dups) - s + 1
    /\ left' \in Allowance /\ left'.own = left.own
    /\ lapses' \in {lapses, lapses \cup {"alloc"}}
    /\ UNCHANGED <<messageId, toClient, srv, sends>>

\* The lists that a handler leaves behind, with or without the answer.
LEMMA LeavesEnters ==
  ASSUME Types, NEW m \in toClient, AcceptsNew(m), NEW o \in AcceptOutcomes(m),
         NEW a \in AnswerSet, a.id = m.id, toServer' \in {toServer, toServer \cup {a}},
         NEW l, l.dups = o.dups \/ l.dups = WithAnswer(o.dups, a),
         l.allocs \in Nat, l.allocs <= o.allocs, Leaves(l)
  PROVE  Accepting(m, a)
<1>1. m.id \in Ids
  BY DEF Types, IsSrvMsg, SrvMsgs
<1>2. m.id \notin DupIds
  BY DEF AcceptsNew, KnownId, DupIds
<1>3. PICK s : /\ Entered(o.dups, m, s, {})
               /\ o.allocs = left.allocs => Len(o.dups) = Len(dups) - s + 1
               /\ o.allocs \in Nat /\ o.allocs <= left.allocs
  BY <1>1, AcceptEnters
<1>4. Entered(l.dups, m, s, {a}) /\ Len(l.dups) = Len(o.dups)
  <2>1. CASE l.dups = o.dups
    <3>1. Entered(o.dups, m, s, {a})
      BY <1>3 DEF Entered
    <3> QED BY <2>1, <3>1
  <2>2. CASE l.dups = WithAnswer(o.dups, a)
    <3> DEFINE d == o.dups
    <3>1. m.id \notin DupIds /\ Entered(d, m, s, {}) /\ a.id = m.id
      BY <1>2, <1>3
    <3> HIDE DEF d
    <3>2. Entered(WithAnswer(d, a), m, s, {a}) /\ Len(WithAnswer(d, a)) = Len(d)
      BY ONLY Types, <3>1, a \in AnswerSet, AnswerEnters
    <3> QED BY <2>2, <3>2 DEF d
  <2> QED BY <2>1, <2>2
<1>5. left \in Allowance /\ left.allocs \in Nat
  BY DEF Types, Allowance
<1>6. left' \in Allowance /\ left'.own = left.own
  BY <1>5 DEF Leaves, Allowance
<1>7. "alloc" \notin lapses' => Len(l.dups) = Len(dups) - s + 1
  <2>1. CASE l.allocs < left.allocs
    BY <2>1 DEF Leaves
  <2>2. CASE ~(l.allocs < left.allocs)
    <3>1. l.allocs \in Nat /\ o.allocs \in Nat /\ left.allocs \in Nat
          /\ o.allocs <= left.allocs /\ l.allocs <= o.allocs
      BY <1>3, <1>5
    <3>2. o.allocs = left.allocs
      BY ONLY <2>2, <3>1
    <3> QED BY <1>3, <1>4, <3>2
  <2> QED BY <2>1, <2>2
<1>8. lapses' \in {lapses, lapses \cup {"alloc"}}
  BY DEF Leaves
<1>9. dups' = l.dups
  BY DEF Leaves
<1> QED BY <1>2, <1>4, <1>6, <1>7, <1>8, <1>9 DEF Accepting, AcceptsNew

\* The outcomes of an answer that is kept or lost.
LEMMA AnswerOutcomes ==
  ASSUME Types, NEW m \in toClient, NEW o \in AcceptOutcomes(m), NEW a
  PROVE  /\ o.allocs \in Nat
         /\ AnswerKept(o, a).dups = WithAnswer(o.dups, a) /\ AnswerKept(o, a).allocs = o.allocs
         /\ \A l \in AnswerLost(o, a) : l.dups = o.dups /\ l.allocs \in Nat /\ l.allocs <= o.allocs
<1>1. m.id \in Ids
  BY DEF Types, IsSrvMsg, SrvMsgs
<1>2. o.allocs \in Nat
  BY <1>1, AcceptEnters
<1>3. ASSUME NEW l \in AnswerLost(o, a)
      PROVE  l.dups = o.dups /\ l.allocs \in Nat /\ l.allocs <= o.allocs
  <2>1. PICK mem \in Nat : l = Outcome(o.dups, mem) /\ (mem = o.allocs - 1 \/ mem = -1)
    BY DEF AnswerLost
  <2> QED BY <1>2, <2>1 DEF Outcome
<1> QED BY <1>2, <1>3 DEF AnswerKept, Outcome

\* The message that answers one of the server's.
LEMMA AnswerIsTyped ==
  ASSUME NEW id \in Ids, NEW code \in {"done", "continue", "incomplete"}, NEW n \in 0..Blocks
  PROVE  /\ Msg("ACK", id, code, n) \in AnswerSet
         /\ Msg("ACK", id, code, n).id = id
         /\ Msg("ACK", id, code, n).code = code
         /\ Msg("ACK", id, code, n).arg = n
BY DEF Msg, AnswerSet

\* A request is entered with its answer.
LEMMA RequestAccepts ==
  ASSUME Types, NEW m \in toClient, ReceiveRequest(m)
  PROVE  Accepting(m, Msg("ACK", m.id, "done", 0))
<1> DEFINE a == Msg("ACK", m.id, "done", 0)
<1>1. m.id \in Ids /\ 0 \in 0..Blocks
  BY CoapAssumption DEF Types, IsSrvMsg, SrvMsgs
<1>2. a \in AnswerSet /\ a.id = m.id
  BY <1>1, AnswerIsTyped
<1>3. AcceptsNew(m)
  BY DEF ReceiveRequest
<1>4. PICK o \in AcceptOutcomes(m) :
          \/ Leaves(AnswerKept(o, a)) /\ toServer' = toServer \cup {a}
          \/ (\E l \in AnswerLost(o, a) : Leaves(l)) /\ UNCHANGED toServer
  BY DEF ReceiveRequest
<1> HIDE DEF a
<1>5. /\ o.allocs \in Nat
      /\ AnswerKept(o, a).dups = WithAnswer(o.dups, a) /\ AnswerKept(o, a).allocs = o.allocs
      /\ \A l \in AnswerLost(o, a) : l.dups = o.dups /\ l.allocs \in Nat /\ l.allocs <= o.allocs
  BY AnswerOutcomes
<1>6. toServer' \in {toServer, toServer \cup {a}}
  BY <1>4
<1>7. PICK l : /\ l.dups = o.dups \/ l.dups = WithAnswer(o.dups, a)
               /\ l.allocs \in Nat /\ l.allocs <= o.allocs /\ Leaves(l)
  <2>1. o.allocs <= o.allocs
    BY <1>5
  <2> QED BY <1>4, <1>5, <2>1
<1>8. Accepting(m, a)
  BY ONLY Types, m \in toClient, <1>2, <1>3, o \in AcceptOutcomes(m), <1>6, <1>7, LeavesEnters
<1> QED BY <1>8 DEF a

\* A response is entered without an answer.
LEMMA ResponseAccepts ==
  ASSUME Types, NEW m \in toClient, ReceiveResponse(m)
  PROVE  Accepting(m, Msg("ACK", m.id, "done", 0))
<1> DEFINE a == Msg("ACK", m.id, "done", 0)
<1>1. m.id \in Ids /\ 0 \in 0..Blocks
  BY CoapAssumption DEF Types, IsSrvMsg, SrvMsgs
<1>2. a \in AnswerSet /\ a.id = m.id
  BY <1>1, AnswerIsTyped
<1>3. AcceptsNew(m)
  BY DEF ReceiveResponse
<1>4. PICK o \in AcceptOutcomes(m) : Leaves(o)
  BY DEF ReceiveResponse
<1> HIDE DEF a
<1>5. o.allocs \in Nat /\ o.allocs <= o.allocs
  BY AnswerOutcomes
<1>6. toServer' \in {toServer, toServer \cup {a}}
  BY DEF ReceiveResponse
<1>7. o.dups = o.dups \/ o.dups = WithAnswer(o.dups, a)
  OBVIOUS
<1>8. Accepting(m, a)
  BY ONLY Types, m \in toClient, <1>2, <1>3, o \in AcceptOutcomes(m), <1>4, <1>5, <1>6, <1>7, LeavesEnters
<1> QED BY <1>8 DEF a

\* The answer to a block that is not the last one.
BlockAnswer(m) ==
    Msg("ACK", m.id, IF InOrder(m.arg) THEN "continue" ELSE "incomplete", m.arg)

\* A block that is not the last one is entered with its answer, and changes
\* the payload only if it follows.
LEMMA BlockAccepts ==
  ASSUME Types, NEW m \in toClient, ReceiveBlock(m)
  PROVE  /\ Accepting(m, BlockAnswer(m))
         /\ m.code = "block" /\ m.arg \in 0..(Blocks - 2)
         /\ BlockAnswer(m).code = (IF InOrder(m.arg) THEN "continue" ELSE "incomplete")
         /\ BlockAnswer(m).arg = m.arg
         /\ \/ InOrder(m.arg) /\ payload' = PayloadWith(m.arg)
            \/ ~InOrder(m.arg) /\ payload' = payload
            \/ lapses' # {}
<1> DEFINE a == BlockAnswer(m)
<1>0. Blocks \in Nat /\ Blocks > 1 /\ IdMax \in Nat
  BY CoapAssumption
<1>1. m.id \in Ids /\ m.arg \in 0..(IdMax + Blocks) /\ m.arg < Blocks - 1
  BY DEF Types, IsSrvMsg, SrvMsgs, ReceiveBlock
<1>2. m.arg \in 0..Blocks /\ m.arg \in 0..(Blocks - 2)
  BY <1>0, <1>1
<1>3. a \in AnswerSet /\ a.id = m.id /\ a.arg = m.arg
      /\ a.code = (IF InOrder(m.arg) THEN "continue" ELSE "incomplete")
  <2>1. CASE InOrder(m.arg)
    BY <1>1, <1>2, <2>1, AnswerIsTyped DEF BlockAnswer
  <2>2. CASE ~InOrder(m.arg)
    BY <1>1, <1>2, <2>2, AnswerIsTyped DEF BlockAnswer
  <2> QED BY <2>1, <2>2
<1>4. AcceptsNew(m)
  BY DEF ReceiveBlock
<1>5. PICK o \in AcceptOutcomes(m) :
          \/ /\ toServer' = toServer \cup {a}
             /\ Leaves(AnswerKept(o, a))
             /\ payload' = IF InOrder(m.arg) THEN PayloadWith(m.arg) ELSE payload
          \/ /\ InOrder(m.arg) /\ StoreAllocates(m.arg) /\ o.allocs > 0
             /\ toServer' = toServer \cup {a}
             /\ Leaves(Outcome(WithAnswer(o.dups, a), o.allocs - 1))
             /\ payload' = NoPayload
          \/ /\ UNCHANGED <<toServer, payload>>
             /\ \E l \in AnswerLost(o, a) : Leaves(l)
  BY DEF ReceiveBlock, BlockAnswer
<1> HIDE DEF a
<1>6. /\ o.allocs \in Nat
      /\ AnswerKept(o, a).dups = WithAnswer(o.dups, a) /\ AnswerKept(o, a).allocs = o.allocs
      /\ \A l \in AnswerLost(o, a) : l.dups = o.dups /\ l.allocs \in Nat /\ l.allocs <= o.allocs
  BY AnswerOutcomes
<1>7. toServer' \in {toServer, toServer \cup {a}}
  BY <1>5
<1>8. left.allocs \in Nat /\ o.allocs <= left.allocs
  BY <1>1, AcceptEnters DEF Types, Allowance
<1>9. CASE /\ Leaves(AnswerKept(o, a))
           /\ payload' = IF InOrder(m.arg) THEN PayloadWith(m.arg) ELSE payload
  <2>1. o.allocs <= o.allocs
    BY <1>6
  <2>2. PICK l : /\ l.dups = o.dups \/ l.dups = WithAnswer(o.dups, a)
                 /\ l.allocs \in Nat /\ l.allocs <= o.allocs /\ Leaves(l)
    BY <1>6, <1>9, <2>1
  <2>3. Accepting(m, a)
    BY ONLY Types, m \in toClient, <1>3, <1>4, o \in AcceptOutcomes(m), <1>7, <2>2, LeavesEnters
  <2> QED BY <1>2, <1>3, <1>9, <2>3 DEF a, ReceiveBlock
<1>10. CASE /\ o.allocs > 0 /\ Leaves(Outcome(WithAnswer(o.dups, a), o.allocs - 1))
  <2> DEFINE l == Outcome(WithAnswer(o.dups, a), o.allocs - 1)
  <2>1. l.dups = WithAnswer(o.dups, a) /\ l.allocs = o.allocs - 1
    BY DEF Outcome
  <2>2. Leaves(l)
    BY <1>10
  <2> HIDE DEF l
  <2>3. l.allocs \in Nat /\ l.allocs <= o.allocs /\ l.allocs < left.allocs
    BY <1>6, <1>8, <1>10, <2>1
  <2>4. lapses' # {}
    BY <2>2, <2>3 DEF Leaves
  <2>5. l.dups = o.dups \/ l.dups = WithAnswer(o.dups, a)
    BY <2>1
  <2>6. Accepting(m, a)
    BY ONLY Types, m \in toClient, <1>3, <1>4, o \in AcceptOutcomes(m), <1>7, <2>2, <2>3, <2>5,
            LeavesEnters
  <2> QED BY <1>2, <1>3, <2>4, <2>6 DEF a, ReceiveBlock
<1>11. CASE \E l \in AnswerLost(o, a) : Leaves(l)
  <2>1. PICK l \in AnswerLost(o, a) : Leaves(l)
    BY <1>11
  <2>2. l.dups = o.dups /\ l.allocs \in Nat /\ l.allocs <= o.allocs
    BY <1>6
  <2>3. l.dups = o.dups \/ l.dups = WithAnswer(o.dups, a)
    BY <2>2
  <2>4. Accepting(m, a)
    BY ONLY Types, m \in toClient, <1>3, <1>4, o \in AcceptOutcomes(m), <1>7, <2>1, <2>2, <2>3,
            LeavesEnters
  <2>5. l.allocs < left.allocs
    <3>1. l.allocs = o.allocs - 1
      <4>1. PICK mem \in Nat : l = Outcome(o.dups, mem) /\ (mem = o.allocs - 1 \/ mem = -1)
        BY DEF AnswerLost
      <4> QED BY <4>1 DEF Outcome
    <3> QED BY <1>6, <1>8, <3>1
  <2>6. lapses' # {}
    BY <2>1, <2>5 DEF Leaves
  <2> QED BY <1>2, <1>3, <2>4, <2>6 DEF a, ReceiveBlock
<1> QED BY <1>5, <1>9, <1>10, <1>11

\* The last block is entered, and what is there is handed over.
LEMMA LastBlockAccepts ==
  ASSUME Types, NEW m \in toClient, ReceiveLastBlock(m)
  PROVE  /\ Accepting(m, Msg("ACK", m.id, "done", 0))
         /\ m.code = "block" /\ m.arg = Blocks - 1
         /\ \/ uploads' = uploads \cup {PayloadWith(m.arg).blocks} /\ payload' = NoPayload
            \/ /\ uploads' = uploads /\ lapses' # {}
               /\ payload' \in {NoPayload, PayloadWith(m.arg)}
<1> DEFINE a == Msg("ACK", m.id, "done", 0)
<1>1. m.id \in Ids /\ 0 \in 0..Blocks
  BY CoapAssumption DEF Types, IsSrvMsg, SrvMsgs
<1>2. a \in AnswerSet /\ a.id = m.id
  BY <1>1, AnswerIsTyped
<1>3. AcceptsNew(m)
  BY DEF ReceiveLastBlock
<1>4. PICK o \in AcceptOutcomes(m) :
          \/ /\ uploads' = uploads \cup {PayloadWith(m.arg).blocks}
             /\ \/ Leaves(AnswerKept(o, a)) /\ toServer' = toServer \cup {a}
                \/ (\E l \in AnswerLost(o, a) : Leaves(l)) /\ UNCHANGED toServer
             /\ payload' = NoPayload
          \/ /\ o.allocs > 0
             /\ Leaves(Outcome(o.dups, o.allocs - 1))
             /\ payload' \in {NoPayload, PayloadWith(m.arg)}
             /\ UNCHANGED <<uploads, toServer>>
  BY DEF ReceiveLastBlock
<1>5. m.code = "block" /\ m.arg = Blocks - 1
  BY DEF ReceiveLastBlock
<1> HIDE DEF a
<1>6. /\ o.allocs \in Nat
      /\ AnswerKept(o, a).dups = WithAnswer(o.dups, a) /\ AnswerKept(o, a).allocs = o.allocs
      /\ \A l \in AnswerLost(o, a) : l.dups = o.dups /\ l.allocs \in Nat /\ l.allocs <= o.allocs
  BY AnswerOutcomes
<1>7. toServer' \in {toServer, toServer \cup {a}}
  BY <1>4
<1>8. left.allocs \in Nat /\ o.allocs <= left.allocs
  BY <1>1, AcceptEnters DEF Types, Allowance
<1>9. CASE /\ uploads' = uploads \cup {PayloadWith(m.arg).blocks} /\ payload' = NoPayload
           /\ \/ Leaves(AnswerKept(o, a))
              \/ \E l \in AnswerLost(o, a) : Leaves(l)
  <2>1. o.allocs <= o.allocs
    BY <1>6
  <2>2. PICK l : /\ l.dups = o.dups \/ l.dups = WithAnswer(o.dups, a)
                 /\ l.allocs \in Nat /\ l.allocs <= o.allocs /\ Leaves(l)
    BY <1>6, <1>9, <2>1
  <2>3. Accepting(m, a)
    BY ONLY Types, m \in toClient, <1>2, <1>3, o \in AcceptOutcomes(m), <1>7, <2>2, LeavesEnters
  <2> QED BY <1>5, <1>9, <2>3 DEF a
<1>10. CASE /\ o.allocs > 0 /\ Leaves(Outcome(o.dups, o.allocs - 1)) /\ uploads' = uploads
            /\ payload' \in {NoPayload, PayloadWith(m.arg)}
  <2> DEFINE l == Outcome(o.dups, o.allocs - 1)
  <2>1. l.dups = o.dups /\ l.allocs = o.allocs - 1
    BY DEF Outcome
  <2>2. Leaves(l)
    BY <1>10
  <2> HIDE DEF l
  <2>3. l.allocs \in Nat /\ l.allocs <= o.allocs /\ l.allocs < left.allocs
    BY <1>6, <1>8, <1>10, <2>1
  <2>4. lapses' # {}
    BY <2>2, <2>3 DEF Leaves
  <2>5. l.dups = o.dups \/ l.dups = WithAnswer(o.dups, a)
    BY <2>1
  <2>6. Accepting(m, a)
    BY ONLY Types, m \in toClient, <1>2, <1>3, o \in AcceptOutcomes(m), <1>7, <2>2, <2>3, <2>5,
            LeavesEnters
  <2> QED BY <1>5, <1>10, <2>4, <2>6 DEF a
<1> QED BY <1>4, <1>9, <1>10

-----------------------------------------------------------------------------
(***************************************************************************)
(* Ids                                                                     *)
(***************************************************************************)

\* What a step does to the ids: only an id just given out comes to life, and an
\* answer answers a message that is under way.
IdStep ==
    /\ left'.own <= left.own
    /\ Fresh' \subseteq Fresh /\ Coming' \subseteq Coming
    /\ ResendIds' \subseteq ResendIds \cup (Fresh \ Fresh')
    /\ \A x \in toServer' : ~Answering(x) => x \in toServer \/ x.id \in ResendIds \cup (Fresh \ Fresh')
    /\ \A x \in toClient' :
         \/ x \in toClient
         \/ Answering(x) /\ (\E y \in toServer : ~Answering(y) /\ y.id = x.id)
         \/ ~Answering(x) /\ x.id \in Coming \ Coming'
    /\ heard \subseteq heard' /\ heard' \subseteq heard \cup OwnLive
    /\ \/ accepted' = accepted
       \/ \E x \in toClient : accepted' = Append(accepted, x) /\ (Answering(x) => x.id \in heard')

\* Ids to come are ids.
LEMMA ToCome ==
  ASSUME Types, IdInv
  PROVE  Fresh \subseteq Ids /\ Coming \subseteq Ids
<1>1. messageId \in 0..IdMax /\ left.own \in Nat /\ left.own <= IdMax /\ srv.last \in Nat
  BY DEF Types, IdInv, Allowance, ServerState
<1>2. Fresh \subseteq Ids
  BY <1>1, WrapIds DEF Fresh
<1>3. SrvTop \in 0..IdMax /\ IdMax \in Nat
  BY CoapAssumption
<1>4. Coming \subseteq Ids
  BY <1>1, <1>3 DEF Coming, Ids
<1> QED BY <1>2, <1>4

\* Such a step keeps what is in use and what is to come apart.
LEMMA IdStepKeeps ==
  ASSUME Types, IdInv, Types', IdStep
  PROVE  IdInv'
<1>1. left'.own <= IdMax
  <2>1. left.own \in Nat /\ left'.own \in Nat /\ IdMax \in Nat
    BY CoapAssumption DEF Types, Allowance
  <2>2. left'.own <= left.own /\ left.own <= IdMax
    BY DEF IdInv, IdStep
  <2> QED BY ONLY <2>1, <2>2
<1>2. Fresh' \subseteq Fresh /\ Coming' \subseteq Coming /\ \A id \in OwnLive \cup heard : id \notin Fresh
  BY DEF IdInv, IdStep
<1>3. \A id \in OwnLive' : id \notin Fresh'
  <2>1. \A id \in ResendIds' : id \notin Fresh'
    BY <1>2 DEF IdStep, OwnLive
  <2>2. \A x \in toServer' : ~Answering(x) => x.id \notin Fresh'
    BY <1>2 DEF IdStep, OwnLive
  <2>3. \A x \in toClient' : Answering(x) => x.id \notin Fresh'
    BY <1>2 DEF IdStep, OwnLive
  <2> QED BY <2>1, <2>2, <2>3 DEF OwnLive, Answering
<1>4. \A id \in heard' : id \notin Fresh'
  BY <1>2 DEF IdStep
<1>5. \A x \in toClient' : ~Answering(x) => x.id \notin Coming'
  BY <1>2 DEF IdInv, IdStep
<1>6. \A k \in DOMAIN accepted' : IF Answering(accepted'[k]) THEN accepted'[k].id \in heard'
                                                           ELSE accepted'[k].id \notin Coming'
  <2>1. \A k \in DOMAIN accepted : IF Answering(accepted[k]) THEN accepted[k].id \in heard'
                                                          ELSE accepted[k].id \notin Coming'
    BY DEF IdInv, IdStep
  <2>2. ASSUME NEW x \in toClient, accepted' = Append(accepted, x), Answering(x) => x.id \in heard',
               NEW k \in DOMAIN accepted'
        PROVE  IF Answering(accepted'[k]) THEN accepted'[k].id \in heard' ELSE accepted'[k].id \notin Coming'
    <3>1. accepted \in Seq(SrvMsgs) /\ x \in SrvMsgs
      BY DEF Types, IsSrvMsg
    <3>2. (k \in DOMAIN accepted /\ accepted'[k] = accepted[k]) \/ accepted'[k] = x
      BY <2>2, <3>1
    <3>3. IF Answering(x) THEN x.id \in heard' ELSE x.id \notin Coming'
      BY <1>2, <2>2 DEF IdInv
    <3> QED BY <2>1, <3>2, <3>3
  <2> QED BY <2>1, <2>2 DEF IdStep
<1> QED BY <1>1, <1>3, <1>4, <1>5, <1>6 DEF IdInv, Answering

\* Dead, one step later.
DeadNext(m) ==
    /\ m \notin toClient'
    /\ IF Answering(m) THEN m.id \notin Fresh' /\ m.id \notin ResendIds'
                             /\ (\A x \in toServer' : x.id = m.id => Answering(x))
                        ELSE m.id \notin Coming'

\* What is over stays over.
LEMMA DeadStaysDead ==
  ASSUME IdStep, NEW m, Dead(m)
  PROVE  DeadNext(m)
<1>1. CASE Answering(m)
  <2>1. /\ m \notin toClient /\ m.id \notin Fresh /\ m.id \notin ResendIds
        /\ \A x \in toServer : x.id = m.id => Answering(x)
    BY <1>1 DEF Dead
  <2>2. m \notin toClient'
    BY <1>1, <2>1 DEF IdStep
  <2>3. m.id \notin Fresh' /\ m.id \notin ResendIds'
    BY <2>1 DEF IdStep
  <2>4. \A x \in toServer' : x.id = m.id => Answering(x)
    BY <2>1 DEF IdStep
  <2> QED BY <1>1, <2>2, <2>3, <2>4 DEF DeadNext
<1>2. CASE ~Answering(m)
  <2>1. m \notin toClient /\ m.id \notin Coming
    BY <1>2 DEF Dead
  <2>2. m \notin toClient' /\ m.id \notin Coming'
    BY <1>2, <2>1 DEF IdStep
  <2> QED BY <1>2, <2>2 DEF DeadNext
<1> QED BY <1>1, <1>2

\* Giving out the next id of the client.
LEMMA GivesOut ==
  ASSUME Types, IdInv, left.own > 0, messageId' = NewMessageId,
         left'.own = left.own - 1
  PROVE  /\ NewMessageId \in Ids /\ NewMessageId \in Fresh \ Fresh'
         /\ Fresh' \subseteq Fresh /\ left'.own <= left.own
<1>1. messageId \in 0..IdMax /\ left.own \in Nat /\ left.own <= IdMax
  BY DEF Types, IdInv, Allowance
<1>2. PICK m, n, new : /\ m = messageId /\ n = left.own /\ new = NewMessageId
  OBVIOUS
<1>3. /\ m \in 0..IdMax /\ n \in Nat /\ n > 0 /\ n <= IdMax
      /\ new = IF m = IdMax THEN 1 ELSE m + 1
  BY <1>1, <1>2 DEF NewMessageId
<1>4. /\ new \in Ids /\ new \in IdsAfter(m, n)
      /\ IdsAfter(new, n - 1) \subseteq IdsAfter(m, n)
      /\ new \notin IdsAfter(new, n - 1)
  BY <1>3, FreshStep
<1>5. Fresh = IdsAfter(m, n)
  BY <1>2 DEF Fresh
<1>6. Fresh' = IdsAfter(new, n - 1)
  BY <1>2 DEF Fresh, IdsAfter, Wrap
<1>7. left'.own <= left.own
  BY <1>1
<1> QED BY <1>2, <1>4, <1>5, <1>6, <1>7

\* The server giving out its next id.
LEMMA SrvGivesOut ==
  ASSUME Types, SrvId <= SrvTop, srv'.last = SrvId
  PROVE  /\ SrvId \in Coming \ Coming' /\ Coming' \subseteq Coming /\ SrvId \in Ids
<1>1. srv.last \in Nat /\ SrvTop \in 0..IdMax /\ IdMax \in Nat
  BY CoapAssumption DEF Types, ServerState
<1> QED BY <1>1 DEF Coming, SrvId, Ids

\* Entering a message that is under way gives out no id.
LEMMA AcceptingIds ==
  ASSUME Types, NEW m, NEW a, Accepting(m, a),
         \/ heard' = heard /\ ~Answering(m)
         \/ heard' = heard \cup {m.id} /\ Answering(m),
         ResendIds' \subseteq ResendIds
  PROVE  IdStep
<1>1. m \in toClient /\ accepted' = Append(accepted, m) /\ toClient' = toClient
  BY DEF Accepting
<1>2. Fresh' = Fresh /\ Coming' = Coming
  BY DEF Fresh, Coming, Accepting, IdsAfter, Wrap
<1>3. \A x \in toServer' : x \in toServer \/ Answering(x)
  BY DEF Accepting, AnswerSet, Answering
<1>4. left'.own <= left.own
  BY DEF Types, Accepting, Allowance
<1>5. heard \subseteq heard' /\ heard' \subseteq heard \cup OwnLive /\ (Answering(m) => m.id \in heard')
  BY <1>1 DEF OwnLive
<1> QED BY <1>1, <1>2, <1>3, <1>4, <1>5 DEF IdStep

\* A list without some of its entries has no new ids.
LEMMA ShortenedIds ==
  ASSUME Shortened(resend', resend)
  PROVE  ResendIds' \subseteq ResendIds
BY DEF Shortened, ResendIds

\* The first conjunct of ListInv.
UniqueResend == \A j, k \in DOMAIN resend : resend[j].id = resend[k].id => j = k

\* Where entries of the retransmission list are dropped.
LEMMA Drops ==
  ASSUME Types, UniqueResend
  PROVE  /\ Shortened(resend, resend)
         /\ \A id : Shortened(WithoutResend(id), resend)
         /\ Shortened(<<>>, resend)
<1>1. resend \in Seq(ResendEntry)
  BY DEF Types
<1>2. ASSUME NEW id PROVE Shortened(WithoutResend(id), resend)
  BY <1>1, DropId DEF UniqueResend
<1>3. Shortened(<<>>, resend)
  <2>1. <<>> \in Seq(ResendEntry) /\ Len(<<>>) = 0 /\ DOMAIN <<>> = {} /\ Len(resend) \in Nat
    BY <1>1
  <2> QED BY <2>1 DEF Shortened
<1>4. Shortened(resend, resend)
  <2>1. Len(resend) \in Nat
    BY <1>1
  <2> QED BY <1>1, <2>1 DEF Shortened, UniqueResend
<1> QED BY <1>2, <1>3, <1>4

\* A step that leaves the numbering and the server's messages alone.
LEMMA QuietIds ==
  ASSUME Types, UNCHANGED <<messageId, srv, accepted>>, left'.own = left.own,
         ResendIds' \subseteq ResendIds, toClient' \subseteq toClient,
         \A x \in toServer' : x \in toServer \/ Answering(x) \/ x.id \in ResendIds,
         heard \subseteq heard', heard' \subseteq heard \cup OwnLive
  PROVE  IdStep
<1>1. Fresh' = Fresh /\ Coming' = Coming
  BY DEF Fresh, Coming, IdsAfter, Wrap
<1>2. left'.own <= left.own
  BY DEF Types, Allowance
<1> QED BY <1>1, <1>2 DEF IdStep

\* A step that sends, or tries to send, a message of the client.
LEMMA BuildIds ==
  ASSUME Types, IdInv, Build, left'.own = left.own - 1,
         ResendIds' \subseteq ResendIds \cup {NewMessageId},
         \A m \in toServer' : m \in toServer \/ m.id = NewMessageId
  PROVE  IdStep
<1>1. /\ NewMessageId \in Ids /\ NewMessageId \in Fresh \ Fresh'
      /\ Fresh' \subseteq Fresh /\ left'.own <= left.own
  BY GivesOut DEF Build
<1>2. Coming' = Coming /\ heard' = heard /\ toClient' = toClient /\ accepted' = accepted
  BY DEF Coming, Build
<1> QED BY <1>1, <1>2 DEF IdStep

\* A step of the server: it answers a message, or sends one of its own.
LEMMA ServerIds ==
  ASSUME Types, UNCHANGED <<coap, toServer, heard, accepted>>, left'.own = left.own,
         \/ /\ UNCHANGED srv.last
            /\ \A x \in toClient' :
                 x \in toClient \/ (Answering(x) /\ \E y \in toServer : ~Answering(y) /\ y.id = x.id)
         \/ /\ SrvId <= SrvTop /\ srv'.last = SrvId
            /\ \A x \in toClient' : x \in toClient \/ (~Answering(x) /\ x.id = SrvId)
  PROVE  IdStep
<1>1. Fresh' = Fresh /\ ResendIds' = ResendIds
  BY DEF Fresh, ResendIds, coap, IdsAfter, Wrap
<1>2. left'.own <= left.own
  BY DEF Types, Allowance
<1>3. CASE /\ UNCHANGED srv.last
           /\ \A x \in toClient' :
                x \in toClient \/ (Answering(x) /\ \E y \in toServer : ~Answering(y) /\ y.id = x.id)
  <2>1. Coming' = Coming
    BY <1>3 DEF Coming
  <2> QED BY <1>1, <1>2, <1>3, <2>1 DEF IdStep
<1>4. CASE /\ SrvId <= SrvTop /\ srv'.last = SrvId
           /\ \A x \in toClient' : x \in toClient \/ (~Answering(x) /\ x.id = SrvId)
  <2>1. SrvId \in Coming \ Coming' /\ Coming' \subseteq Coming
    BY <1>4, SrvGivesOut
  <2> QED BY <1>1, <1>2, <1>4, <2>1 DEF IdStep
<1> QED BY <1>3, <1>4

\* The field own of the allowance after a step.
LEMMA AllowanceStep ==
  ASSUME Types
  PROVE  /\ [left EXCEPT !.own = @ - 1].own = left.own - 1
         /\ [left EXCEPT !.own = @ - 1, !.allocs = @ - 1].own = left.own - 1
         /\ [left EXCEPT !.srv = @ - 1].own = left.own
         /\ [left EXCEPT !.allocs = @ - 1].own = left.own
BY DEF Types, Allowance

\* Appending to the retransmission list.
LEMMA EnqueueFacts ==
  ASSUME Types, NewMessageId \in Ids, NEW kind \in OwnKinds
  PROVE  /\ Enqueue(kind) \in Seq(ResendEntry)
         /\ Len(Enqueue(kind)) = Len(resend) + 1
         /\ DOMAIN Enqueue(kind) = 1..(Len(resend) + 1)
         /\ \A k \in DOMAIN resend : Enqueue(kind)[k] = resend[k]
         /\ Enqueue(kind)[Len(resend) + 1] = [id |-> NewMessageId, kind |-> kind, count |-> 0]
<1>1. resend \in Seq(ResendEntry)
  BY DEF Types
<1> DEFINE e == [id |-> NewMessageId, kind |-> kind, count |-> 0]
<1>2. e \in ResendEntry
  BY CoapAssumption DEF ResendEntry
<1> HIDE DEF e
<1>3. /\ Append(resend, e) \in Seq(ResendEntry)
      /\ Len(Append(resend, e)) = Len(resend) + 1
      /\ DOMAIN Append(resend, e) = 1..(Len(resend) + 1)
      /\ \A k \in DOMAIN resend : Append(resend, e)[k] = resend[k]
      /\ Append(resend, e)[Len(resend) + 1] = e
  BY <1>1, <1>2
<1> QED BY <1>3 DEF Enqueue, e

\* The steps of the client's sending side.
LEMMA SendIds ==
  ASSUME Types, IdInv,
         \/ \E kind \in OwnKinds : Send(kind) \/ SendRefused(kind)
         \/ SendCopyFails
  PROVE  IdStep
<1>1. Build /\ left'.own = left.own - 1
  BY AllowanceStep DEF Send, SendRefused, SendCopyFails
<1>2. NewMessageId \in Ids
  BY <1>1, GivesOut DEF Build
<1>3. ASSUME NEW kind \in OwnKinds, resend' = Enqueue(kind)
      PROVE  ResendIds' \subseteq ResendIds \cup {NewMessageId}
  <2>1. /\ Len(Enqueue(kind)) = Len(resend) + 1
        /\ DOMAIN Enqueue(kind) = 1..(Len(resend) + 1)
        /\ \A k \in DOMAIN resend : Enqueue(kind)[k] = resend[k]
        /\ Enqueue(kind)[Len(resend) + 1] = [id |-> NewMessageId, kind |-> kind, count |-> 0]
    BY <1>2, EnqueueFacts
  <2>2. Len(resend) \in Nat /\ DOMAIN resend = 1..Len(resend)
    BY DEF Types
  <2>3. \A k \in DOMAIN resend' : k \in DOMAIN resend \/ k = Len(resend) + 1
    BY <1>3, <2>1, <2>2
  <2> QED BY <1>3, <2>1, <2>3 DEF ResendIds
<1>4. ASSUME NEW kind \in OwnKinds, Send(kind) PROVE IdStep
  <2>1. \A m \in toServer' : m \in toServer \/ m.id = NewMessageId
    BY <1>4 DEF Send, Msg
  <2>2. ResendIds' \subseteq ResendIds \cup {NewMessageId}
    BY <1>3, <1>4 DEF Send
  <2> QED BY <1>1, <2>1, <2>2, BuildIds
<1>5. ASSUME NEW kind \in OwnKinds, SendRefused(kind) PROVE IdStep
  <2>1. toServer' = toServer /\ ResendIds' = ResendIds
    BY <1>5 DEF SendRefused, ResendIds
  <2> QED BY <1>1, <2>1, BuildIds
<1>6. CASE SendCopyFails
  <2>1. toServer' = toServer
    BY <1>6 DEF SendCopyFails
  <2>2. "req" \in OwnKinds
    BY DEF OwnKinds
  <2>3. ResendIds' \subseteq ResendIds \cup {NewMessageId}
    BY <1>3, <1>6, <2>2 DEF SendCopyFails
  <2> QED BY <1>1, <2>1, <2>3, BuildIds
<1> QED BY <1>4, <1>5, <1>6

\* The steps that drop messages or retransmit them.
LEMMA ListIds ==
  ASSUME Types, UniqueResend,
         \/ ClearAll
         \/ \E id \in Ids : CancelByToken(id)
         \/ Exec
  PROVE  IdStep
<1> DEFINE Same == UNCHANGED <<messageId, srv, left.own, toClient, accepted, heard>>
<1>0. ASSUME Same, ResendIds' \subseteq ResendIds, \A m \in toServer' : m \in toServer \/ m.id \in ResendIds
      PROVE  IdStep
  <2>1. UNCHANGED <<messageId, srv, accepted>> /\ left'.own = left.own /\ heard' = heard
        /\ toClient' = toClient
    BY <1>0
  <2> QED BY <1>0, <2>1, QuietIds
<1>1. CASE ClearAll
  <2>1. Same /\ toServer' = toServer /\ resend' = <<>>
    BY <1>1 DEF ClearAll
  <2>2. Shortened(resend', resend)
    BY <2>1, Drops
  <2> HIDE DEF Same
  <2> QED BY <1>0, <2>1, <2>2, ShortenedIds
<1>2. ASSUME NEW id \in Ids, CancelByToken(id) PROVE IdStep
  <2>1. Same /\ toServer' = toServer /\ resend' = WithoutResend(id)
    BY <1>2 DEF CancelByToken
  <2>2. Shortened(resend', resend)
    BY <2>1, Drops
  <2> HIDE DEF Same
  <2> QED BY <1>0, <2>1, <2>2, ShortenedIds
<1>3. ASSUME NEW k \in DOMAIN resend, ExecResend(k) PROVE IdStep
  <2>1. Same
    BY <1>3, AllowanceStep DEF ExecResend
  <2>2. CASE /\ resend' = [resend EXCEPT ![k].count = @ + 1]
             /\ toServer' = toServer \cup {Msg("CON", resend[k].id, resend[k].kind, 0)}
    <3>1. \A m \in toServer' : m \in toServer \/ m.id \in ResendIds
      BY <2>2 DEF Msg, ResendIds
    <3>2. DOMAIN resend' = DOMAIN resend /\ \A j \in DOMAIN resend : resend'[j].id = resend[j].id
      <4>1. resend \in Seq(ResendEntry)
        BY DEF Types
      <4>2. \A j \in DOMAIN resend : resend[j] \in ResendEntry
        BY <4>1
      <4> QED BY <2>2, <4>2 DEF ResendEntry
    <3>3. ResendIds' \subseteq ResendIds
      BY <3>2 DEF ResendIds
    <3> HIDE DEF Same
    <3> QED BY <1>0, <2>1, <3>1, <3>3
  <2>3. CASE resend' = RemoveAt(resend, k) /\ toServer' = toServer
    <3>1. Shortened(resend', resend)
      BY <2>3, DropAt DEF Types, UniqueResend
    <3> HIDE DEF Same
    <3> QED BY <1>0, <2>1, <2>3, <3>1, ShortenedIds
  <2> QED BY <1>3, <2>2, <2>3 DEF ExecResend
<1>4. ASSUME NEW id \in copies, ExecCopyTimeout(id) PROVE IdStep
  <2>1. Same /\ toServer' = toServer /\ resend' = WithoutResend(id)
    BY <1>4 DEF ExecCopyTimeout
  <2>2. Shortened(resend', resend)
    BY <2>1, Drops
  <2> HIDE DEF Same
  <2> QED BY <1>0, <2>1, <2>2, ShortenedIds
<1>5. CASE ExecPayloadTimeout
  <2>1. Same /\ toServer' = toServer /\ resend' = resend
    BY <1>5 DEF ExecPayloadTimeout
  <2>2. ResendIds' = ResendIds
    BY <2>1 DEF ResendIds
  <2> HIDE DEF Same
  <2> QED BY <1>0, <2>1, <2>2
<1>6. CASE ExecForget
  <2>1. /\ UNCHANGED <<messageId, srv, left, heard, resend, accepted>>
        /\ toClient' \subseteq toClient /\ toServer' \subseteq toServer
    BY <1>6 DEF ExecForget, history
  <2>2. ResendIds' = ResendIds
    BY <2>1 DEF ResendIds
  <2> QED BY <2>1, <2>2, QuietIds
<1> HIDE DEF Same
<1> QED BY <1>1, <1>2, <1>3, <1>4, <1>5, <1>6 DEF Exec

\* The handlers of a message that is not a duplicate do not touch the list
\* of retransmissions, except to drop the message that is answered.
LEMMA HandlerResend ==
  ASSUME Types, UniqueResend, NEW m \in toClient,
         ReceiveRequest(m) \/ ReceiveResponse(m) \/ ReceiveBlock(m) \/ ReceiveLastBlock(m)
  PROVE  /\ \/ resend' = resend /\ heard' = heard /\ ~Answering(m)
            \/ resend' = WithoutResend(m.id) /\ heard' = heard \cup {m.id} /\ Answering(m)
         /\ Shortened(resend', resend)
<1>1. \/ resend' = resend /\ heard' = heard /\ ~Answering(m)
      \/ resend' = WithoutResend(m.id) /\ heard' = heard \cup {m.id} /\ Answering(m)
  <2>1. Deduplicated(m) /\ (m.type \in {"ACK", "RST"} => m.code \in {"resp", "empty"})
    BY DEF Types, IsSrvMsg, ReceiveRequest, ReceiveResponse, ReceiveBlock, ReceiveLastBlock, AcceptsNew
  <2>2. m.type = "ACK" => m.code = "resp"
    BY <2>1 DEF Deduplicated
  <2>3. m.type # "RST"
    BY <2>1 DEF Deduplicated
  <2> QED BY <2>2, <2>3
          DEF Answering, ReceiveRequest, ReceiveResponse, ReceiveBlock, ReceiveLastBlock
<1> QED BY <1>1, Drops

\* The handlers of a message that is not a duplicate.
LEMMA HandlerAccepts ==
  ASSUME Types, NEW m \in toClient,
         ReceiveRequest(m) \/ ReceiveResponse(m) \/ ReceiveBlock(m) \/ ReceiveLastBlock(m)
  PROVE  \E a : Accepting(m, a)
BY RequestAccepts, ResponseAccepts, BlockAccepts, LastBlockAccepts

\* The steps in which a message is received.
LEMMA ReceiveIds ==
  ASSUME Types, UniqueResend, NEW m \in toClient, Receive(m)
  PROVE  IdStep
<1>2. CASE ReceiveRequest(m) \/ ReceiveResponse(m) \/ ReceiveBlock(m) \/ ReceiveLastBlock(m)
  <2>1. PICK a : Accepting(m, a)
    BY <1>2, HandlerAccepts
  <2>2. /\ Shortened(resend', resend)
        /\ \/ heard' = heard /\ ~Answering(m)
           \/ heard' = heard \cup {m.id} /\ Answering(m)
    BY <1>2, HandlerResend
  <2>3. ResendIds' \subseteq ResendIds
    BY <2>2, ShortenedIds
  <2> QED BY <2>1, <2>2, <2>3, AcceptingIds
<1>3. CASE ReceivePing(m)
  <2>1. /\ UNCHANGED <<messageId, resend, toClient, srv, left, heard, accepted>>
        /\ toServer' = toServer \cup {Msg("RST", m.id, "empty", 0)}
    BY <1>3 DEF ReceivePing, coap, history
  <2>2. ResendIds' = ResendIds
    BY <2>1 DEF ResendIds
  <2>3. \A x \in toServer' : x \in toServer \/ Answering(x)
    BY <2>1 DEF Answering, Msg
  <2> QED BY <2>1, <2>2, <2>3, QuietIds
<1>4. CASE ReceiveDuplicate(m)
  <2>1. UNCHANGED <<messageId, resend, toClient, srv, left, heard, accepted>>
    BY <1>4 DEF ReceiveDuplicate, coap, history
  <2>2. ResendIds' = ResendIds
    BY <2>1 DEF ResendIds
  <2>3. \A x \in toServer' :
          \/ x \in toServer
          \/ \E k \in DOMAIN dups : dups[k].id = m.id /\ dups[k].answer # NoAnswer /\ x = dups[k].answer
    BY <1>4 DEF ReceiveDuplicate
  <2>4. \A k \in DOMAIN dups : dups[k].answer # NoAnswer => Answering(dups[k].answer)
    <3>1. \A k \in DOMAIN dups : dups[k] \in DupEntry
      BY DEF Types
    <3> QED BY <3>1 DEF DupEntry, AnswerSet, Answering
  <2>5. \A x \in toServer' : x \in toServer \/ Answering(x)
    BY <2>3, <2>4
  <2> QED BY <2>1, <2>2, <2>5, QuietIds
<1>5. CASE ReceiveEmpty(m)
  <2>1. /\ UNCHANGED <<messageId, toClient, toServer, srv, left, accepted>>
        /\ heard' = heard \cup {m.id} /\ resend' = WithoutResend(m.id)
        /\ ~Deduplicated(m) /\ ~Ping(m)
    BY <1>5 DEF ReceiveEmpty
  <2>2. Shortened(resend', resend)
    BY <2>1, Drops
  <2>3. ResendIds' \subseteq ResendIds
    BY <2>2, ShortenedIds
  <2>4. Answering(m)
    <3>1. m.type \in {"CON", "NON", "ACK", "RST"}
      BY DEF Types, IsSrvMsg, SrvMsgs
    <3> QED BY <2>1, <3>1 DEF Deduplicated, Answering
  <2>5. m.id \in OwnLive
    BY <2>4 DEF OwnLive
  <2> QED BY <2>1, <2>3, <2>5, QuietIds
<1> QED BY <1>2, <1>3, <1>4, <1>5 DEF Receive

\* The steps of the server.
LEMMA SrvIds ==
  ASSUME Types, Server
  PROVE  IdStep
<1>1. ASSUME NEW code \in {"req", "empty"}, SrvRequest(code) PROVE IdStep
  <2>1. UNCHANGED <<coap, toServer, heard, accepted>> /\ SrvId <= SrvTop
    BY <1>1 DEF SrvRequest, history
  <2>2. left'.own = left.own
    BY <1>1, AllowanceStep DEF SrvRequest
  <2>3. srv'.last = SrvId
    BY <1>1 DEF SrvRequest, Types, ServerState
  <2>4. \A m \in toClient' : m \in toClient \/ (~Answering(m) /\ m.id = SrvId)
    BY <1>1 DEF SrvRequest, Msg, Answering
  <2> QED BY <2>1, <2>2, <2>3, <2>4, ServerIds
<1>2. CASE SrvBlock
  <2>1. UNCHANGED <<coap, toServer, heard, accepted, left>> /\ SrvId <= SrvTop
    BY <1>2 DEF SrvBlock, history
  <2>2. left'.own = left.own
    BY <2>1
  <2>3. srv'.last = SrvId
    BY <1>2 DEF SrvBlock, Types, ServerState
  <2>4. \A m \in toClient' : m \in toClient \/ (~Answering(m) /\ m.id = SrvId)
    BY <1>2 DEF SrvBlock, Msg, Answering
  <2> QED BY <2>1, <2>2, <2>3, <2>4, ServerIds
<1>3. ASSUME NEW m \in toServer, NEW r \in DOMAIN SrvReplies, SrvReply(m, r) PROVE IdStep
  <2>1. UNCHANGED <<coap, toServer, heard, accepted, left>>
    BY <1>3 DEF SrvReply, history
  <2>2. left'.own = left.own
    BY <2>1
  <2>3. UNCHANGED srv.last
    BY <1>3 DEF SrvReply, Types, ServerState
  <2>4. ~Answering(m)
    BY <1>3 DEF SrvReply, Answering
  <2>5. \A x \in toClient' :
          x \in toClient \/ (Answering(x) /\ \E y \in toServer : ~Answering(y) /\ y.id = x.id)
    BY <1>3, <2>4 DEF SrvReply, Msg, Answering
  <2> QED BY <2>1, <2>2, <2>3, <2>5, ServerIds
<1>4. ASSUME NEW id \in Ids, NEW type \in {"CON", "NON"}, SrvRespond(id, type) PROVE IdStep
  <2>1. UNCHANGED <<coap, toServer, heard, accepted, left>> /\ SrvId <= SrvTop
    BY <1>4 DEF SrvRespond, history
  <2>2. left'.own = left.own
    BY <2>1
  <2>3. srv'.last = SrvId
    BY <1>4 DEF SrvRespond, Types, ServerState
  <2>4. \A m \in toClient' : m \in toClient \/ (~Answering(m) /\ m.id = SrvId)
    BY <1>4 DEF SrvRespond, Msg, Answering
  <2> QED BY <2>1, <2>2, <2>3, <2>4, ServerIds
<1> QED BY <1>1, <1>2, <1>3, <1>4 DEF Server

\* Every step.
LEMMA StepIds ==
  ASSUME Types, IdInv, ListInv, [Next]_vars
  PROVE  IdStep
<1>1. UniqueResend
  BY DEF ListInv, UniqueResend
<1>2. CASE UNCHANGED vars
  <2>1. UNCHANGED <<messageId, resend, toClient, toServer, srv, left, heard, accepted>>
    BY <1>2 DEF vars, coap, history
  <2>2. ResendIds' = ResendIds
    BY <2>1 DEF ResendIds
  <2> QED BY <2>1, <2>2, QuietIds
<1>3. CASE Next
  BY <1>1, <1>3, SendIds, ListIds, ReceiveIds, SrvIds DEF Next, ClientSends
<1> QED BY <1>2, <1>3

-----------------------------------------------------------------------------
(***************************************************************************)
(* The retransmission list                                                 *)
(***************************************************************************)

\* The part of ListInv about the retransmission list.
ResendInv ==
    /\ UniqueResend
    /\ \A k \in DOMAIN resend : /\ resend[k].id \notin heard
                                /\ sends[resend[k].id] <= resend[k].count + 1
    /\ \A id \in Fresh : sends[id] = 0

\* The part of Types about it.
ResendTypes ==
    /\ resend \in Seq(ResendEntry) /\ Len(resend) <= QueueMsgs
    /\ sends \in [Ids -> 0..(ResendCount + 1)]

\* Messages leave the list.
LEMMA ResendShortened ==
  ASSUME Types, ResendInv, Shortened(resend', resend), sends' = sends,
         Fresh' \subseteq Fresh,
         \A k \in DOMAIN resend' : resend'[k].id \notin heard'
  PROVE  ResendInv' /\ ResendTypes'
<1>1. UniqueResend'
  BY DEF UniqueResend, Shortened
<1>2. \A k \in DOMAIN resend' : sends'[resend'[k].id] <= resend'[k].count + 1
  BY DEF Shortened, ResendInv
<1>3. \A id \in Fresh' : sends'[id] = 0
  BY DEF ResendInv
<1>4. ResendTypes'
  <2>1. /\ Len(resend') \in Nat /\ Len(resend) \in Nat /\ Len(resend') <= Len(resend)
        /\ Len(resend) <= QueueMsgs /\ QueueMsgs \in Nat
    BY CoapAssumption DEF Types, Shortened
  <2>2. Len(resend') <= QueueMsgs
    BY ONLY <2>1
  <2> QED BY <2>2 DEF ResendTypes, Types, Shortened
<1> QED BY <1>1, <1>2, <1>3, <1>4 DEF ResendInv

\* A message enters the list.
LEMMA ResendEnqueued ==
  ASSUME Types, IdInv, ResendInv, NEW kind \in OwnKinds, resend' = Enqueue(kind), ~QueueFull,
         NewMessageId \in Ids, NewMessageId \in Fresh \ Fresh', Fresh' \subseteq Fresh, heard' = heard,
         \/ sends' = sends
         \/ sends' = [sends EXCEPT ![NewMessageId] = @ + 1]
  PROVE  ResendInv' /\ ResendTypes'
<1> DEFINE new == NewMessageId
           n == Len(resend)
<1>1. /\ Enqueue(kind) \in Seq(ResendEntry)
      /\ Len(Enqueue(kind)) = n + 1
      /\ DOMAIN Enqueue(kind) = 1..(n + 1)
      /\ \A k \in DOMAIN resend : Enqueue(kind)[k] = resend[k]
      /\ Enqueue(kind)[n + 1] = [id |-> new, kind |-> kind, count |-> 0]
  BY EnqueueFacts
<1>2. n \in Nat /\ DOMAIN resend = 1..n /\ n < QueueMsgs /\ QueueMsgs \in Nat
  BY CoapAssumption DEF Types, QueueFull
<1>3. resend'[n + 1].id = new /\ resend'[n + 1].count = 0
  BY <1>1
<1>4. \A k \in DOMAIN resend' : (k \in DOMAIN resend /\ resend'[k] = resend[k]) \/ k = n + 1
  BY <1>1, <1>2
<1>5. sends \in [Ids -> 0..(ResendCount + 1)] /\ ResendCount \in Nat \ {0}
  BY CoapAssumption DEF Types
<1>6. sends[new] = 0
  BY DEF ResendInv
<1>7. \A k \in DOMAIN resend : resend[k].id # new
  BY DEF IdInv, OwnLive, ResendIds
<1>8. /\ sends' \in [Ids -> 0..(ResendCount + 1)] /\ sends'[new] <= 1
      /\ \A id \in Ids : id # new => sends'[id] = sends[id]
  <2>1. CASE sends' = sends
    BY <1>5, <1>6, <2>1
  <2>2. CASE sends' = [sends EXCEPT ![new] = @ + 1]
    <3>1. sends'[new] = 1
      BY <1>5, <1>6, <2>2
    <3>2. 1 \in 0..(ResendCount + 1)
      BY <1>5
    <3> QED BY <1>5, <2>2, <3>1, <3>2
  <2> QED BY <2>1, <2>2
<1> HIDE DEF new
<1>9. UniqueResend'
  BY <1>3, <1>4, <1>7 DEF UniqueResend, ResendInv
<1>10. ASSUME NEW k \in DOMAIN resend'
       PROVE  resend'[k].id \notin heard' /\ sends'[resend'[k].id] <= resend'[k].count + 1
  <2>1. CASE k \in DOMAIN resend /\ resend'[k] = resend[k]
    <3>1. resend[k].id \in Ids
      <4>1. resend \in Seq(ResendEntry)
        BY DEF Types
      <4>2. resend[k] \in ResendEntry
        BY ONLY <2>1, <4>1
      <4> QED BY <4>2 DEF ResendEntry
    <3> QED BY <1>7, <1>8, <2>1, <3>1 DEF ResendInv
  <2>2. CASE k = n + 1
    BY <1>3, <1>8, <2>2 DEF IdInv, new
  <2> QED BY <1>4, <2>1, <2>2
<1>11. ASSUME NEW id \in Fresh' PROVE sends'[id] = 0
  <2>1. id \in Ids /\ id # new
    BY ToCome DEF new
  <2> QED BY <1>8, <2>1 DEF ResendInv
<1>12. ResendTypes'
  <2>1. Len(resend') <= QueueMsgs
    BY <1>1, <1>2
  <2> QED BY <1>1, <1>8, <2>1 DEF ResendTypes
<1> QED BY <1>9, <1>10, <1>11, <1>12 DEF ResendInv

\* A message is transmitted again.
LEMMA ResendCounted ==
  ASSUME Types, IdInv, ResendInv, NEW k \in DOMAIN resend, ~GivesUp(resend[k]),
         resend' = [resend EXCEPT ![k].count = @ + 1],
         sends' = [sends EXCEPT ![resend[k].id] = @ + 1],
         Fresh' \subseteq Fresh, heard' = heard
  PROVE  ResendInv' /\ ResendTypes'
<1>1. resend \in Seq(ResendEntry) /\ DOMAIN resend = 1..Len(resend) /\ Len(resend) \in Nat
  BY DEF Types
<1>2. \A j \in DOMAIN resend : resend[j] \in ResendEntry
  BY <1>1
<1>3. ResendCount \in Nat /\ sends \in [Ids -> 0..(ResendCount + 1)]
  BY CoapAssumption DEF Types
<1> DEFINE id == resend[k].id
           c == resend[k].count
<1>4. id \in Ids /\ c \in 0..ResendCount /\ c + 1 <= ResendCount
  BY <1>2, <1>3 DEF ResendEntry, GivesUp
<1>5. c + 1 \in 0..ResendCount
  BY <1>3, <1>4
<1>6. sends[id] \in Nat /\ sends[id] <= c + 1
  BY <1>3, <1>4 DEF ResendInv
<1>7. /\ DOMAIN resend' = DOMAIN resend
      /\ \A j \in DOMAIN resend : j # k => resend'[j] = resend[j]
      /\ resend'[k] = [resend[k] EXCEPT !.count = c + 1]
  BY <1>1
<1>8. resend'[k] \in ResendEntry /\ resend'[k].id = id /\ resend'[k].count = c + 1
  BY <1>2, <1>5, <1>7 DEF ResendEntry
<1>9. resend' \in Seq(ResendEntry) /\ Len(resend') = Len(resend)
  <2>1. resend' \in [1..Len(resend) -> ResendEntry]
    <3>1. resend' = [j \in 1..Len(resend) |-> resend'[j]]
      BY <1>1
    <3>2. \A j \in 1..Len(resend) : resend'[j] \in ResendEntry
      BY <1>1, <1>2, <1>7, <1>8
    <3> QED BY <3>1, <3>2
  <2> QED BY <1>1, <2>1, IsASeq, LenProperties
<1>10. /\ sends'[id] = sends[id] + 1
       /\ \A i \in Ids : i # id => sends'[i] = sends[i]
       /\ sends' \in [Ids -> 0..(ResendCount + 1)]
  <2>1. sends'[id] = sends[id] + 1 /\ sends[id] + 1 \in 0..(ResendCount + 1)
    <3>1. sends[id] + 1 \in 0..(ResendCount + 1)
      BY ONLY <1>3, <1>4, <1>6
    <3> QED BY <1>3, <1>4, <3>1
  <2> QED BY <1>3, <1>4, <2>1
<1> HIDE DEF id, c
<1>11. UniqueResend'
  <2>1. \A j \in DOMAIN resend : resend'[j].id = resend[j].id
    BY <1>7, <1>8 DEF id
  <2> QED BY <1>7, <2>1 DEF UniqueResend, ResendInv
<1>12. ASSUME NEW j \in DOMAIN resend'
       PROVE  resend'[j].id \notin heard' /\ sends'[resend'[j].id] <= resend'[j].count + 1
  <2>1. CASE j = k
    <3>1. sends[id] + 1 <= (c + 1) + 1
      BY <1>4, <1>6
    <3> QED BY <1>8, <1>10, <2>1, <3>1 DEF ResendInv, id
  <2>2. CASE j # k
    <3>1. j \in DOMAIN resend /\ resend'[j] = resend[j] /\ resend[j].id \in Ids
      BY <1>2, <1>7, <2>2 DEF ResendEntry
    <3>2. resend[j].id # id
      BY <2>2, <3>1 DEF ResendInv, UniqueResend, id
    <3> QED BY <1>10, <3>1, <3>2 DEF ResendInv
  <2> QED BY <2>1, <2>2
<1>13. ASSUME NEW i \in Fresh' PROVE sends'[i] = 0
  <2>1. i \in Ids /\ sends[i] = 0
    BY ToCome DEF ResendInv
  <2>2. i # id
    BY DEF IdInv, OwnLive, ResendIds, id
  <2> QED BY <1>10, <2>1, <2>2
<1>14. ResendTypes'
  BY <1>9, <1>10 DEF ResendTypes, Types
<1> QED BY <1>11, <1>12, <1>13, <1>14 DEF ResendInv

\* The list without a message of which an answer came.
LEMMA ResendAnswered ==
  ASSUME Types, ResendInv, NEW id, resend' = WithoutResend(id),
         heard' \subseteq heard \cup {id}, sends' = sends, Fresh' \subseteq Fresh
  PROVE  ResendInv' /\ ResendTypes'
<1>1. /\ Shortened(WithoutResend(id), resend)
      /\ \A j \in DOMAIN WithoutResend(id) : WithoutResend(id)[j].id # id
  BY DropId DEF Types, ResendInv, UniqueResend
<1>2. \A k \in DOMAIN resend' : resend'[k].id \notin heard'
  <2>1. \A k \in DOMAIN resend' : resend'[k].id \notin heard
    BY <1>1 DEF Shortened, ResendInv
  <2> QED BY <1>1, <2>1
<1> QED BY <1>1, <1>2, ResendShortened

\* Steps that leave the list alone.
LEMMA ResendSame ==
  ASSUME Types, ResendInv, UNCHANGED <<resend, sends, heard>>, Fresh' \subseteq Fresh
  PROVE  ResendInv' /\ ResendTypes'
<1>1. Shortened(resend', resend)
  <2>1. Shortened(resend, resend)
    BY Drops DEF ResendInv
  <2> QED BY <2>1
<1>2. \A k \in DOMAIN resend' : resend'[k].id \notin heard'
  BY DEF ResendInv
<1> QED BY <1>1, <1>2, ResendShortened

\* Every step keeps the list as it should be.
LEMMA ResendStep ==
  ASSUME Types, IdInv, ResendInv, [Next]_vars, IdStep
  PROVE  ResendInv' /\ ResendTypes'
<1>0. Fresh' \subseteq Fresh /\ UniqueResend
  BY DEF IdStep, ResendInv
<1>1. ASSUME NEW kind \in OwnKinds, Send(kind) PROVE ResendInv' /\ ResendTypes'
  <2>1. NewMessageId \in Ids /\ NewMessageId \in Fresh \ Fresh'
    BY <1>1, GivesOut, AllowanceStep DEF Send, Build
  <2>2. /\ resend' = Enqueue(kind) /\ ~QueueFull /\ heard' = heard
        /\ sends' = [sends EXCEPT ![NewMessageId] = @ + 1]
    BY <1>1 DEF Send, Build
  <2> QED BY <1>0, <2>1, <2>2, ResendEnqueued
<1>2. ASSUME NEW kind \in OwnKinds, SendRefused(kind) PROVE ResendInv' /\ ResendTypes'
  BY <1>0, <1>2, ResendSame DEF SendRefused, Build
<1>3. CASE SendCopyFails
  <2>1. NewMessageId \in Ids /\ NewMessageId \in Fresh \ Fresh'
    BY <1>3, GivesOut, AllowanceStep DEF SendCopyFails, Build
  <2>2. /\ resend' = Enqueue("req") /\ ~QueueFull /\ heard' = heard
        /\ sends' = sends /\ "req" \in OwnKinds
    BY <1>3 DEF SendCopyFails, Build, OwnKinds
  <2> QED BY <1>0, <2>1, <2>2, ResendEnqueued
<1>4. CASE ClearAll
  <2>1. resend' = <<>> /\ sends' = sends
    BY <1>4 DEF ClearAll
  <2>2. Shortened(resend', resend) /\ DOMAIN resend' = {}
    BY <1>0, <2>1, Drops
  <2> QED BY <1>0, <2>1, <2>2, ResendShortened
<1>5. ASSUME NEW id \in Ids, CancelByToken(id) PROVE ResendInv' /\ ResendTypes'
  BY <1>0, <1>5, ResendAnswered DEF CancelByToken
<1>6. ASSUME NEW k \in DOMAIN resend, ExecResend(k) PROVE ResendInv' /\ ResendTypes'
  <2>1. CASE ~GivesUp(resend[k])
    <3>1. /\ resend' = [resend EXCEPT ![k].count = @ + 1]
          /\ sends' = [sends EXCEPT ![resend[k].id] = @ + 1]
          /\ heard' = heard
      BY <1>6, <2>1 DEF ExecResend
    <3> QED BY <1>0, <2>1, <3>1, ResendCounted
  <2>2. CASE GivesUp(resend[k])
    <3>1. resend' = RemoveAt(resend, k) /\ sends' = sends /\ heard' = heard
      BY <1>6, <2>2 DEF ExecResend
    <3>2. Shortened(resend', resend)
      BY <1>0, <3>1, DropAt DEF Types, UniqueResend
    <3>3. \A j \in DOMAIN resend' : resend'[j].id \notin heard'
      BY <3>1, <3>2 DEF Shortened, ResendInv
    <3> QED BY <1>0, <3>1, <3>2, <3>3, ResendShortened
  <2> QED BY <2>1, <2>2
<1>7. ASSUME NEW id \in copies, ExecCopyTimeout(id) PROVE ResendInv' /\ ResendTypes'
  BY <1>0, <1>7, ResendAnswered DEF ExecCopyTimeout
<1>8. CASE ExecPayloadTimeout
  BY <1>0, <1>8, ResendSame DEF ExecPayloadTimeout
<1>9. CASE ExecForget
  BY <1>0, <1>9, ResendSame DEF ExecForget, history
<1>10. ASSUME NEW m \in toClient, Receive(m) PROVE ResendInv' /\ ResendTypes'
  <2>1. CASE ReceivePing(m) \/ ReceiveDuplicate(m)
    BY <1>0, <2>1, ResendSame DEF ReceivePing, ReceiveDuplicate, coap, history
  <2>2. CASE ReceiveEmpty(m)
    BY <1>0, <2>2, ResendAnswered DEF ReceiveEmpty
  <2>3. CASE ReceiveRequest(m) \/ ReceiveResponse(m) \/ ReceiveBlock(m) \/ ReceiveLastBlock(m)
    <3>1. sends' = sends
      BY <2>3 DEF ReceiveRequest, ReceiveResponse, ReceiveBlock, ReceiveLastBlock, AcceptsNew
    <3>2. \/ resend' = resend /\ heard' = heard
          \/ resend' = WithoutResend(m.id) /\ heard' = heard \cup {m.id}
      BY <1>0, <2>3, HandlerResend
    <3> QED BY <1>0, <3>1, <3>2, ResendSame, ResendAnswered
  <2> QED BY <1>10, <2>1, <2>2, <2>3 DEF Receive
<1>11. CASE Server
  <2>1. UNCHANGED <<resend, sends, heard>>
    BY <1>11 DEF Server, SrvRequest, SrvBlock, SrvReply, SrvRespond, coap, history
  <2> QED BY <1>0, <2>1, ResendSame
<1>12. CASE UNCHANGED vars
  BY <1>0, <1>12, ResendSame DEF vars, coap, history
<1> QED BY <1>1, <1>2, <1>3, <1>4, <1>5, <1>6, <1>7, <1>8, <1>9, <1>10, <1>11, <1>12
        DEF Next, ClientSends, Exec

-----------------------------------------------------------------------------
(***************************************************************************)
(* The duplicate list                                                      *)
(***************************************************************************)

\* The part of ListInv about the duplicate list.
DupsInv ==
    /\ \A j, k \in DOMAIN dups : dups[j].id = dups[k].id => j = k
    /\ \A k \in DOMAIN dups : dups[k].answer = NoAnswer \/ dups[k].answer.id = dups[k].id

DupTypes == dups \in Seq(DupEntry) /\ Len(dups) <= DupSize

\* A message is entered.
LEMMA DupsEntered ==
  ASSUME Types, DupsInv, NEW m, NEW a, Accepting(m, a)
  PROVE  DupsInv' /\ DupTypes'
<1>1. PICK s : Entered(dups', m, s, {a})
  BY DEF Accepting
<1>2. s \in {0, 1} /\ dups \in Seq(DupEntry) /\ Len(dups) \in Nat /\ DOMAIN dups = 1..Len(dups)
  BY <1>1 DEF Types, Entered
<1>3. DupTypes'
  BY <1>1 DEF DupTypes, Entered
<1>4. DOMAIN dups' = 1..Len(dups') /\ Len(dups') \in Nat
  BY <1>3 DEF DupTypes
<1>5. m.id \notin DupIds /\ a.id = m.id
  BY DEF Accepting
<1>6. \A k \in DOMAIN dups' :
         \/ /\ k + s \in DOMAIN dups /\ dups'[k].id = dups[k + s].id
            /\ dups'[k].answer = dups[k + s].answer
         \/ /\ k = Len(dups) - s + 1 /\ dups'[k].id = m.id
            /\ dups'[k].answer \in {NoAnswer} \cup {a}
  BY <1>1 DEF Entered, EntryOf
<1>7. \A j, k \in DOMAIN dups' : j + s = k + s => j = k
  BY <1>2, <1>4
<1>8. \A k \in DOMAIN dups : dups[k].id # m.id
  BY <1>5 DEF DupIds
<1>9. \A j, k \in DOMAIN dups' : dups'[j].id = dups'[k].id => j = k
  BY <1>6, <1>7, <1>8 DEF DupsInv
<1>10. \A k \in DOMAIN dups' : dups'[k].answer = NoAnswer \/ dups'[k].answer.id = dups'[k].id
  BY <1>5, <1>6 DEF DupsInv
<1> QED BY <1>3, <1>9, <1>10 DEF DupsInv

\* The oldest entry is forgotten.
LEMMA ForgetFacts ==
  ASSUME Types, ExecForget
  PROVE  /\ dups' \in Seq(DupEntry) /\ Len(dups') = Len(dups) - 1 /\ Len(dups) \in Nat /\ Len(dups) > 0
         /\ DOMAIN dups = 1..Len(dups) /\ DOMAIN dups' = 1..(Len(dups) - 1)
         /\ \A k \in DOMAIN dups' : k + 1 \in DOMAIN dups /\ dups'[k] = dups[k + 1]
         /\ toClient' = {m \in toClient : m.id # dups[1].id \/ Answering(m) # dups[1].own}
         /\ toServer' = {m \in toServer : m.id # dups[1].id \/ Answering(m) = dups[1].own}
         /\ UNCHANGED <<accepted, lapses>>
<1>1. dups \in Seq(DupEntry) /\ dups # <<>> /\ dups' = Tail(dups)
  BY DEF Types, ExecForget
<1>2. /\ dups' \in Seq(DupEntry) /\ Len(dups') = Len(dups) - 1 /\ Len(dups) \in Nat /\ Len(dups) > 0
      /\ DOMAIN dups = 1..Len(dups) /\ DOMAIN dups' = 1..(Len(dups) - 1)
      /\ \A k \in 1..(Len(dups) - 1) : dups'[k] = dups[k + 1]
  BY <1>1
<1>3. \A k \in DOMAIN dups' : k + 1 \in DOMAIN dups /\ dups'[k] = dups[k + 1]
  BY <1>2
<1>4. Head(dups) = dups[1] /\ 1 \in DOMAIN dups
  BY <1>1, <1>2
<1>5. /\ toClient' = {m \in toClient : m.id # dups[1].id \/ Answering(m) # dups[1].own}
      /\ toServer' = {m \in toServer : m.id # dups[1].id \/ Answering(m) = dups[1].own}
      /\ UNCHANGED <<accepted, lapses>>
  BY <1>4 DEF ExecForget, history
<1> QED BY <1>2, <1>3, <1>5

\* The list without it.
LEMMA DupsForgotten ==
  ASSUME Types, DupsInv, ExecForget
  PROVE  DupsInv' /\ DupTypes'
<1>1. /\ dups' \in Seq(DupEntry) /\ Len(dups') = Len(dups) - 1 /\ Len(dups) \in Nat
      /\ DOMAIN dups' = 1..(Len(dups) - 1)
      /\ \A k \in DOMAIN dups' : k + 1 \in DOMAIN dups /\ dups'[k] = dups[k + 1]
  BY ForgetFacts
<1>2. DupSize \in Nat /\ Len(dups) <= DupSize
  BY CoapAssumption DEF Types
<1>3. DupTypes'
  BY <1>1, <1>2 DEF DupTypes
<1>4. \A j, k \in DOMAIN dups' : j + 1 = k + 1 => j = k
  BY <1>1
<1> QED BY <1>1, <1>3, <1>4 DEF DupsInv

\* Which steps change the list, and what was accepted, and how.
LEMMA DupCases ==
  ASSUME Types, [Next]_vars
  PROVE  \/ UNCHANGED <<dups, accepted>> /\ lapses \subseteq lapses'
         \/ ExecForget
         \/ \E m \in toClient : \E a : Accepting(m, a)
<1>1. CASE \E m \in toClient :
             ReceiveRequest(m) \/ ReceiveResponse(m) \/ ReceiveBlock(m) \/ ReceiveLastBlock(m)
  BY <1>1, HandlerAccepts
<1>2. CASE ClientSends
  BY <1>2 DEF ClientSends, Send, SendRefused, SendCopyFails, Build, ClearAll, CancelByToken, Lapse
<1>3. CASE Exec
  BY <1>3 DEF Exec, ExecResend, ExecCopyTimeout, ExecPayloadTimeout, Lapse
<1>4. CASE \E m \in toClient : ReceivePing(m) \/ ReceiveDuplicate(m) \/ ReceiveEmpty(m)
  BY <1>4 DEF ReceivePing, ReceiveDuplicate, ReceiveEmpty, coap, history
<1>5. CASE Server
  BY <1>5 DEF Server, SrvRequest, SrvBlock, SrvReply, SrvRespond, coap, history
<1>6. CASE UNCHANGED vars
  BY <1>6 DEF vars, coap, history
<1> QED BY <1>1, <1>2, <1>3, <1>4, <1>5, <1>6 DEF Next, Receive

\* Every step keeps the duplicate list as it should be.
LEMMA DupsStep ==
  ASSUME Types, DupsInv, [Next]_vars
  PROVE  DupsInv' /\ DupTypes'
<1>1. CASE UNCHANGED dups
  BY <1>1 DEF DupsInv, DupTypes, Types
<1> QED BY <1>1, DupCases, DupsForgotten, DupsEntered

\* What was accepted, with one message more.
LEMMA AcceptedGrows ==
  ASSUME Types, NEW m \in toClient, NEW a, Accepting(m, a)
  PROVE  /\ accepted' \in Seq(SrvMsgs) /\ Len(accepted') = Len(accepted) + 1 /\ Len(accepted) \in Nat
         /\ DOMAIN accepted = 1..Len(accepted) /\ DOMAIN accepted' = 1..(Len(accepted) + 1)
         /\ \A j \in DOMAIN accepted : accepted'[j] = accepted[j]
         /\ accepted'[Len(accepted) + 1] = m
         /\ \A j \in DOMAIN accepted' : j \in DOMAIN accepted \/ j = Len(accepted) + 1
<1>1. accepted \in Seq(SrvMsgs) /\ m \in SrvMsgs
  BY DEF Types, IsSrvMsg
<1>2. accepted' = Append(accepted, m)
  BY DEF Accepting
<1>3. /\ accepted' \in Seq(SrvMsgs) /\ Len(accepted') = Len(accepted) + 1 /\ Len(accepted) \in Nat
      /\ DOMAIN accepted = 1..Len(accepted) /\ DOMAIN accepted' = 1..(Len(accepted) + 1)
      /\ \A j \in DOMAIN accepted : accepted'[j] = accepted[j]
      /\ accepted'[Len(accepted) + 1] = m
  BY <1>1, <1>2
<1> QED BY <1>3

\* A message is entered at the end of both.
LEMMA DupInvEntered ==
  ASSUME Types, DupInv, NEW m \in toClient, NEW a, Accepting(m, a),
         IdStep
  PROVE  DupInv'
<1> SUFFICES ASSUME "alloc" \notin lapses'
             PROVE  /\ Len(dups') <= Len(accepted')
                    /\ \A k \in DOMAIN dups' : EntryOf(dups'[k], accepted'[Len(accepted') - Len(dups') + k])
                    /\ \A j \in DOMAIN accepted' :
                         j <= Len(accepted') - Len(dups') /\ j > Len(accepted') - DupSize
                         => DeadNext(accepted'[j])
  BY DEF DupInv, EntryOf, Answering, Dead, DeadNext
<1>1. "alloc" \notin lapses
  BY DEF Accepting
<1>2. PICK s : Entered(dups', m, s, {a}) /\ Len(dups') = Len(dups) - s + 1
  BY DEF Accepting
<1>3. PICK L, A : L = Len(dups) /\ A = Len(accepted)
  OBVIOUS
<1>4. /\ L \in Nat /\ DOMAIN dups = 1..L /\ A \in Nat /\ L <= A /\ DupSize \in Nat /\ L <= DupSize
  <2>1. L \in Nat /\ DOMAIN dups = 1..L /\ A \in Nat /\ L <= DupSize
    BY <1>3 DEF Types
  <2> QED BY <1>1, <1>3, <2>1, CoapAssumption DEF DupInv
<1>5. /\ Len(accepted') = A + 1 /\ DOMAIN accepted = 1..A /\ DOMAIN accepted' = 1..(A + 1)
      /\ \A j \in 1..A : accepted'[j] = accepted[j]
      /\ accepted'[A + 1] = m
  BY <1>3, AcceptedGrows
<1>6. /\ s \in {0, 1} /\ (s = 1 => L = DupSize) /\ Len(dups') = L - s + 1
      /\ \A k \in DOMAIN dups' :
         \/ /\ k <= L - s /\ k + s \in DOMAIN dups
            /\ dups'[k].id = dups[k + s].id /\ dups'[k].own = dups[k + s].own
         \/ /\ k = L - s + 1 /\ EntryOf(dups'[k], m)
  BY <1>2, <1>3 DEF Entered
<1>7. DOMAIN dups' = 1..(L - s + 1)
  <2>1. dups' \in Seq(DupEntry)
    BY <1>2 DEF Entered
  <2> QED BY <1>6, <2>1
<1>8. Len(dups') <= Len(accepted')
  BY <1>4, <1>5, <1>6
<1>9. Len(accepted') - Len(dups') = A - L + s
  BY <1>4, <1>5, <1>6
<1>10. ASSUME NEW k \in DOMAIN dups'
       PROVE  EntryOf(dups'[k], accepted'[Len(accepted') - Len(dups') + k])
  <2>1. CASE /\ k <= L - s /\ k + s \in DOMAIN dups
             /\ dups'[k].id = dups[k + s].id /\ dups'[k].own = dups[k + s].own
    <3>1. k \in 1..(L - s + 1)
      BY <1>7
    <3>2. A - L + (k + s) = (A - L + s) + k /\ (A - L + s) + k \in 1..A
      <4>1. /\ A \in Nat /\ L \in Nat /\ L <= A /\ s \in {0, 1}
            /\ k \in Int /\ k >= 1 /\ k <= L - s
        BY <1>4, <1>6, <2>1, <3>1
      <4> QED BY ONLY <4>1
    <3>3. EntryOf(dups[k + s], accepted[A - L + (k + s)])
      BY <1>1, <1>3, <2>1 DEF DupInv
    <3>4. EntryOf(dups'[k], accepted[A - L + (k + s)])
      BY <2>1, <3>3 DEF EntryOf
    <3> QED BY <1>5, <1>9, <3>2, <3>4
  <2>2. CASE k = L - s + 1 /\ EntryOf(dups'[k], m)
    <3>1. (A - L + s) + k = A + 1
      BY <1>4, <1>6, <2>2
    <3> QED BY <1>5, <1>9, <2>2, <3>1
  <2> QED BY <1>6, <2>1, <2>2
<1>11. ASSUME NEW j \in DOMAIN accepted',
              j <= Len(accepted') - Len(dups'), j > Len(accepted') - DupSize
       PROVE  DeadNext(accepted'[j])
  <2>1. j \in 1..(A + 1) /\ j <= A - L + s /\ j > (A + 1) - DupSize
    BY <1>5, <1>9, <1>11
  <2>2. s = 0
    BY <1>4, <1>6, <2>1
  <2>3. j \in 1..A /\ j <= A - L /\ j > A - DupSize
    BY <1>4, <2>1, <2>2
  <2>4. Dead(accepted[j])
    BY <1>1, <1>3, <1>5, <2>3 DEF DupInv
  <2>5. accepted'[j] = accepted[j]
    BY <1>5, <2>3
  <2> QED BY <2>4, <2>5, DeadStaysDead
<1> QED BY <1>8, <1>10, <1>11

\* The oldest entry is forgotten, and its exchange is over.
LEMMA DupInvForgotten ==
  ASSUME Types, IdInv, ListInv, DupInv, ExecForget, IdStep
  PROVE  DupInv'
<1> SUFFICES ASSUME "alloc" \notin lapses'
             PROVE  /\ Len(dups') <= Len(accepted')
                    /\ \A k \in DOMAIN dups' : EntryOf(dups'[k], accepted'[Len(accepted') - Len(dups') + k])
                    /\ \A j \in DOMAIN accepted' :
                         j <= Len(accepted') - Len(dups') /\ j > Len(accepted') - DupSize
                         => DeadNext(accepted'[j])
  BY DEF DupInv, EntryOf, Answering, Dead, DeadNext
<1>1. /\ Len(dups') = Len(dups) - 1 /\ Len(dups) \in Nat /\ Len(dups) > 0
      /\ DOMAIN dups = 1..Len(dups) /\ DOMAIN dups' = 1..(Len(dups) - 1)
      /\ \A k \in DOMAIN dups' : k + 1 \in DOMAIN dups /\ dups'[k] = dups[k + 1]
      /\ toClient' = {m \in toClient : m.id # dups[1].id \/ Answering(m) # dups[1].own}
      /\ toServer' = {m \in toServer : m.id # dups[1].id \/ Answering(m) = dups[1].own}
      /\ UNCHANGED <<accepted, lapses>>
  BY ForgetFacts
<1>2. PICK L, A : L = Len(dups) /\ A = Len(accepted)
  OBVIOUS
<1>3. L \in Nat /\ L > 0 /\ A \in Nat /\ L <= A /\ DOMAIN accepted = 1..A /\ Len(dups') = L - 1 /\ DupSize \in Nat
  BY <1>1, <1>2, CoapAssumption DEF DupInv, Types
<1>4. Len(dups') <= Len(accepted')
  BY <1>1, <1>2, <1>3
<1>5. Len(accepted') - Len(dups') = A - L + 1
  BY <1>1, <1>2, <1>3
<1>6. ASSUME NEW k \in DOMAIN dups'
      PROVE  EntryOf(dups'[k], accepted'[Len(accepted') - Len(dups') + k])
  <2>1. k \in 1..(L - 1) /\ k + 1 \in DOMAIN dups /\ dups'[k] = dups[k + 1]
    BY <1>1, <1>2
  <2>2. EntryOf(dups[k + 1], accepted[A - L + (k + 1)])
    BY <1>1, <1>2, <2>1 DEF DupInv
  <2>3. A - L + (k + 1) = (A - L + 1) + k
    BY <1>3, <2>1
  <2> QED BY <1>1, <1>5, <2>1, <2>2, <2>3
<1>7. ASSUME NEW j \in DOMAIN accepted',
              j <= Len(accepted') - Len(dups'), j > Len(accepted') - DupSize
       PROVE  DeadNext(accepted'[j])
  <2>1. j \in 1..A /\ j <= A - L + 1 /\ j > A - DupSize
    BY <1>1, <1>2, <1>3, <1>5, <1>7
  <2>2. CASE j <= A - L
    <3>1. Dead(accepted[j])
      BY <1>1, <1>2, <1>3, <2>1, <2>2 DEF DupInv
    <3> QED BY <1>1, <3>1, DeadStaysDead
  <2>3. CASE ~(j <= A - L)
    <3>1. j = A - L + 1 /\ 1 \in DOMAIN dups
      BY <1>1, <1>3, <2>1, <2>3
    <3>2. PICK x : x = accepted[j]
      OBVIOUS
    <3>3. dups[1].id = x.id /\ dups[1].own = Answering(x)
      BY <1>1, <1>2, <3>1, <3>2 DEF DupInv, EntryOf
    <3>4. IF Answering(x) THEN x.id \in heard ELSE x.id \notin Coming
      BY <1>3, <2>1, <3>2 DEF IdInv
    <3>5. Coming' \subseteq Coming /\ Fresh' \subseteq Fresh /\ ResendIds' = ResendIds
      BY DEF IdStep, ExecForget, ResendIds
    <3>6. x \notin toClient'
      BY <1>1, <3>3
    <3>7. ASSUME Answering(x) PROVE DeadNext(x)
      <4>1. x.id \notin Fresh'
        BY <3>4, <3>5, <3>7 DEF IdInv
      <4>2. x.id \notin ResendIds'
        BY <3>4, <3>5, <3>7 DEF ListInv, ResendIds
      <4>3. \A y \in toServer' : y.id = x.id => Answering(y)
        BY <1>1, <3>3, <3>7
      <4> QED BY <3>6, <3>7, <4>1, <4>2, <4>3 DEF DeadNext
    <3>8. ASSUME ~Answering(x) PROVE DeadNext(x)
      BY <3>4, <3>5, <3>6, <3>8 DEF DeadNext
    <3> QED BY <1>1, <3>2, <3>7, <3>8
  <2> QED BY <2>2, <2>3
<1> QED BY <1>4, <1>6, <1>7

\* Every step keeps the list the end of what was accepted.
LEMMA DupInvStep ==
  ASSUME Types, IdInv, ListInv, DupInv, [Next]_vars, IdStep
  PROVE  DupInv'
<1>1. CASE UNCHANGED <<dups, accepted>> /\ lapses \subseteq lapses'
  <2> SUFFICES ASSUME "alloc" \notin lapses'
               PROVE  /\ Len(dups') <= Len(accepted')
                      /\ \A k \in DOMAIN dups' : EntryOf(dups'[k], accepted'[Len(accepted') - Len(dups') + k])
                      /\ \A j \in DOMAIN accepted' :
                           j <= Len(accepted') - Len(dups') /\ j > Len(accepted') - DupSize
                           => DeadNext(accepted'[j])
    BY DEF DupInv, EntryOf, Answering, Dead, DeadNext
  <2>1. "alloc" \notin lapses /\ dups' = dups /\ accepted' = accepted
    BY <1>1
  <2>2. ASSUME NEW j \in DOMAIN accepted',
              j <= Len(accepted') - Len(dups'), j > Len(accepted') - DupSize
        PROVE  DeadNext(accepted'[j])
    <3>1. Dead(accepted[j])
      BY <2>1, <2>2 DEF DupInv
    <3> QED BY <2>1, <3>1, DeadStaysDead
  <2> QED BY <2>1, <2>2 DEF DupInv
<1> QED BY <1>1, DupCases, DupInvForgotten, DupInvEntered

\* A message is accepted again only when the list has forgotten it for lack
\* of room.
LEMMA RedeliveryStep ==
  ASSUME Types, DupInv, NoEarlyRedelivery, [Next]_vars
  PROVE  NoEarlyRedelivery'
<1> SUFFICES ASSUME "alloc" \notin lapses', NEW j \in DOMAIN accepted', NEW k \in DOMAIN accepted',
                    j < k, accepted'[j] = accepted'[k]
             PROVE  k - j > DupSize
  BY DEF NoEarlyRedelivery
<1>1. CASE UNCHANGED accepted /\ lapses \subseteq lapses'
  BY <1>1 DEF NoEarlyRedelivery
<1>2. ASSUME NEW m \in toClient, NEW a, Accepting(m, a) PROVE k - j > DupSize
  <2>1. "alloc" \notin lapses /\ m.id \notin DupIds
    BY <1>2 DEF Accepting
  <2>2. PICK L, A : L = Len(dups) /\ A = Len(accepted)
    OBVIOUS
  <2>3. /\ DOMAIN accepted = 1..A /\ DOMAIN accepted' = 1..(A + 1) /\ A \in Nat
        /\ \A i \in 1..A : accepted'[i] = accepted[i]
        /\ accepted'[A + 1] = m
    BY <1>2, <2>2, AcceptedGrows
  <2>4. L \in Nat /\ DOMAIN dups = 1..L /\ DupSize \in Nat /\ L <= A
    BY <2>1, <2>2, CoapAssumption DEF Types, DupInv
  <2>5. CASE k <= A
    <3>1. j \in 1..A /\ k \in 1..A
      BY <2>3, <2>5
    <3> QED BY <2>1, <2>3, <3>1 DEF NoEarlyRedelivery
  <2>6. CASE ~(k <= A)
    <3>1. k = A + 1 /\ j \in 1..A
      BY <2>3, <2>6
    <3>2. accepted[j] = m
      BY <2>3, <3>1
    <3>3. j <= A - L
      <4>1. SUFFICES ASSUME ~(j <= A - L) PROVE FALSE
        OBVIOUS
      <4>2. j - (A - L) \in 1..L /\ A - L + (j - (A - L)) = j
        BY <2>3, <2>4, <3>1, <4>1
      <4>3. dups[j - (A - L)].id = accepted[j].id
        BY <2>1, <2>2, <2>4, <4>2 DEF DupInv, EntryOf
      <4> QED BY <2>1, <2>4, <3>2, <4>2, <4>3 DEF DupIds
    <3>4. ~(j > A - DupSize)
      <4>1. SUFFICES ASSUME j > A - DupSize PROVE FALSE
        OBVIOUS
      <4>2. Dead(accepted[j])
        BY <2>1, <2>2, <2>3, <3>1, <3>3, <4>1 DEF DupInv
      <4> QED BY <3>2, <4>2 DEF Dead
    <3> QED BY <2>3, <2>4, <3>1, <3>4
  <2> QED BY <2>5, <2>6
<1>3. CASE ExecForget
  BY <1>1, <1>3, ForgetFacts
<1> QED BY <1>1, <1>2, <1>3, DupCases

-----------------------------------------------------------------------------
(***************************************************************************)
(* Types                                                                   *)
(***************************************************************************)

\* No payload is a payload.
LEMMA NoPayloadTyped ==
  NoPayload \in Payload /\ NoPayload.last = -1 /\ NoPayload.sized = FALSE
<1>1. <<>> \in Seq(0..Blocks) /\ -1 \in -1..(Blocks - 1)
  BY CoapAssumption
<1> QED BY <1>1 DEF NoPayload, Payload

\* Storing a block gives a payload.
LEMMA PayloadTyped ==
  ASSUME payload \in Payload, srv.sized \in BOOLEAN, NEW n \in 0..(Blocks - 1)
  PROVE  PayloadWith(n) \in Payload
<1>1. Blocks \in Nat /\ Blocks > 1 /\ n + 1 \in 0..Blocks /\ n \in -1..(Blocks - 1)
  BY CoapAssumption
<1>2. payload.blocks \in Seq(0..Blocks) /\ payload.last \in -1..(Blocks - 1) /\ payload.sized \in BOOLEAN
  BY DEF Payload
<1>3. CASE payload.last = n
  BY <1>3 DEF PayloadWith
<1>4. CASE payload.last # n /\ payload = NoPayload
  <2> DEFINE b == IF srv.sized THEN [k \in 1..Blocks |-> IF k = 1 THEN n + 1 ELSE 0]
                  ELSE <<n + 1>>
  <2>1. PayloadWith(n) = [blocks |-> b, last |-> n, sized |-> srv.sized]
    BY <1>4 DEF PayloadWith
  <2>2. b \in Seq(0..Blocks)
    <3>1. [k \in 1..Blocks |-> IF k = 1 THEN n + 1 ELSE 0] \in Seq(0..Blocks)
      <4>1. \A k \in 1..Blocks : (IF k = 1 THEN n + 1 ELSE 0) \in 0..Blocks
        BY <1>1
      <4> QED BY <1>1, <4>1, IsASeq
    <3>2. <<n + 1>> \in Seq(0..Blocks)
      BY <1>1
    <3> QED BY <3>1, <3>2
  <2> HIDE DEF b
  <2> QED BY <1>1, <2>1, <2>2 DEF Payload
<1>5. CASE payload.last # n /\ payload # NoPayload /\ payload.sized = TRUE
  <2> DEFINE b == [payload.blocks EXCEPT ![n + 1] = n + 1]
  <2>1. PayloadWith(n) = [payload EXCEPT !.blocks[n + 1] = n + 1, !.last = n]
    BY <1>5 DEF PayloadWith
  <2>2. PayloadWith(n) = [payload EXCEPT !.blocks = b, !.last = n]
    BY <2>1 DEF Payload
  <2>3. b \in Seq(0..Blocks)
    <3>1. PICK p : p = payload.blocks
      OBVIOUS
    <3>2. p \in Seq(0..Blocks) /\ p \in [1..Len(p) -> 0..Blocks] /\ Len(p) \in Nat
      BY <1>2, <3>1, LenProperties
    <3>3. [p EXCEPT ![n + 1] = n + 1] \in [1..Len(p) -> 0..Blocks]
      BY <1>1, <3>2
    <3>4. [p EXCEPT ![n + 1] = n + 1] \in Seq(0..Blocks)
      BY <3>2, <3>3, IsASeq
    <3> QED BY <3>1, <3>4
  <2> HIDE DEF b
  <2> QED BY <1>1, <2>2, <2>3 DEF Payload
<1>6. CASE payload.last # n /\ payload # NoPayload /\ payload.sized = FALSE
  <2> DEFINE b == Append(payload.blocks, n + 1)
  <2>1. PayloadWith(n) = [payload EXCEPT !.blocks = b, !.last = n]
    BY <1>6 DEF PayloadWith
  <2>2. b \in Seq(0..Blocks)
    BY <1>1, <1>2
  <2> HIDE DEF b
  <2> QED BY <1>1, <2>1, <2>2 DEF Payload
<1> QED BY <1>2, <1>3, <1>4, <1>5, <1>6

\* The parts of Types that are not about the two lists.
ClientTypes ==
    /\ messageId \in 0..IdMax
    /\ copies \in SUBSET Ids
    /\ payload \in Payload
    /\ toServer \in SUBSET OwnMsgs
    /\ left \in Allowance
    /\ answered \in SUBSET Ids
    /\ failed \in [Ids -> SUBSET {"send", "untold", "block", "refused", "cleared"}]
    /\ lapses \in SUBSET {"alloc", "timeout", "cleared"}

ServerTypes ==
    /\ \A m \in toClient : IsSrvMsg(m)
    /\ srv \in ServerState

\* What the client's own messages look like.
LEMMA OwnMsgTyped ==
  ASSUME NEW id \in Ids
  PROVE  /\ \A kind \in OwnKinds : Msg("CON", id, kind, 0) \in OwnMsgs
         /\ Msg("RST", id, "empty", 0) \in OwnMsgs
BY DEF Msg, OwnMsgs

\* What the application can be told of a failed message.
Failures == {"send", "untold", "block", "refused", "cleared"}

\* Telling the application of a failure.
LEMMA FailedTyped ==
  ASSUME failed \in [Ids -> SUBSET Failures], NEW id \in Ids, NEW f \in Failures
  PROVE  [failed EXCEPT ![id] = @ \cup {f}] \in [Ids -> SUBSET Failures]
<1>1. failed[id] \cup {f} \in SUBSET Failures
  OBVIOUS
<1> HIDE DEF Failures
<1> QED BY <1>1

\* The sending side.
LEMMA SendTypes ==
  ASSUME Types, IdInv,
         \/ \E kind \in OwnKinds : Send(kind) \/ SendRefused(kind)
         \/ SendCopyFails
  PROVE  ClientTypes' /\ UNCHANGED <<toClient, srv>>
<1>1. Build /\ left'.own = left.own - 1
  BY AllowanceStep DEF Send, SendRefused, SendCopyFails
<1>2. NewMessageId \in Ids
  BY <1>1, GivesOut DEF Build
<1>3. messageId' \in 0..IdMax /\ UNCHANGED <<payload, toClient, srv, answered>>
  <2>1. Ids \subseteq 0..IdMax
    BY CoapAssumption DEF Ids
  <2> QED BY <1>1, <1>2, <2>1 DEF Build
<1>4. left \in Allowance /\ left.own \in Nat /\ left.own > 0
  BY <1>1 DEF Types, Build, Allowance
<1>5. left' \in Allowance
  <2>1. left.own - 1 \in Nat
    BY <1>4
  <2>2. CASE left' = [left EXCEPT !.own = @ - 1]
    BY <1>4, <2>1, <2>2 DEF Allowance
  <2>3. CASE left' = [left EXCEPT !.own = @ - 1, !.allocs = @ - 1] /\ left.allocs > 0
    <3>1. left.allocs - 1 \in Nat
      BY <1>4, <2>3 DEF Allowance
    <3> QED BY <1>4, <2>1, <2>3, <3>1 DEF Allowance
  <2> QED BY <2>2, <2>3 DEF Send, SendRefused, SendCopyFails
<1>6. toServer' \in SUBSET OwnMsgs
  <2>1. toServer \in SUBSET OwnMsgs
    BY DEF Types
  <2> QED BY <1>2, <2>1, OwnMsgTyped DEF Send, SendRefused, SendCopyFails
<1>7. copies' \in SUBSET Ids
  BY <1>2 DEF Types, Send, SendRefused, SendCopyFails
<1>8. failed' \in [Ids -> SUBSET Failures]
  <2>1. failed \in [Ids -> SUBSET Failures] /\ "refused" \in Failures
    BY DEF Types, Failures
  <2>2. failed' = failed \/ failed' = [failed EXCEPT ![NewMessageId] = @ \cup {"refused"}]
    BY DEF Send, SendRefused, SendCopyFails
  <2> QED BY <1>2, <2>1, <2>2, FailedTyped
<1>9. lapses' \in SUBSET {"alloc", "timeout", "cleared"}
  BY DEF Types, Send, SendRefused, SendCopyFails, Lapse
<1> QED BY <1>3, <1>5, <1>6, <1>7, <1>8, <1>9 DEF ClientTypes, Types, Failures

\* The timer and the steps that drop messages.
LEMMA ListTypes ==
  ASSUME Types,
         \/ ClearAll
         \/ \E id \in Ids : CancelByToken(id)
         \/ Exec
  PROVE  /\ ClientTypes' /\ srv' = srv /\ toClient' \subseteq toClient
<1>0. /\ messageId' = messageId /\ srv' = srv /\ toClient' \subseteq toClient
      /\ answered' = answered /\ left' \in {left, [left EXCEPT !.allocs = @ - 1]}
      /\ (left' # left => left.allocs > 0)
  BY DEF ClearAll, CancelByToken, Exec, ExecResend, ExecCopyTimeout, ExecPayloadTimeout, ExecForget, history
<1>6. left' \in Allowance
  <2>1. left \in Allowance
    BY DEF Types
  <2>2. left.allocs > 0 => left.allocs - 1 \in Nat
    BY <2>1 DEF Allowance
  <2> QED BY <1>0, <2>1, <2>2 DEF Allowance
<1>1. copies' \in SUBSET Ids
  <2>1. copies' \subseteq copies
    BY DEF ClearAll, CancelByToken, Exec, ExecResend, ExecCopyTimeout, ExecPayloadTimeout, ExecForget
  <2> QED BY <2>1 DEF Types
<1>2. payload' \in Payload
  <2>1. payload' = payload \/ payload' = NoPayload
    BY DEF ClearAll, CancelByToken, Exec, ExecResend, ExecCopyTimeout, ExecPayloadTimeout, ExecForget
  <2> QED BY <2>1, NoPayloadTyped DEF Types
<1>3. lapses' \in SUBSET {"alloc", "timeout", "cleared"}
  <2>1. lapses' \in {lapses, lapses \cup {"alloc"}, lapses \cup {"timeout"}, lapses \cup {"cleared"}}
    BY DEF ClearAll, CancelByToken, Exec, ExecResend, ExecCopyTimeout, ExecPayloadTimeout, ExecForget,
           Lapse, history
  <2> QED BY <2>1 DEF Types
<1>4. toServer' \in SUBSET OwnMsgs
  <2>1. toServer \in SUBSET OwnMsgs
    BY DEF Types
  <2>2. CASE toServer' \subseteq toServer
    BY <2>1, <2>2
  <2>3. ASSUME NEW k \in DOMAIN resend, ExecResend(k) PROVE toServer' \in SUBSET OwnMsgs
    <3>1. resend[k] \in ResendEntry
      BY DEF Types
    <3>2. resend[k].id \in Ids /\ resend[k].kind \in OwnKinds
      BY <3>1 DEF ResendEntry
    <3>3. Msg("CON", resend[k].id, resend[k].kind, 0) \in OwnMsgs
      BY <3>2, OwnMsgTyped
    <3> QED BY <2>1, <2>3, <3>3 DEF ExecResend
  <2> QED BY <2>2, <2>3 DEF ClearAll, CancelByToken, Exec, ExecCopyTimeout, ExecPayloadTimeout, ExecForget
<1>5. failed' \in [Ids -> SUBSET Failures]
  <2>1. failed \in [Ids -> SUBSET Failures] /\ {"send", "untold", "block", "cleared"} \subseteq Failures
    BY DEF Types, Failures
  <2>2. CASE ClearAll
    <3>1. \A i \in Ids : (IF \E k \in DOMAIN resend : resend[k].id = i
                          THEN failed[i] \cup {"cleared"} ELSE failed[i]) \in SUBSET Failures
      BY <2>1
    <3> QED BY <2>2, <3>1 DEF ClearAll
  <2>3. ASSUME NEW id \in Ids, NEW f \in Failures, failed' = [failed EXCEPT ![id] = @ \cup {f}]
        PROVE  failed' \in [Ids -> SUBSET Failures]
    BY <2>1, <2>3, FailedTyped
  <2>4. ASSUME NEW k \in DOMAIN resend, ExecResend(k) PROVE failed' \in [Ids -> SUBSET Failures]
    <3>1. resend[k] \in ResendEntry
      BY DEF Types
    <3>2. resend[k].id \in Ids
      BY <3>1 DEF ResendEntry
    <3>3. \/ failed' = failed
          \/ failed' = [failed EXCEPT ![resend[k].id] = @ \cup {"send"}]
          \/ failed' = [failed EXCEPT ![resend[k].id] = @ \cup {"untold"}]
      BY <2>4 DEF ExecResend
    <3> QED BY <2>1, <2>3, <3>2, <3>3
  <2>5. ASSUME NEW id \in copies, ExecCopyTimeout(id) PROVE failed' \in [Ids -> SUBSET Failures]
    <3>1. id \in Ids /\ failed' = [failed EXCEPT ![id] = @ \cup {"block"}]
      BY <2>5 DEF Types, ExecCopyTimeout
    <3> QED BY <2>1, <2>3, <3>1
  <2>6. ASSUME NEW id \in Ids, CancelByToken(id) PROVE failed' \in [Ids -> SUBSET Failures]
    BY <2>1, <2>3, <2>6 DEF CancelByToken
  <2>7. CASE UNCHANGED failed
    BY <2>1, <2>7
  <2> QED BY <2>2, <2>4, <2>5, <2>6, <2>7 DEF Exec, ExecPayloadTimeout, ExecForget, history
<1> QED BY <1>0, <1>1, <1>2, <1>3, <1>4, <1>5, <1>6 DEF ClientTypes, Types, Failures

\* Receiving.
LEMMA ReceiveTypes ==
  ASSUME Types, ListInv, NEW m \in toClient, Receive(m)
  PROVE  ClientTypes' /\ UNCHANGED <<toClient, srv>>
<1>0. m \in SrvMsgs /\ m.id \in Ids /\ (m.code = "resp" => m.arg \in Ids)
  BY DEF Types, IsSrvMsg, SrvMsgs
<1>1. toServer \in SUBSET OwnMsgs /\ AnswerSet \subseteq OwnMsgs
  BY DEF Types, OwnMsgs
<1>2. payload \in Payload /\ srv.sized \in BOOLEAN
  BY DEF Types, ServerState
<1>3. CASE ReceivePing(m)
  <2>1. toServer' \in SUBSET OwnMsgs
    BY <1>0, <1>1, <1>3, OwnMsgTyped DEF ReceivePing
  <2> QED BY <1>3, <2>1 DEF ReceivePing, coap, history, ClientTypes, Types
<1>4. CASE ReceiveDuplicate(m)
  <2>1. \A x \in toServer' :
          \/ x \in toServer
          \/ \E k \in DOMAIN dups : dups[k].answer # NoAnswer /\ x = dups[k].answer
    BY <1>4 DEF ReceiveDuplicate
  <2>2. \A k \in DOMAIN dups : dups[k] \in DupEntry
    BY DEF Types
  <2>3. \A k \in DOMAIN dups : dups[k].answer # NoAnswer => dups[k].answer \in AnswerSet
    BY <2>2 DEF DupEntry
  <2>4. toServer' \in SUBSET OwnMsgs
    BY <1>1, <2>1, <2>3
  <2> QED BY <1>4, <2>4 DEF ReceiveDuplicate, coap, history, ClientTypes, Types
<1>5. CASE ReceiveEmpty(m)
  BY <1>5 DEF ReceiveEmpty, ClientTypes, Types
<1>6. ASSUME NEW a, Accepting(m, a),
             copies' \subseteq copies, payload' \in Payload, answered' \in SUBSET Ids, failed' = failed
      PROVE  ClientTypes' /\ UNCHANGED <<toClient, srv>>
  <2>1. toServer' \in SUBSET OwnMsgs
    BY <1>1, <1>6 DEF Accepting
  <2>2. lapses' \in SUBSET {"alloc", "timeout", "cleared"}
    BY <1>6 DEF Accepting, Types
  <2>3. left' \in Allowance /\ UNCHANGED <<messageId, toClient, srv>>
    BY <1>6 DEF Accepting
  <2> QED BY <1>6, <2>1, <2>2, <2>3 DEF ClientTypes, Types
<1>7. CASE ReceiveRequest(m)
  <2>1. copies' \subseteq copies /\ payload' = payload /\ answered' = answered /\ failed' = failed
    BY <1>7 DEF ReceiveRequest
  <2>2. answered' \in SUBSET Ids
    BY <2>1 DEF Types
  <2> QED BY <1>2, <1>6, <1>7, <2>1, <2>2, HandlerAccepts
<1>8. CASE ReceiveResponse(m)
  <2>1. copies' \subseteq copies /\ payload' = payload /\ failed' = failed
        /\ answered' = answered \cup {m.arg} /\ m.code = "resp"
    BY <1>8 DEF ReceiveResponse
  <2>2. answered' \in SUBSET Ids
    BY <1>0, <2>1 DEF Types
  <2> QED BY <1>2, <1>6, <1>8, <2>1, <2>2, HandlerAccepts
<1>9. CASE ReceiveBlock(m)
  <2>1. copies' = copies /\ answered' = answered /\ failed' = failed
        /\ payload' \in {payload, PayloadWith(m.arg), NoPayload}
    BY <1>9 DEF ReceiveBlock
  <2>2. m.arg \in 0..(Blocks - 1)
    <3>1. m.arg \in 0..(Blocks - 2)
      BY <1>9, BlockAccepts
    <3> QED BY <3>1, CoapAssumption
  <2>3. payload' \in Payload
    BY <1>2, <2>1, <2>2, PayloadTyped, NoPayloadTyped
  <2>4. answered' \in SUBSET Ids
    BY <2>1 DEF Types
  <2> QED BY <1>6, <1>9, <2>1, <2>3, <2>4, HandlerAccepts
<1>10. CASE ReceiveLastBlock(m)
  <2>1. copies' = copies /\ answered' = answered /\ failed' = failed
    BY <1>10 DEF ReceiveLastBlock
  <2>2. answered' \in SUBSET Ids
    BY <2>1 DEF Types
  <2>3. m.arg \in 0..(Blocks - 1) /\ payload' \in {NoPayload, PayloadWith(m.arg)}
    BY <1>10, LastBlockAccepts, CoapAssumption
  <2>4. payload' \in Payload
    BY <1>2, <2>3, PayloadTyped, NoPayloadTyped
  <2> QED BY <1>6, <1>10, <2>1, <2>2, <2>4, HandlerAccepts
<1> QED BY <1>3, <1>4, <1>5, <1>7, <1>8, <1>9, <1>10 DEF Receive

\* The server.
LEMMA SrvTypes ==
  ASSUME Types, Server
  PROVE  ClientTypes' /\ ServerTypes' /\ srv'.next >= srv.next
<1>0. /\ srv \in ServerState /\ srv.last \in Nat /\ srv.next \in 0..Blocks
      /\ srv.reply \in [Ids -> {"none", "piggy", "separate", "ack", "reset", "responded"}]
      /\ Blocks \in Nat /\ Blocks > 1 /\ IdMax \in Nat /\ IdMax > 1
  BY CoapAssumption DEF Types, ServerState
<1>1. UNCHANGED <<messageId, copies, payload, toServer, answered, failed, lapses>>
  BY DEF Server, SrvRequest, SrvBlock, SrvReply, SrvRespond, coap, history
<1>2. left' \in Allowance
  <2>1. left \in Allowance
    BY DEF Types
  <2>2. CASE left' = [left EXCEPT !.srv = @ - 1] /\ left.srv > 0
    <3>1. left.srv - 1 \in Nat
      BY <2>1, <2>2 DEF Allowance
    <3> QED BY <2>1, <2>2, <3>1 DEF Allowance
  <2>3. CASE left' = left
    BY <2>1, <2>3
  <2> QED BY <2>2, <2>3 DEF Server, SrvRequest, SrvBlock, SrvReply, SrvRespond
<1>3. ClientTypes'
  BY <1>1, <1>2 DEF ClientTypes, Types
<1>4. ASSUME NEW x, toClient' = toClient \cup {x}, x \in SrvMsgs,
             x.code = "resp" => x.arg \in Ids,
             x.code = "block" => x.arg < srv'.next,
             x.type \in {"ACK", "RST"} => x.code \in {"resp", "empty"},
             srv' \in ServerState, srv'.next >= srv.next
      PROVE  ServerTypes'
  <2>1. ASSUME NEW m \in toClient PROVE IsSrvMsg(m)'
    <3>1. IsSrvMsg(m)
      BY DEF Types
    <3>2. m.code = "block" => m.arg < srv'.next
      <4>1. srv'.next \in 0..Blocks
        BY <1>4 DEF ServerState
      <4>2. m.arg \in 0..(IdMax + Blocks)
        BY <3>1 DEF IsSrvMsg, SrvMsgs
      <4>3. m.code = "block" => m.arg < srv.next
        BY <3>1 DEF IsSrvMsg
      <4>4. srv'.next >= srv.next
        BY <1>4
      <4> QED BY ONLY <1>0, <4>1, <4>2, <4>3, <4>4
    <3> QED BY <3>1, <3>2 DEF IsSrvMsg, SrvMsgs
  <2>2. IsSrvMsg(x)'
    BY <1>4 DEF IsSrvMsg, SrvMsgs
  <2> QED BY <1>4, <2>1, <2>2 DEF ServerTypes
<1>5. SrvId \in Nat /\ (SrvId <= SrvTop => SrvId \in Ids)
  BY <1>0, CoapAssumption DEF SrvId, Ids
<1>6. ASSUME NEW code \in {"req", "empty"}, SrvRequest(code) PROVE ServerTypes' /\ srv'.next >= srv.next
  <2>1. /\ srv' \in ServerState /\ srv'.next = srv.next
    BY <1>0, <1>5, <1>6 DEF SrvRequest, ServerState
  <2>2. PICK x : x = Msg("CON", SrvId, code, 0)
    OBVIOUS
  <2>3. /\ x \in SrvMsgs /\ x.code = code /\ x.type = "CON"
    BY <1>0, <1>5, <1>6, <2>2 DEF SrvRequest, Msg, SrvMsgs
  <2>4. toClient' = toClient \cup {x}
    BY <1>6, <2>2 DEF SrvRequest
  <2>5. srv'.next >= srv.next
    BY <1>0, <2>1
  <2> QED BY <1>4, <2>1, <2>3, <2>4, <2>5
<1>7. CASE SrvBlock
  <2>0. srv.next + 1 \in 0..Blocks /\ srv.next \in 0..(IdMax + Blocks)
    BY <1>0, <1>7 DEF SrvBlock
  <2>1. /\ srv' \in ServerState /\ srv'.next = srv.next + 1
    BY <1>0, <1>5, <1>7, <2>0 DEF SrvBlock, ServerState
  <2>2. PICK x : x = Msg("CON", SrvId, "block", srv.next)
    OBVIOUS
  <2>3. /\ x \in SrvMsgs /\ x.code = "block" /\ x.type = "CON" /\ x.arg = srv.next
    BY <1>0, <1>5, <1>7, <2>0, <2>2 DEF SrvBlock, Msg, SrvMsgs
  <2>4. toClient' = toClient \cup {x}
    BY <1>7, <2>2 DEF SrvBlock
  <2>5. srv'.next >= srv.next /\ x.arg < srv'.next
    BY <1>0, <2>1, <2>3
  <2> QED BY <1>3, <1>4, <2>1, <2>3, <2>4, <2>5
<1>8. ASSUME NEW m \in toServer, NEW r \in DOMAIN SrvReplies, SrvReply(m, r)
      PROVE  ServerTypes' /\ srv'.next >= srv.next
  <2>0. m.id \in Ids /\ m.id \in 0..(IdMax + Blocks)
    <3>1. m \in OwnMsgs
      BY DEF Types
    <3>2. m.id \in Ids
      BY <3>1 DEF OwnMsgs, AnswerSet
    <3> QED BY <1>0, <3>2 DEF Ids
  <2>1. r \in {"piggy", "separate", "reset", "ack"}
    BY <1>8 DEF SrvReply
  <2>2. SrvReplies[r] \in {"resp", "empty"}
    BY <2>1 DEF SrvReplies
  <2>3. srv' \in ServerState /\ srv'.next = srv.next
    BY <1>0, <1>8, <2>0, <2>1 DEF SrvReply, ServerState
  <2>4. PICK x : x = Msg(IF r = "reset" THEN "RST" ELSE "ACK", m.id, SrvReplies[r], m.id)
    OBVIOUS
  <2>5. /\ x \in SrvMsgs /\ x.code \in {"resp", "empty"} /\ x.arg = m.id
    BY <2>0, <2>2, <2>4 DEF Msg, SrvMsgs
  <2>6. toClient' = toClient \cup {x}
    BY <1>8, <2>4 DEF SrvReply
  <2>7. srv'.next >= srv.next
    BY <1>0, <2>3
  <2> QED BY <1>4, <2>0, <2>3, <2>5, <2>6, <2>7
<1>9. ASSUME NEW id \in Ids, NEW type \in {"CON", "NON"}, SrvRespond(id, type)
      PROVE  ServerTypes' /\ srv'.next >= srv.next
  <2>0. id \in 0..(IdMax + Blocks)
    BY <1>0 DEF Ids
  <2>1. srv' \in ServerState /\ srv'.next = srv.next
    BY <1>0, <1>5, <1>9 DEF SrvRespond, ServerState
  <2>2. PICK x : x = Msg(type, SrvId, "resp", id)
    OBVIOUS
  <2>3. /\ x \in SrvMsgs /\ x.code = "resp" /\ x.arg = id
    BY <1>5, <1>9, <2>0, <2>2 DEF SrvRespond, Msg, SrvMsgs
  <2>4. toClient' = toClient \cup {x}
    BY <1>9, <2>2 DEF SrvRespond
  <2>5. srv'.next >= srv.next
    BY <1>0, <2>1
  <2> QED BY <1>4, <2>1, <2>3, <2>4, <2>5
<1> QED BY <1>3, <1>6, <1>7, <1>8, <1>9 DEF Server

\* Every step keeps the types.
LEMMA TypesStep ==
  ASSUME Types, IdInv, ListInv, [Next]_vars, IdStep
  PROVE  Types' /\ (ResendInv /\ DupsInv)'
<1>0. ResendInv /\ DupsInv
  BY DEF ListInv, ResendInv, DupsInv, UniqueResend
<1>1. ResendInv' /\ ResendTypes'
  BY <1>0, ResendStep
<1>2. DupsInv' /\ DupTypes'
  BY <1>0, DupsStep
<1>3. heard' \in SUBSET Ids
  <2>1. ResendIds \subseteq Ids
    <3>1. \A k \in DOMAIN resend : resend[k] \in ResendEntry
      BY DEF Types
    <3> QED BY <3>1 DEF ResendIds, ResendEntry
  <2>2. \A x \in toServer : x.id \in Ids
    <3>1. \A x \in toServer : x \in OwnMsgs
      BY DEF Types
    <3> QED BY <3>1 DEF OwnMsgs, AnswerSet
  <2>3. \A x \in toClient : x.id \in Ids
    BY DEF Types, IsSrvMsg, SrvMsgs
  <2>4. OwnLive \subseteq Ids
    BY <2>1, <2>2, <2>3 DEF OwnLive
  <2> QED BY <2>4 DEF IdStep, Types
<1>4. accepted' \in Seq(SrvMsgs)
  BY DupCases, AcceptedGrows, ForgetFacts DEF Types
<1>5. ASSUME srv' = srv, toClient' \subseteq toClient PROVE ServerTypes'
  BY <1>5 DEF ServerTypes, Types, IsSrvMsg, SrvMsgs
<1>6. ClientTypes' /\ ServerTypes'
  <2>1. CASE UNCHANGED vars
    BY <1>5, <2>1 DEF vars, coap, history, ClientTypes, Types
  <2>2. CASE ClientSends \/ Exec
    <3>1. CASE ClearAll \/ (\E id \in Ids : CancelByToken(id)) \/ Exec
      BY <1>5, <3>1, ListTypes
    <3>2. CASE \/ \E kind \in OwnKinds : Send(kind) \/ SendRefused(kind)
               \/ SendCopyFails
      BY <1>5, <3>2, SendTypes
    <3> QED BY <2>2, <3>1, <3>2 DEF ClientSends
  <2>3. CASE \E m \in toClient : Receive(m)
    BY <1>5, <2>3, ReceiveTypes
  <2>4. CASE Server
    BY <2>4, SrvTypes
  <2> QED BY <2>1, <2>2, <2>3, <2>4 DEF Next
<1> QED BY <1>1, <1>2, <1>3, <1>4, <1>6 DEF Types, ResendTypes, DupTypes, ClientTypes, ServerTypes

-----------------------------------------------------------------------------
(***************************************************************************)
(* The upload                                                              *)
(***************************************************************************)

\* The first block makes a payload.
LEMMA FirstBlock ==
  ASSUME Types, payload = NoPayload
  PROVE  PayloadWith(0) = PayloadUpTo(0)
<1>0. Blocks \in Nat /\ Blocks > 1 /\ srv.sized \in BOOLEAN
  BY CoapAssumption DEF Types, ServerState
<1>1. PayloadWith(0) =
        [blocks |-> IF srv.sized THEN [k \in 1..Blocks |-> IF k = 1 THEN 0 + 1 ELSE 0]
                    ELSE <<0 + 1>>,
         last |-> 0, sized |-> srv.sized]
  BY NoPayloadTyped DEF PayloadWith
<1>2. CASE srv.sized = TRUE
  <2>1. [k \in 1..Blocks |-> IF k = 1 THEN 0 + 1 ELSE 0] = [k \in 1..Blocks |-> IF k <= 0 + 1 THEN k ELSE 0]
    BY <1>0
  <2> QED BY <1>1, <1>2, <2>1 DEF PayloadUpTo, Filled
<1>3. CASE srv.sized = FALSE
  <2>1. <<0 + 1>> = [k \in 1..(0 + 1) |-> k]
    <3>1. PICK s : s = <<1>>
      OBVIOUS
    <3>2. s \in Seq(Nat) /\ Len(s) = 1 /\ s[1] = 1
      BY <3>1
    <3>3. s = [k \in 1..1 |-> s[k]]
      BY <3>2
    <3>4. [k \in 1..1 |-> s[k]] = [k \in 1..1 |-> k]
      BY <3>2
    <3> QED BY <3>1, <3>3, <3>4
  <2> QED BY <1>1, <1>3, <2>1 DEF PayloadUpTo, Filled
<1> QED BY <1>0, <1>2, <1>3

\* The next block is put at its place.
LEMMA NextBlock ==
  ASSUME Types, NEW n \in 0..(Blocks - 2), payload = PayloadUpTo(n)
  PROVE  PayloadWith(n + 1) = PayloadUpTo(n + 1)
<1>0. Blocks \in Nat /\ Blocks > 1 /\ srv.sized \in BOOLEAN
  BY CoapAssumption DEF Types, ServerState
<1>1. payload.blocks = Filled(n) /\ payload.last = n /\ payload.sized = srv.sized
  BY DEF PayloadUpTo
<1>2. payload # NoPayload /\ payload.last # n + 1
  BY <1>1, NoPayloadTyped
<1>3. CASE srv.sized = TRUE
  <2>1. PayloadWith(n + 1) = [payload EXCEPT !.blocks[n + 1 + 1] = n + 1 + 1, !.last = n + 1]
    BY <1>1, <1>2, <1>3 DEF PayloadWith
  <2>2. PayloadWith(n + 1) = [blocks |-> [Filled(n) EXCEPT ![n + 1 + 1] = n + 1 + 1], last |-> n + 1,
                              sized |-> srv.sized]
    BY <2>1 DEF PayloadUpTo
  <2>3. [Filled(n) EXCEPT ![n + 1 + 1] = n + 1 + 1] = Filled(n + 1)
    <3>1. /\ Filled(n) = [k \in 1..Blocks |-> IF k <= n + 1 THEN k ELSE 0]
          /\ Filled(n + 1) = [k \in 1..Blocks |-> IF k <= (n + 1) + 1 THEN k ELSE 0]
      BY <1>3 DEF Filled
    <3>2. ASSUME NEW k \in 1..Blocks
          PROVE  (IF k = n + 1 + 1 THEN n + 1 + 1 ELSE IF k <= n + 1 THEN k ELSE 0)
                 = (IF k <= (n + 1) + 1 THEN k ELSE 0)
      BY <1>0
    <3>3. [Filled(n) EXCEPT ![n + 1 + 1] = n + 1 + 1]
          = [k \in 1..Blocks |-> IF k = n + 1 + 1 THEN n + 1 + 1 ELSE IF k <= n + 1 THEN k ELSE 0]
      BY <3>1
    <3> QED BY <3>1, <3>2, <3>3
  <2> QED BY <2>2, <2>3 DEF PayloadUpTo
<1>4. CASE srv.sized = FALSE
  <2>1. PayloadWith(n + 1) = [payload EXCEPT !.blocks = Append(@, n + 1 + 1), !.last = n + 1]
    BY <1>1, <1>2, <1>4 DEF PayloadWith
  <2>2. PayloadWith(n + 1) = [blocks |-> Append(Filled(n), n + 1 + 1), last |-> n + 1,
                              sized |-> srv.sized]
    BY <2>1 DEF PayloadUpTo
  <2>3. Append(Filled(n), n + 1 + 1) = Filled(n + 1)
    <3>1. /\ Filled(n) = [k \in 1..(n + 1) |-> k]
          /\ Filled(n + 1) = [k \in 1..((n + 1) + 1) |-> k]
      BY <1>4 DEF Filled
    <3>2. PICK f, g : f = Filled(n) /\ g = Append(f, n + 1 + 1)
      OBVIOUS
    <3>3. f \in Seq(Nat) /\ Len(f) = n + 1 /\ \A k \in 1..(n + 1) : f[k] = k
      <4>1. n + 1 \in Nat /\ \A k \in 1..(n + 1) : k \in Nat
        BY <1>0
      <4> QED BY <3>1, <3>2, <4>1, IsASeq, LenProperties
    <3>4. /\ g \in Seq(Nat) /\ Len(g) = n + 2 /\ g[n + 2] = n + 2
          /\ \A k \in 1..(n + 1) : g[k] = k
      BY <3>2, <3>3
    <3>5. \A k \in 1..(n + 2) : g[k] = k
      BY <3>4
    <3>6. g = [k \in 1..(n + 2) |-> g[k]]
      BY <3>4
    <3>7. g = [k \in 1..(n + 2) |-> k]
      BY <3>5, <3>6
    <3>8. n + 2 = (n + 1) + 1
      BY <1>0
    <3> QED BY <3>1, <3>2, <3>7, <3>8
  <2> QED BY <2>2, <2>3 DEF PayloadUpTo
<1> QED BY <1>0, <1>3, <1>4

\* All blocks make the whole payload.
LEMMA AllBlocks ==
  ASSUME Types
  PROVE  Filled(Blocks - 1) = [k \in 1..Blocks |-> k]
<1>0. Blocks \in Nat /\ Blocks > 1 /\ srv.sized \in BOOLEAN
  BY CoapAssumption DEF Types, ServerState
<1>1. (Blocks - 1) + 1 = Blocks
  BY <1>0
<1> QED BY <1>0, <1>1 DEF Filled

\* The hypothesis of UploadInv.
Faultless == lapses = {} /\ Once(0) /\ Once(Blocks - 1)

\* It was true before if it is true now.
LEMMA FaultlessBefore ==
  ASSUME Types, [Next]_vars, Faultless'
  PROVE  Faultless
<1>1. CASE UNCHANGED accepted /\ lapses \subseteq lapses'
  BY <1>1 DEF Faultless, Once, IsBlock
<1>2. CASE ExecForget
  BY <1>1, <1>2, ForgetFacts
<1>3. ASSUME NEW m \in toClient, NEW a, Accepting(m, a) PROVE Faultless
  <2>1. lapses = {}
    BY <1>3 DEF Accepting, Faultless
  <2>2. \A j \in DOMAIN accepted : j \in DOMAIN accepted' /\ accepted'[j] = accepted[j]
    BY <1>3, AcceptedGrows
  <2>3. \A n : Once(n)' => Once(n)
    BY <2>2 DEF Once, IsBlock
  <2> QED BY <2>1, <2>3 DEF Faultless
<1> QED BY <1>1, <1>2, <1>3, DupCases

\* A step that does not concern the upload.
LEMMA UploadAside ==
  ASSUME UploadInv, Faultless, UNCHANGED <<payload, uploads>>,
         srv'.next = srv.next, srv'.sized = srv.sized,
         \A n : Continued(n) => Continued(n)',
         Accepted(0)' <=> Accepted(0), Accepted(Blocks - 1)' <=> Accepted(Blocks - 1)
  PROVE  UploadInv'
<1>1. NotBegun \/ UnderWay \/ HandedOver
  BY DEF UploadInv, Faultless
<1>2. CASE NotBegun
  BY <1>2 DEF UploadInv, NotBegun
<1>3. CASE UnderWay
  <2>1. PICK n : n = payload.last
    OBVIOUS
  <2>2. Filled(n)' = Filled(n) /\ PayloadUpTo(n)' = PayloadUpTo(n)
    BY DEF Filled, PayloadUpTo
  <2>3. Continued(n)'
    BY <1>3, <2>1 DEF UnderWay
  <2>4. UnderWay'
    <3>1. payload'.last = n
      BY <2>1
    <3>2. payload' = PayloadUpTo(payload.last)'
      BY <1>3, <2>1, <2>2 DEF UnderWay, PayloadUpTo, Filled
    <3>3. Continued(payload.last)'
      BY <2>3, <3>1 DEF Continued
    <3> QED BY <1>3, <2>1, <3>1, <3>2, <3>3 DEF UnderWay
  <2> QED BY <2>4 DEF UploadInv
<1>4. CASE HandedOver
  BY <1>4 DEF UploadInv, HandedOver
<1> QED BY <1>1, <1>2, <1>3, <1>4

\* Nothing was accepted and no block is acknowledged.
LEMMA UploadIdle ==
  ASSUME UploadInv, Faultless, UNCHANGED <<payload, uploads, accepted, dups>>,
         srv'.next = srv.next, srv'.sized = srv.sized,
         \A x \in toServer' : \/ x \in toServer \/ x.type # "ACK"
                              \/ \E k \in DOMAIN dups : x = dups[k].answer
  PROVE  UploadInv'
<1>1. \A n : Continued(n) => Continued(n)'
  BY DEF Continued
<1>2. \A n : Accepted(n)' <=> Accepted(n)
  BY DEF Accepted, IsBlock
<1> QED BY <1>1, <1>2, UploadAside

\* Which of the messages accepted are blocks.
LEMMA AcceptedBlocks ==
  ASSUME Types, NEW m \in toClient, NEW a, Accepting(m, a), NEW n
  PROVE  Accepted(n)' <=> (Accepted(n) \/ IsBlock(m, n))
<1>1. /\ Len(accepted) \in Nat
      /\ DOMAIN accepted' = 1..(Len(accepted) + 1)
      /\ \A j \in DOMAIN accepted : j \in DOMAIN accepted' /\ accepted'[j] = accepted[j]
      /\ accepted'[Len(accepted) + 1] = m
      /\ \A j \in DOMAIN accepted' : j \in DOMAIN accepted \/ j = Len(accepted) + 1
  BY AcceptedGrows
<1>2. Len(accepted) + 1 \in DOMAIN accepted'
  BY <1>1
<1> QED BY <1>1, <1>2 DEF Accepted, IsBlock

\* A block is not accepted twice.
LEMMA NotTwice ==
  ASSUME Types, NEW m \in toClient, NEW a, Accepting(m, a), NEW n, IsBlock(m, n), Once(n)'
  PROVE  ~Accepted(n)
<1>1. /\ Len(accepted) \in Nat /\ DOMAIN accepted = 1..Len(accepted)
      /\ DOMAIN accepted' = 1..(Len(accepted) + 1)
      /\ \A j \in DOMAIN accepted : j \in DOMAIN accepted' /\ accepted'[j] = accepted[j]
      /\ accepted'[Len(accepted) + 1] = m
  BY AcceptedGrows
<1> SUFFICES ASSUME NEW j \in DOMAIN accepted, IsBlock(accepted[j], n) PROVE FALSE
  BY DEF Accepted
<1>2. Len(accepted) + 1 \in DOMAIN accepted' /\ j # Len(accepted) + 1
  BY <1>1
<1> QED BY <1>1, <1>2 DEF Once, IsBlock

\* What is acknowledged once a message is entered with the answer a.
LEMMA ContinuedEntered ==
  ASSUME Types, NEW m \in toClient, NEW a, Accepting(m, a), NEW n, Continued(n),
         a.code = "continue" => a.arg <= n
  PROVE  Continued(n)'
<1>1. PICK s : Entered(dups', m, s, {a})
  BY DEF Accepting
<1>2. ASSUME NEW k \in DOMAIN dups', dups'[k].answer.code = "continue"
      PROVE  dups'[k].answer.arg <= n
  <2>1. CASE k + s \in DOMAIN dups /\ dups'[k].answer = dups[k + s].answer
    BY <1>2, <2>1 DEF Continued
  <2>2. CASE dups'[k].answer \in {NoAnswer} \cup {a}
    <3>1. NoAnswer.code # "continue"
      BY DEF NoAnswer, Msg
    <3> QED BY <1>2, <2>2, <3>1
  <2> QED BY <1>1, <2>1, <2>2 DEF Entered
<1>3. \A x \in toServer' : x.type = "ACK" /\ x.code = "continue" => x.arg <= n
  BY DEF Accepting, Continued
<1> QED BY <1>2, <1>3 DEF Continued

\* What is acknowledged up to n is acknowledged up to n + 1.
LEMMA ContinuedFurther ==
  ASSUME Types, NEW n \in Int, Continued(n)
  PROVE  Continued(n + 1)
<1>1. \A x \in toServer : x.type = "ACK" /\ x.code = "continue" => x.arg \in Nat
  <2>1. \A x \in toServer : x \in OwnMsgs
    BY DEF Types
  <2> QED BY <2>1, CoapAssumption DEF OwnMsgs, AnswerSet
<1>2. \A k \in DOMAIN dups : dups[k].answer.code = "continue" => dups[k].answer.arg \in Nat
  <2>1. \A k \in DOMAIN dups : dups[k] \in DupEntry
    BY DEF Types
  <2>2. NoAnswer.code # "continue"
    BY DEF NoAnswer, Msg
  <2> QED BY <2>1, <2>2, CoapAssumption DEF DupEntry, AnswerSet
<1>3. \A x \in Nat : x <= n => x <= n + 1
  OBVIOUS
<1> QED BY <1>1, <1>2, <1>3 DEF Continued

\* A block that is not the last one.
LEMMA UploadBlock ==
  ASSUME Types, UploadInv, Faultless, Faultless', NEW m \in toClient, ReceiveBlock(m)
  PROVE  UploadInv'
<1>0. Blocks \in Nat /\ Blocks > 1
  BY CoapAssumption
<1>1. PICK a, j : a = BlockAnswer(m) /\ j = m.arg
  OBVIOUS
<1>2. /\ Accepting(m, a) /\ m.code = "block" /\ j \in 0..(Blocks - 2)
      /\ a.code = (IF InOrder(j) THEN "continue" ELSE "incomplete") /\ a.arg = j
      /\ \/ InOrder(j) /\ payload' = PayloadWith(j)
         \/ ~InOrder(j) /\ payload' = payload
  BY <1>1, BlockAccepts DEF Faultless
<1>3. uploads' = uploads
  BY DEF ReceiveBlock
<1>4. srv' = srv
  BY <1>2 DEF Accepting
<1>5. srv.next \in 0..Blocks /\ j < srv.next
  BY <1>1, <1>2 DEF Types, ServerState, IsSrvMsg
<1>6. IsBlock(m, j) /\ \A i : i # j => ~IsBlock(m, i)
  BY <1>1, <1>2 DEF IsBlock
<1>7. \A i : Accepted(i)' <=> (Accepted(i) \/ IsBlock(m, i))
  BY <1>2, AcceptedBlocks
<1>8. Accepted(Blocks - 1)' <=> Accepted(Blocks - 1)
  <2>1. Blocks - 1 # j
    BY <1>0, <1>2
  <2> QED BY <1>6, <1>7, <2>1
<1>9. j = 0 => ~Accepted(0)
  BY <1>2, <1>6, NotTwice DEF Faultless
<1>10. PayloadUpTo(j)' = PayloadUpTo(j)
  BY <1>4 DEF PayloadUpTo, Filled
<1>11. ASSUME payload' = PayloadUpTo(j), Continued(j), a.code = "continue", srv.next <= j + 2,
              uploads = {}, Accepted(0)', ~Accepted(Blocks - 1)
       PROVE  UploadInv'
  <2>1. payload'.last = j
    BY <1>11 DEF PayloadUpTo
  <2>2. j <= j
    BY <1>2
  <2>3. Continued(j)'
    BY <1>2, <1>11, <2>2, ContinuedEntered
  <2>4. UnderWay'
    <3>1. payload' = PayloadUpTo(payload.last)'
      BY <1>10, <1>11, <2>1 DEF PayloadUpTo, Filled
    <3>2. Continued(payload.last)'
      BY <2>1, <2>3 DEF Continued
    <3> QED BY <1>2, <1>3, <1>4, <1>8, <1>11, <2>1, <3>1, <3>2 DEF UnderWay
  <2> QED BY <2>4 DEF UploadInv
<1>12. CASE NotBegun
  <2>1. j = 0 /\ srv.next <= j + 2
    BY <1>0, <1>2, <1>5, <1>12 DEF NotBegun
  <2>2. InOrder(j) /\ a.code = "continue"
    BY <1>2, <2>1 DEF InOrder
  <2>3. payload' = PayloadUpTo(j)
    BY <1>2, <1>12, <2>1, <2>2, FirstBlock DEF NotBegun
  <2>4. Continued(j)
    <3>1. Continued(-1 + 1)
      BY <1>12, ContinuedFurther DEF NotBegun
    <3> QED BY <2>1, <3>1
  <2>5. Accepted(0)'
    BY <1>6, <1>7, <2>1
  <2> QED BY <1>11, <1>12, <2>1, <2>2, <2>3, <2>4, <2>5 DEF NotBegun
<1>13. CASE UnderWay
  <2>1. PICK n : n = payload.last
    OBVIOUS
  <2>2. n \in 0..(Blocks - 2) /\ payload = PayloadUpTo(n) /\ srv.next <= n + 2 /\ Continued(n) /\ Accepted(0)
    BY <1>13, <2>1 DEF UnderWay
  <2>3. j # 0 /\ Accepted(0)'
    BY <1>7, <1>9, <2>2
  <2>4. CASE InOrder(j)
    <3>1. j = n + 1
      BY <1>2, <2>1, <2>2, <2>3, <2>4 DEF InOrder
    <3>2. payload' = PayloadUpTo(j)
      BY <1>2, <2>2, <2>4, <3>1, NextBlock
    <3>3. Continued(j)
      BY <2>2, <3>1, ContinuedFurther
    <3>4. srv.next <= j + 2
      BY <1>5, <2>2, <3>1
    <3> QED BY <1>2, <1>11, <1>13, <2>3, <2>4, <3>2, <3>3, <3>4 DEF UnderWay
  <2>5. CASE ~InOrder(j)
    <3>1. payload' = payload /\ a.code # "continue"
      BY <1>2, <2>5
    <3>2. \A i : Continued(i) => Continued(i)'
      BY <1>2, <3>1, ContinuedEntered
    <3> QED BY <1>3, <1>4, <1>8, <2>2, <2>3, <3>1, <3>2, UploadAside
  <2> QED BY <2>4, <2>5
<1>14. CASE HandedOver
  <2>1. j # 0 /\ payload.last = -1
    BY <1>9, <1>14, NoPayloadTyped DEF HandedOver
  <2>2. ~InOrder(j)
    BY <1>2, <2>1 DEF InOrder
  <2>3. payload' = payload
    BY <1>2, <2>2
  <2>4. HandedOver'
    BY <1>3, <1>7, <1>14, <2>3 DEF HandedOver
  <2> QED BY <2>4 DEF UploadInv
<1> QED BY <1>12, <1>13, <1>14 DEF UploadInv, Faultless

\* The last block.
LEMMA UploadLast ==
  ASSUME Types, UploadInv, Faultless, Faultless', NEW m \in toClient, ReceiveLastBlock(m)
  PROVE  UploadInv'
<1>0. Blocks \in Nat /\ Blocks > 1
  BY CoapAssumption
<1>1. PICK a : a = Msg("ACK", m.id, "done", 0)
  OBVIOUS
<1>2. /\ Accepting(m, a) /\ m.code = "block" /\ m.arg = Blocks - 1 /\ payload' = NoPayload
      /\ uploads' = uploads \cup {PayloadWith(Blocks - 1).blocks}
  BY <1>1, LastBlockAccepts DEF Faultless
<1>3. srv.next \in 0..Blocks /\ Blocks - 1 < srv.next
  BY <1>2 DEF Types, ServerState, IsSrvMsg
<1>4. IsBlock(m, Blocks - 1)
  BY <1>2 DEF IsBlock
<1>5. \A i : Accepted(i)' <=> (Accepted(i) \/ IsBlock(m, i))
  BY <1>2, AcceptedBlocks
<1>6. ~Accepted(Blocks - 1)
  BY <1>2, <1>4, NotTwice DEF Faultless
<1>7. UnderWay
  <2>1. ~NotBegun
    BY <1>0, <1>3 DEF NotBegun
  <2>2. ~HandedOver
    BY <1>6 DEF HandedOver
  <2> QED BY <2>1, <2>2 DEF UploadInv, Faultless
<1>8. PICK n : n = payload.last
  OBVIOUS
<1>9. n \in 0..(Blocks - 2) /\ payload = PayloadUpTo(n) /\ srv.next <= n + 2 /\ uploads = {} /\ Accepted(0)
  BY <1>7, <1>8 DEF UnderWay
<1>10. n + 1 = Blocks - 1
  BY <1>0, <1>3, <1>9
<1>11. PayloadWith(n + 1) = PayloadUpTo(n + 1)
  BY <1>9, NextBlock
<1>12. PayloadWith(Blocks - 1).blocks = Filled(Blocks - 1)
  BY <1>10, <1>11 DEF PayloadUpTo
<1>13. uploads' = {[k \in 1..Blocks |-> k]}
  BY <1>2, <1>9, <1>12, AllBlocks
<1>14. HandedOver'
  BY <1>2, <1>4, <1>5, <1>9, <1>13 DEF HandedOver
<1> QED BY <1>14 DEF UploadInv

\* The server sends the next block.
LEMMA UploadNext ==
  ASSUME Types, UploadInv, Faultless, SrvBlock
  PROVE  UploadInv'
<1>0. UNCHANGED <<payload, uploads, accepted, dups, toServer>>
  BY DEF SrvBlock, coap, history
<1>1. srv'.next = srv.next + 1 /\ srv'.sized = srv.sized /\ srv.next \in 0..Blocks
  BY DEF SrvBlock, Types, ServerState
<1>2. ASSUME NEW n \in Int, n >= -1, Continued(n) PROVE srv.next + 1 <= n + 2
  <2>1. CASE srv.next = 0
    BY <1>2, <2>1
  <2>2. CASE Msg("ACK", srv.blockId, "continue", srv.next - 1) \in toServer
    <3>1. srv.next - 1 <= n
      BY <1>2, <2>2 DEF Continued, Msg
    <3> QED BY <1>1, <1>2, <3>1
  <2> QED BY <2>1, <2>2 DEF SrvBlock
<1>3. \A n : (Continued(n)' <=> Continued(n)) /\ (Accepted(n)' <=> Accepted(n))
  BY <1>0 DEF Continued, Accepted, IsBlock
<1>4. CASE NotBegun
  <2>1. srv'.next <= 1
    BY <1>1, <1>2, <1>4 DEF NotBegun
  <2>2. NotBegun'
    BY <1>0, <1>3, <1>4, <2>1 DEF NotBegun
  <2> QED BY <2>2 DEF UploadInv
<1>5. CASE UnderWay
  <2>1. PICK n : n = payload.last
    OBVIOUS
  <2>2. n \in 0..(Blocks - 2) /\ n \in Int /\ n >= -1 /\ Continued(n) /\ payload = PayloadUpTo(n)
    BY <1>5, <2>1, CoapAssumption DEF UnderWay
  <2>3. srv'.next <= n + 2
    BY <1>1, <1>2, <2>2
  <2>4. payload' = PayloadUpTo(payload.last)'
    BY <1>0, <1>1, <2>1, <2>2 DEF PayloadUpTo, Filled
  <2>5. Continued(payload.last)'
    BY <1>0, <1>3, <2>1, <2>2 DEF Continued
  <2>6. UnderWay'
    BY <1>0, <1>3, <1>5, <2>1, <2>3, <2>4, <2>5 DEF UnderWay
  <2> QED BY <2>6 DEF UploadInv
<1>6. CASE HandedOver
  BY <1>0, <1>3, <1>6 DEF HandedOver, UploadInv
<1> QED BY <1>4, <1>5, <1>6 DEF UploadInv, Faultless

\* Every step keeps the upload as it should be.
LEMMA UploadStep ==
  ASSUME Types, ListInv, UploadInv, [Next]_vars
  PROVE  UploadInv'
<1>1. SUFFICES ASSUME Faultless' PROVE UploadInv'
  BY DEF UploadInv, Faultless
<1>2. Faultless
  BY <1>1, FaultlessBefore
<1>3. CASE \/ \E kind \in OwnKinds : Send(kind) \/ SendRefused(kind)
           \/ SendCopyFails
  <2>1. Build /\ UNCHANGED <<payload, uploads, accepted, dups, srv>>
    BY <1>3 DEF Send, SendRefused, SendCopyFails, Build
  <2>2. \A x \in toServer' : x \in toServer \/ x.type # "ACK"
    BY <1>3 DEF Send, SendRefused, SendCopyFails, Msg
  <2> QED BY <1>2, <2>1, <2>2, UploadIdle
<1>4. CASE ClearAll
  <2>1. UNCHANGED <<uploads, accepted, dups, srv, toServer>> /\ payload' = NoPayload
    BY <1>4 DEF ClearAll
  <2>2. payload = NoPayload
    BY <1>1, <1>4 DEF ClearAll, Faultless
  <2> QED BY <1>2, <2>1, <2>2, UploadIdle
<1>5. CASE (\E id \in Ids : CancelByToken(id)) \/ (\E id \in copies : ExecCopyTimeout(id))
  <2>1. UNCHANGED <<payload, uploads, accepted, dups, srv, toServer>>
    BY <1>5 DEF CancelByToken, ExecCopyTimeout
  <2> QED BY <1>2, <2>1, UploadIdle
<1>6. CASE \E k \in DOMAIN resend : ExecResend(k)
  <2>1. UNCHANGED <<payload, uploads, accepted, dups, srv>>
    BY <1>6 DEF ExecResend
  <2>2. \A x \in toServer' : x \in toServer \/ x.type # "ACK"
    BY <1>6 DEF ExecResend, Msg
  <2> QED BY <1>2, <2>1, <2>2, UploadIdle
<1>7. CASE ExecPayloadTimeout
  BY <1>1, <1>7 DEF ExecPayloadTimeout, Lapse, Faultless
<1>8. CASE ExecForget
  <2>1. UNCHANGED <<payload, uploads, accepted, srv>> /\ toServer' \subseteq toServer
    BY <1>8 DEF ExecForget, history
  <2>2. \A k \in DOMAIN dups' : k + 1 \in DOMAIN dups /\ dups'[k] = dups[k + 1]
    BY <1>8, ForgetFacts
  <2>3. \A n : Continued(n) => Continued(n)'
    BY <2>1, <2>2 DEF Continued
  <2>4. \A n : Accepted(n)' <=> Accepted(n)
    BY <2>1 DEF Accepted, IsBlock
  <2> QED BY <1>2, <2>1, <2>3, <2>4, UploadAside
<1>9. ASSUME NEW m \in toClient, Receive(m) PROVE UploadInv'
  <2>1. CASE ReceivePing(m)
    <3>1. UNCHANGED <<payload, uploads, accepted, dups, srv>>
      BY <2>1 DEF ReceivePing, coap, history
    <3>2. \A x \in toServer' : x \in toServer \/ x.type # "ACK"
      BY <2>1 DEF ReceivePing, Msg
    <3> QED BY <1>2, <3>1, <3>2, UploadIdle
  <2>2. CASE ReceiveDuplicate(m)
    <3>1. UNCHANGED <<payload, uploads, accepted, dups, srv>>
      BY <2>2 DEF ReceiveDuplicate, coap, history
    <3>2. \A x \in toServer' : x \in toServer \/ \E k \in DOMAIN dups : x = dups[k].answer
      BY <2>2 DEF ReceiveDuplicate
    <3> QED BY <1>2, <3>1, <3>2, UploadIdle
  <2>3. CASE ReceiveEmpty(m)
    <3>1. UNCHANGED <<payload, uploads, accepted, dups, srv, toServer>>
      BY <2>3 DEF ReceiveEmpty
    <3> QED BY <1>2, <3>1, UploadIdle
  <2>4. CASE ReceiveRequest(m) \/ ReceiveResponse(m)
    <3>1. UNCHANGED <<payload, uploads>> /\ m.code # "block"
      BY <2>4 DEF ReceiveRequest, ReceiveResponse
    <3>2. PICK a : a = Msg("ACK", m.id, "done", 0)
      OBVIOUS
    <3>3. Accepting(m, a)
      BY <2>4, <3>2, RequestAccepts, ResponseAccepts
    <3>4. a.code # "continue"
      BY <3>2 DEF Msg
    <3>5. \A n : Continued(n) => Continued(n)'
      BY <3>3, <3>4, ContinuedEntered
    <3>6. \A n : Accepted(n)' <=> Accepted(n)
      BY <3>1, <3>3, AcceptedBlocks DEF IsBlock
    <3>7. srv' = srv
      BY <3>3 DEF Accepting
    <3> QED BY <1>2, <3>1, <3>5, <3>6, <3>7, UploadAside
  <2>5. CASE ReceiveBlock(m)
    BY <1>1, <1>2, <2>5, UploadBlock
  <2>6. CASE ReceiveLastBlock(m)
    BY <1>1, <1>2, <2>6, UploadLast
  <2> QED BY <1>9, <2>1, <2>2, <2>3, <2>4, <2>5, <2>6 DEF Receive
<1>10. CASE Server
  <2>1. UNCHANGED <<payload, uploads, accepted, dups, toServer>>
    BY <1>10 DEF Server, SrvRequest, SrvBlock, SrvReply, SrvRespond, coap, history
  <2>2. CASE SrvBlock
    BY <1>2, <2>2, UploadNext
  <2>3. CASE ~SrvBlock
    <3>1. srv'.next = srv.next /\ srv'.sized = srv.sized
      BY <1>10, <2>3 DEF Server, SrvRequest, SrvReply, SrvRespond, Types, ServerState
    <3> QED BY <1>2, <2>1, <3>1, UploadIdle
  <2> QED BY <2>2, <2>3
<1>11. CASE UNCHANGED vars
  <2>1. UNCHANGED <<payload, uploads, accepted, dups, srv, toServer>>
    BY <1>11 DEF vars, coap, history
  <2> QED BY <1>2, <2>1, UploadIdle
<1> QED BY <1>3, <1>4, <1>5, <1>6, <1>7, <1>8, <1>9, <1>10, <1>11 DEF Next, ClientSends, Exec

-----------------------------------------------------------------------------
(***************************************************************************)
(* The theorems                                                            *)
(***************************************************************************)

\* The invariant holds when the library is initialised.
LEMMA InitInv ==
  ASSUME Init
  PROVE  IInv
<1>1. /\ resend = <<>> /\ dups = <<>> /\ copies = {} /\ payload = NoPayload
      /\ toClient = {} /\ toServer = {} /\ heard = {} /\ answered = {}
      /\ accepted = <<>> /\ uploads = {} /\ lapses = {}
      /\ sends = [i \in Ids |-> 0] /\ failed = [i \in Ids |-> {}]
      /\ messageId \in OwnStarts /\ left \in Scenarios
  BY DEF Init
<1>2. /\ srv \in ServerState /\ srv.last = SrvBase /\ srv.next = 0
  <2>1. srv \in [last : {SrvBase}, next : {0}, blockId : {0}, sized : BOOLEAN,
                 reply : {[i \in Ids |-> "none"]}]
    BY DEF Init
  <2>2. SrvBase \in Nat /\ 0 \in 0..Blocks
    BY CoapAssumption
  <2> QED BY <2>1, <2>2 DEF ServerState
<1>3. /\ messageId \in 0..IdMax /\ left \in Allowance
      /\ ResendCount \in Nat /\ QueueMsgs \in Nat /\ DupSize \in Nat
  BY <1>1, CoapAssumption DEF Allowance
<1>4. /\ <<>> \in Seq(ResendEntry) /\ <<>> \in Seq(DupEntry) /\ <<>> \in Seq(SrvMsgs)
      /\ Len(<<>>) = 0 /\ DOMAIN <<>> = {}
  OBVIOUS
<1>5. Types
  <2>1. sends \in [Ids -> 0..(ResendCount + 1)]
    BY <1>1, <1>3
  <2>2. failed \in [Ids -> SUBSET {"send", "untold", "block", "refused", "cleared"}]
    BY <1>1
  <2>3. Len(resend) <= QueueMsgs /\ Len(dups) <= DupSize
    BY <1>1, <1>3, <1>4
  <2> QED BY <1>1, <1>2, <1>3, <1>4, <2>1, <2>2, <2>3, NoPayloadTyped DEF Types
<1>6. IdInv
  <2>1. OwnLive = {}
    BY <1>1, <1>4 DEF OwnLive, ResendIds
  <2>2. left.own <= IdMax
    <3>1. left.own \in 0..IdMax /\ IdMax \in Nat
      BY <1>1, CoapAssumption
    <3> QED BY <3>1
  <2> QED BY <1>1, <1>4, <2>1, <2>2 DEF IdInv
<1>7. ListInv
  <2>1. Fresh \subseteq Ids
    BY <1>5, <1>6, ToCome
  <2> QED BY <1>1, <1>4, <2>1 DEF ListInv
<1>8. DupInv
  BY <1>1, <1>4 DEF DupInv
<1>9. UploadInv
  BY <1>1, <1>2, <1>4 DEF UploadInv, NotBegun, Continued, Accepted
<1> QED BY <1>5, <1>6, <1>7, <1>8, <1>9 DEF IInv

\* Every step keeps it.
LEMMA StepInv ==
  ASSUME IInv, [Next]_vars
  PROVE  IInv'
<1>1. Types /\ IdInv /\ ListInv /\ DupInv /\ UploadInv
  BY DEF IInv
<1>2. IdStep
  BY <1>1, StepIds
<1>3. Types' /\ ResendInv' /\ DupsInv'
  BY <1>1, <1>2, TypesStep
<1>4. IdInv'
  BY <1>1, <1>2, <1>3, IdStepKeeps
<1>5. DupInv'
  BY <1>1, <1>2, DupInvStep
<1>6. UploadInv'
  BY <1>1, UploadStep
<1>7. ListInv'
  BY <1>3 DEF ListInv, ResendInv, DupsInv, UniqueResend
<1> QED BY <1>3, <1>4, <1>5, <1>6, <1>7 DEF IInv

\* The inductive invariant of mbed-coap's message layer: ids, lists and upload are
\* always as IInv says, for every size of the lists, every number of blocks and of
\* messages of the server, whatever ids the two sides have in common, and until the
\* client's own counter of ids (sn_coap_protocol.c, get_new_message_id) comes round.
THEOREM CoapInductive == Spec => []IInv
<1>1. Init => IInv
  BY InitInv
<1>2. IInv /\ [Next]_vars => IInv'
  BY StepInv
<1> QED BY <1>1, <1>2, PTL DEF Spec

\* The lists of sn_coap_protocol.c never hold more than they are configured
\* for, at most one entry for an id, and no message is transmitted more often
\* than sn_coap_resending_count allows.
THEOREM CoapTypeCorrect == Spec => []TypeOK
<1>1. IInv => TypeOK
  <2> SUFFICES ASSUME IInv PROVE TypeOK
    OBVIOUS
  <2>1. Types /\ ListInv
    BY DEF IInv
  <2>2. Len(resend) \in 0..QueueMsgs /\ Len(dups) \in 0..DupSize
    <3>1. Len(resend) \in Nat /\ Len(dups) \in Nat
      BY <2>1 DEF Types
    <3> QED BY <2>1, <3>1, CoapAssumption DEF Types
  <2>3. \A k \in DOMAIN resend : resend[k] \in [id : Ids, kind : OwnKinds, count : Nat]
    <3>1. \A k \in DOMAIN resend : resend[k] \in ResendEntry
      BY <2>1 DEF Types
    <3>2. 0..ResendCount \subseteq Nat
      BY CoapAssumption
    <3> QED BY <3>1, <3>2 DEF ResendEntry
  <2>4. \A k \in DOMAIN dups : dups[k] \in [id : Ids, own : BOOLEAN, answer : AnswerSet \cup {NoAnswer}]
    <3>1. \A k \in DOMAIN dups : dups[k] \in DupEntry
      BY <2>1 DEF Types
    <3> QED BY <3>1 DEF DupEntry
  <2>5. /\ payload.last \in -1..(Blocks - 1) /\ payload.sized \in BOOLEAN
        /\ \A k \in DOMAIN payload.blocks : payload.blocks[k] \in 0..Blocks
    <3>1. /\ payload.last \in -1..(Blocks - 1) /\ payload.sized \in BOOLEAN
          /\ payload.blocks \in Seq(0..Blocks)
      BY <2>1 DEF Types, Payload
    <3>2. PICK b : b = payload.blocks
      OBVIOUS
    <3>3. DOMAIN b = 1..Len(b) /\ \A k \in 1..Len(b) : b[k] \in 0..Blocks
      BY <3>1, <3>2, ElementOfSeq, LenProperties
    <3> QED BY <3>1, <3>2, <3>3
  <2>6. \A j, k \in DOMAIN dups : dups[j].id = dups[k].id => j = k
    BY <2>1 DEF ListInv
  <2> QED BY <2>1, <2>2, <2>3, <2>4, <2>5, <2>6 DEF TypeOK, Types, Allowance
<1> QED BY <1>1, CoapInductive, PTL

\* sn_coap_protocol_parse gives the application a message again, however often
\* the network repeats it, only after DupSize others, unless memory ran out; also
\* where ids of the two sides collide in the list.
THEOREM DuplicatesSafe == Spec => []NoEarlyRedelivery
<1>1. Init => NoEarlyRedelivery
  BY DEF Init, NoEarlyRedelivery
<1>2. IInv /\ NoEarlyRedelivery /\ [Next]_vars => NoEarlyRedelivery'
  BY RedeliveryStep DEF IInv
<1> QED BY <1>1, <1>2, CoapInductive, PTL DEF Spec

\* One occurrence, counted and said.
LEMMA OnceCounted ==
  ASSUME Types, NEW n, AcceptedOnce(n)
  PROVE  Once(n)
<1> DEFINE S == {k \in DOMAIN accepted : accepted[k].code = "block" /\ accepted[k].arg = n}
<1> SUFFICES ASSUME NEW j \in S, NEW k \in S, j # k PROVE FALSE
  BY DEF Once, IsBlock
<1>1. Cardinality(S) <= 1
  BY DEF AcceptedOnce
<1>2. IsFiniteSet(DOMAIN accepted)
  <2>1. DOMAIN accepted = 1..Len(accepted) /\ Len(accepted) \in Nat
    BY DEF Types
  <2> QED BY <2>1, FS_Interval
<1>3. IsFiniteSet(S)
  BY <1>2, FS_Subset
<1> HIDE DEF S
<1>4. IsFiniteSet({j}) /\ Cardinality({j}) = 1
  BY FS_Singleton
<1>5. IsFiniteSet({j} \cup {k}) /\ Cardinality({j} \cup {k}) = 1 + 1
  BY <1>4, FS_AddElement
<1>6. {j} \cup {k} \subseteq S
  OBVIOUS
<1>7. Cardinality({j} \cup {k}) <= Cardinality(S)
  BY <1>3, <1>6, FS_Subset
<1>8. Cardinality(S) \in Nat
  BY <1>3, FS_CardinalityType
<1> QED BY <1>1, <1>5, <1>7, <1>8

\* What sn_coap_handle_blockwise_message gives the application is the whole
\* upload, its blocks in order, for any number of blocks and however the
\* network delays, repeats and reorders those between the first and the last: where
\* the first or the last block is accepted twice, memory runs out or the payload
\* is dropped, UploadWhole promises nothing.
THEOREM UploadSafe == Spec => []UploadWhole
<1>1. IInv => UploadWhole
  <2> SUFFICES ASSUME Types, UploadInv, lapses = {}, AcceptedOnce(0), AcceptedOnce(Blocks - 1)
               PROVE  uploads \subseteq {[k \in 1..Blocks |-> k]}
    BY DEF IInv, UploadWhole
  <2>1. Once(0) /\ Once(Blocks - 1)
    BY OnceCounted
  <2> QED BY <2>1 DEF UploadInv, NotBegun, UnderWay, HandedOver
<1> QED BY <1>1, CoapInductive, PTL

\* A message that fails in another way.
LEMMA OtherFailure ==
  ASSUME failed \in [Ids -> SUBSET Failures], NEW i \in Ids, NEW id, NEW f, f \notin {"send", "untold"},
         failed' = [failed EXCEPT ![id] = @ \cup {f}]
  PROVE  failed'[i] \cap {"send", "untold"} \subseteq failed[i]
<1>1. CASE i = id
  BY <1>1
<1>2. CASE i # id
  BY <1>2
<1> QED BY <1>1, <1>2

\* A message of which an ACK or a RST was accepted is not transmitted again by
\* sn_coap_protocol_exec, and its sending does not fail, told or untold.  An ACK that
\* is taken for a duplicate, because the server has lately used its id, is not
\* accepted: of it nothing is said.
THEOREM AckSafe == Spec => AckIsFinal
<1> DEFINE A == \A id \in heard : /\ sends'[id] = sends[id]
                                  /\ failed'[id] \cap {"send", "untold"} \subseteq failed[id]
<1>1. IInv /\ [Next]_vars => [A]_vars
  <2> SUFFICES ASSUME IInv, Next, NEW id \in heard
               PROVE  /\ sends'[id] = sends[id]
                      /\ failed'[id] \cap {"send", "untold"} \subseteq failed[id]
    OBVIOUS
  <2>1. Types /\ IdInv /\ ListInv
    BY DEF IInv
  <2>2. id \in Ids /\ id \notin Fresh /\ sends \in [Ids -> 0..(ResendCount + 1)]
        /\ failed \in [Ids -> SUBSET Failures]
    BY <2>1 DEF IdInv, Types, Failures
  <2>3. CASE \/ \E kind \in OwnKinds : Send(kind) \/ SendRefused(kind)
             \/ SendCopyFails
    <3>1. Build /\ left'.own = left.own - 1
      BY <2>1, <2>3, AllowanceStep DEF Send, SendRefused, SendCopyFails
    <3>2. NewMessageId \in Fresh
      BY <2>1, <3>1, GivesOut DEF Build
    <3>3. sends' = sends \/ sends' = [sends EXCEPT ![NewMessageId] = @ + 1]
      BY <2>3 DEF Send, SendRefused, SendCopyFails
    <3>4. failed' = failed \/ failed' = [failed EXCEPT ![NewMessageId] = @ \cup {"refused"}]
      BY <2>3 DEF Send, SendRefused, SendCopyFails
    <3>5. sends'[id] = sends[id]
      BY <2>2, <3>2, <3>3
    <3> QED BY <2>2, <3>4, <3>5, OtherFailure
  <2>4. CASE ClearAll
    BY <2>2, <2>4 DEF ClearAll
  <2>5. ASSUME NEW i \in Ids, CancelByToken(i)
        PROVE  /\ sends'[id] = sends[id]
               /\ failed'[id] \cap {"send", "untold"} \subseteq failed[id]
    <3>1. sends' = sends /\ failed' = [failed EXCEPT ![i] = @ \cup {"cleared"}]
      BY <2>5 DEF CancelByToken
    <3> QED BY <2>2, <3>1, OtherFailure
  <2>6. ASSUME NEW i \in copies, ExecCopyTimeout(i)
        PROVE  /\ sends'[id] = sends[id]
               /\ failed'[id] \cap {"send", "untold"} \subseteq failed[id]
    <3>1. sends' = sends /\ failed' = [failed EXCEPT ![i] = @ \cup {"block"}]
      BY <2>6 DEF ExecCopyTimeout
    <3> QED BY <2>2, <3>1, OtherFailure
  <2>7. ASSUME NEW k \in DOMAIN resend, ExecResend(k)
        PROVE  /\ sends'[id] = sends[id]
               /\ failed'[id] \cap {"send", "untold"} \subseteq failed[id]
    <3>1. resend[k].id # id
      BY <2>1 DEF ListInv
    <3>2. sends' = sends \/ sends' = [sends EXCEPT ![resend[k].id] = @ + 1]
      BY <2>7 DEF ExecResend
    <3>3. \/ failed' = failed
          \/ failed' = [failed EXCEPT ![resend[k].id] = @ \cup {"send"}]
          \/ failed' = [failed EXCEPT ![resend[k].id] = @ \cup {"untold"}]
      BY <2>7 DEF ExecResend
    <3> QED BY <2>2, <3>1, <3>2, <3>3
  <2>8. CASE ExecPayloadTimeout \/ ExecForget
    BY <2>8 DEF ExecPayloadTimeout, ExecForget, history
  <2>9. CASE \E m \in toClient : Receive(m)
    <3>1. UNCHANGED <<sends, failed>>
      BY <2>9 DEF Receive, ReceivePing, ReceiveDuplicate, ReceiveRequest, ReceiveResponse, ReceiveEmpty,
                  ReceiveBlock, ReceiveLastBlock, AcceptsNew, history
    <3> QED BY <3>1
  <2>10. CASE Server
    <3>1. UNCHANGED <<sends, failed>>
      BY <2>10 DEF Server, SrvRequest, SrvBlock, SrvReply, SrvRespond, history
    <3> QED BY <3>1
  <2> QED BY <2>3, <2>4, <2>5, <2>6, <2>7, <2>8, <2>9, <2>10 DEF Next, ClientSends, Exec
<1> QED BY <1>1, CoapInductive, PTL DEF Spec, AckIsFinal

=============================================================================
