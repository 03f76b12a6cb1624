-------------------------- MODULE CertRenewalProofs --------------------------
(***************************************************************************)
(* Machine-checked proofs about module CertRenewal.                        *)
(***************************************************************************)
EXTENDS CertRenewal, FiniteSetTheorems, TLAPS

-----------------------------------------------------------------------------
(***************************************************************************)
(* One renewal at a time                                                   *)
(***************************************************************************)

\* No request waits for an answer: the client is ready and the semaphore
\* free, or the device is off or still restoring and it is taken.
Quiet == /\ queue = <<>> /\ ~est /\ open = {}
         /\ IF pc = "ready" THEN sem = 1 ELSE sem = 0 /\ current = 0

\* The one request is in the event loop, at the EST service or at work on
\* the storage, and the semaphore is taken.
Busy == /\ sem = 0 /\ current \in 1 .. MaxReq /\ open = {current}
        /\ \/ pc = "ready" /\ ~est /\ queue \in {<<"request">>, <<"est">>}
           \/ pc = "ready" /\ est /\ queue = <<>>
           \/ pc \notin {"off", "ready"} /\ ~est /\ queue = <<>>

\* The inductive invariant of the client.
RequestInv == est \in BOOLEAN /\ (Quiet \/ Busy)

\* The initial states satisfy it.
LEMMA RequestInit == Init => RequestInv
BY DEF Init, RequestInv, Quiet

\* There is a name for a request when none waits.
LEMMA NewRequestName ==
  ASSUME open = {}
  PROVE  NewRequest \in 1 .. MaxReq
<1>1. \E id \in 1 .. MaxReq : id \notin open
  BY BoundAssumption
<1> QED BY <1>1 DEF NewRequest

\* An answer leaves no request waiting.
LEMMA FinishQuiet ==
  ASSUME RequestInv, Busy, NEW ok, Finish(current, ok), pc' = "ready",
         est' = FALSE, queue' = <<>>
  PROVE  RequestInv'
<1>1. open' = {}
  BY DEF Busy, Finish
<1>2. sem' = 1
  BY DEF Busy, Finish
<1> QED BY <1>1, <1>2 DEF RequestInv, Quiet

\* Every step keeps it.
LEMMA RequestNext == RequestInv /\ [Next]_vars => RequestInv'
<1> SUFFICES ASSUME RequestInv, [Next]_vars PROVE RequestInv'
  OBVIOUS
<1>1. CASE Request
  <2>1. Quiet /\ pc = "ready" /\ sem = 1
    BY <1>1 DEF Request, RequestInv, Quiet, Busy
  <2>2. NewRequest \in 1 .. MaxReq
    BY <2>1, NewRequestName DEF Quiet
  <2> QED BY <1>1, <2>1, <2>2 DEF Request, RequestInv, Quiet, Busy, runVars
<1>2. ASSUME NEW initiator \in {"server", "device"}, RequestFails(initiator)
      PROVE  RequestInv'
  BY <1>2 DEF RequestFails, RequestInv, Quiet, Busy, runVars
<1>3. CASE Start
  <2>1. Busy /\ queue = <<"request">> /\ ~est /\ pc = "ready"
    BY <1>3 DEF Start, RequestInv, Quiet, Busy
  <2>2. queue' = <<>> /\ pc' = "ready"
    BY <1>3, <2>1 DEF Start, runVars
  <2>3. CASE est' = TRUE /\ UNCHANGED <<sem, current, open, told>>
    BY <2>1, <2>2, <2>3 DEF RequestInv, Busy
  <2>4. CASE Finish(current, FALSE) /\ UNCHANGED <<gen, est>>
    BY <2>1, <2>2, <2>4, FinishQuiet DEF RequestInv
  <2> QED BY <1>3, <2>3, <2>4 DEF Start
<1>4. CASE EstFails
  <2>1. Busy /\ queue = <<>> /\ pc = "ready"
    BY <1>4 DEF EstFails, RequestInv, Quiet, Busy
  <2> QED BY <1>4, <2>1, FinishQuiet DEF EstFails, runVars
<1>5. CASE EstAnswers
  <2>1. Busy /\ queue = <<>> /\ pc = "ready"
    BY <1>5 DEF EstAnswers, RequestInv, Quiet, Busy
  <2>2. est' = FALSE /\ pc' = "ready"
    BY <1>5, <2>1 DEF EstAnswers, runVars
  <2>3. CASE queue' = Append(queue, "est") /\ UNCHANGED <<sem, current, open, told>>
    <3>1. queue' = <<"est">>
      BY <2>1, <2>3
    <3> QED BY <2>1, <2>2, <2>3, <3>1 DEF RequestInv, Busy
  <2>4. CASE Finish(current, FALSE) /\ UNCHANGED queue
    BY <2>1, <2>2, <2>4, FinishQuiet
  <2> QED BY <1>5, <2>3, <2>4 DEF EstAnswers
<1>6. CASE Respond
  <2>1. Busy /\ queue = <<"est">> /\ ~est /\ pc = "ready"
    BY <1>6 DEF Respond, RequestInv, Quiet, Busy
  <2>2. queue' = <<>> /\ est' = est
    BY <1>6, <2>1 DEF Respond
  <2>3. CASE pc' = "backup" /\ UNCHANGED <<sem, current, open, told>>
    BY <2>1, <2>2, <2>3 DEF RequestInv, Busy
  <2>4. CASE Finish(current, FALSE) /\ UNCHANGED pc
    BY <2>1, <2>2, <2>4, FinishQuiet DEF RequestInv
  <2> QED BY <1>6, <2>3, <2>4 DEF Respond, Run
<1>7. CASE OpSucceeds \/ OpFails
  <2>1. /\ UNCHANGED <<sem, current, queue, est, open, told>>
        /\ pc' = pc \/ (pc = "store" /\ pc' = "freed")
    BY <1>7 DEF OpSucceeds, OpFails, clientVars
  <2> QED BY <2>1 DEF RequestInv, Quiet, Busy
<1>8. CASE Advance
  <2>1. UNCHANGED <<sem, current, queue, est, open, told>>
    BY <1>8 DEF Advance, clientVars
  <2>2. pc \notin {"off", "ready"} /\ pc' \notin {"off", "ready"}
    BY <1>8 DEF Advance, BackupDone, StatusDone, CleanDone, StoreDone, Restore, WipeDone,
                CopyDone, UndoDone, Done, Run
  <2> QED BY <2>1, <2>2 DEF RequestInv, Quiet, Busy
<1>9. CASE Return
  <2>1. CASE UnmarkDone /\ UNCHANGED <<current, open, told>>
    <3>1. /\ pc = "unmark" /\ UNCHANGED <<queue, est>>
          /\ \/ current = 0 /\ pc' = "ready" /\ sem' = 1
             \/ current # 0 /\ pc' = "discard" /\ sem' = sem
      BY <1>9, <2>1 DEF Return, UnmarkDone, Done, Run
    <3> QED BY <2>1, <3>1, BoundAssumption DEF RequestInv, Quiet, Busy
  <2>2. CASE DiscardDone
    <3>1. /\ pc = "discard" /\ pc' = "ready" /\ UNCHANGED <<queue, est>>
          /\ Finish(current, ~bad)
      BY <1>9, <2>2 DEF Return, DiscardDone, Done, Run
    <3>2. CASE Busy
      BY <3>1, <3>2, FinishQuiet DEF RequestInv, Busy
    <3>3. CASE Quiet
      BY <3>1, <3>3 DEF RequestInv, Quiet, Finish
    <3> QED BY <3>2, <3>3 DEF RequestInv
  <2> QED BY <1>9, <2>1, <2>2 DEF Return
<1>10. CASE PowerLoss \/ Abort
  BY <1>10 DEF PowerLoss, Abort, Forget, RequestInv, Quiet
<1>11. CASE Boot
  <2>1. pc = "off" /\ Quiet
    BY <1>11 DEF Boot, RequestInv, Quiet, Busy
  <2> QED BY <1>11, <2>1 DEF Boot, Run, RequestInv, Quiet
<1>12. CASE UNCHANGED vars
  BY <1>12 DEF vars, runVars, clientVars, RequestInv, Quiet, Busy
<1> QED BY <1>1, <1>2, <1>3, <1>4, <1>5, <1>6, <1>7, <1>8, <1>9, <1>10, <1>11, <1>12
        DEF Next, Step

\* Every request that waits for an answer is at exactly one stage and is the
\* one that current_cert names; the semaphore is taken meanwhile and given
\* back once, whatever fails and wherever power is lost.
THEOREM RequestSafe == Spec => []OneRenewal
<1>1. RequestInv => OneRenewal
  <2>1. Cardinality({}) = 0 /\ \A x : Cardinality({x}) = 1
    BY FS_EmptySet, FS_Singleton
  <2>2. RequestInv /\ Quiet => OneRenewal
    BY <2>1 DEF RequestInv, Quiet, OneRenewal, Stages
  <2>3. RequestInv /\ Busy => OneRenewal
    <3> SUFFICES ASSUME RequestInv, Busy PROVE OneRenewal
      OBVIOUS
    <3>1. Cardinality(open) = 1 /\ current # 0 /\ open # {}
      <4>1. open = {current} /\ current \in 1 .. MaxReq
        BY DEF Busy
      <4>2. current # 0
        BY <4>1, BoundAssumption
      <4> QED BY <2>1, <4>1, <4>2
    <3>2. Stages = 1
      <4>1. CASE pc = "ready" /\ ~est /\ queue \in {<<"request">>, <<"est">>}
        <5>1. Len(queue) = 1
          BY <4>1
        <5> QED BY <4>1, <5>1 DEF Stages
      <4>2. CASE pc = "ready" /\ est /\ queue = <<>>
        BY <4>2 DEF Stages
      <4>3. CASE pc \notin {"off", "ready"} /\ ~est /\ queue = <<>>
        BY <3>1, <4>3 DEF Stages
      <4> QED BY <4>1, <4>2, <4>3 DEF Busy
    <3> QED BY <3>1, <3>2 DEF Busy, OneRenewal
  <2> QED BY <2>2, <2>3 DEF RequestInv
<1> QED BY <1>1, RequestInit, RequestNext, PTL DEF Spec

-----------------------------------------------------------------------------
(***************************************************************************)
(* The items of the storage: the inductive invariant, for chains of one or *)
(* two certificates and while no write of the storage fails                *)
(***************************************************************************)

\* The entries of the items with a prefix, and the operations on them.
Slots(p) == {Priv(p), Pub(p), Mid(p, 1), Mid(p, 2), End(p, 1), End(p, 2)}
Removes(p) == [kind : {"remove"}, at : Slots(p), val : {0}]
Stores(p) ==
    [kind : {"store"}, at : {Priv(p), Pub(p), End(p, 1)}, val : 0 .. MaxGen]
    \cup [kind : {"create"}, at : {Mid(p, 1)}, val : 0 .. MaxGen]
    \cup [kind : {"add"}, at : {End(p, 2)}, val : 0 .. Foreign]

\* A chain has one certificate under Crtae_, or a middle one and Crtbe_.
Shape ==
    /\ disk \in [Entries -> 0 .. MaxGen]
    /\ \A p \in Prefixes :
         disk[Mid(p, 2)] = 0 /\ (disk[Mid(p, 1)] = 0 \/ disk[End(p, 1)] = 0)
    /\ len \in [Gens -> [n : {1, 2}, ok : BOOLEAN]]
    /\ gen \in Gens /\ told \in Gens
    /\ withPub \in BOOLEAN /\ failed \in BOOLEAN /\ bad \in BOOLEAN

\* The items with a prefix are one matching set.
Good(p) ==
    LET g == disk[Priv(p)]
    IN /\ g \in 1 .. gen
       /\ disk[Pub(p)] \in {0, g}
       /\ IF len[g].n = 1 THEN disk[Mid(p, 1)] = 0 /\ disk[End(p, 1)] = g
          ELSE len[g].ok /\ disk[Mid(p, 1)] = g /\ disk[End(p, 2)] = g

\* What check_items_existence looks for.
Complete(p) == Has(Priv(p)) /\ Opens(p)

\* Where the next start finds the items, and what it finds there.
Place == IF Has(Status) /\ Complete("ce") THEN "ce" ELSE "kcm"
SafeAt(p) ==
    /\ Good(p) /\ disk[Priv(p)] >= told
    /\ disk[Pub(p)] = 0 => disk[Pub("kcm")] = 0 /\ disk[Pub("ce")] = 0

\* The operations left give entry e the value v.
Target(e, v) ==
    /\ \A i \in DOMAIN todo : todo[i].at = e => todo[i].val = v
    /\ disk[e] = v \/ \E i \in DOMAIN todo : todo[i].at = e

\* They make the items with prefix p the set of generation g.
SetTarget(p, g, pub) ==
    /\ Target(Priv(p), g) /\ Target(Pub(p), pub)
    /\ IF len[g].n = 1 THEN Target(End(p, 1), g)
       ELSE /\ Target(Mid(p, 1), g)
            /\ Target(End(p, 2), IF len[g].ok THEN g ELSE Foreign)
            /\ ~len[g].ok =>
                 \E i \in DOMAIN todo : todo[i].kind = "add" /\ todo[i].val = Foreign

\* None of the operations of ce_restore_backup_items is refused.
Unrefused(g) ==
    \A i \in DOMAIN todo :
        LET o == todo[i]
        IN /\ o \in Stores("kcm") /\ o.val = g
           /\ o.at \in {Priv("kcm"), Pub("kcm")} => disk[o.at] = 0
           /\ o.at \in {Mid("kcm", 1), End("kcm", 1)} =>
                disk[Mid("kcm", 1)] = 0 /\ disk[End("kcm", 1)] = 0
           /\ o.at = End("kcm", 2) =>
                \/ disk[Mid("kcm", 1)] = g
                \/ \E j \in DOMAIN todo : j < i /\ todo[j].at = Mid("kcm", 1)
           /\ \A j \in DOMAIN todo : j < i =>
                /\ todo[j].at # o.at
                /\ ~({todo[j].at, o.at} \subseteq {Mid("kcm", 1), End("kcm", 1)})

\* A public key is stored only where the items have one.
PubStored(p, q) ==
    \A i \in DOMAIN todo : todo[i].at = Pub(p) => todo[i].val = 0 \/ disk[Pub(q)] # 0

\* The renewal under way is of a newer set than the one at p.
Renewing(p) == withPub = (disk[Pub(p)] # 0) /\ disk[Priv(p)] < gen

\* The backup is complete and marked by the status file.
Marked == Has(Status) /\ Complete("ce")

\* What holds while each function runs.
OffInv == todo = <<>>
ReadyInv == /\ todo = <<>> /\ ~Has(Status)
            /\ est \/ queue = <<"est">> => Renewing("kcm")
BackupInv == /\ ~Has(Status) /\ Renewing("kcm")
             /\ todo \in Seq(Stores("ce") \cup Removes("ce")) /\ PubStored("ce", "kcm")
             /\ ~failed => SetTarget("ce", disk[Priv("kcm")], disk[Pub("kcm")])
StatusInv == /\ ~failed /\ Good("kcm") /\ Good("ce") /\ Renewing("ce")
             /\ disk[Priv("kcm")] = disk[Priv("ce")] /\ disk[Pub("kcm")] = disk[Pub("ce")]
             /\ \/ todo = <<Op("store", Status, 1)>> /\ ~Has(Status)
                \/ todo = <<>> /\ Has(Status)
CleanInv == ~failed /\ Marked /\ Renewing("ce") /\ todo \in Seq(Removes("kcm"))
StoreInv == /\ Marked /\ Renewing("ce")
            /\ todo \in Seq(Stores("kcm")) /\ PubStored("kcm", "ce")
            /\ ~failed => SetTarget("kcm", gen, IF withPub THEN gen ELSE 0)
FreedInv == Marked /\ todo \in Seq(Removes("kcm"))
RestoreInv == todo = <<>> /\ Has(Status) /\ (bad \/ current = 0)
WipeInv == /\ Marked /\ (bad \/ current = 0) /\ todo \in Seq(Removes("kcm"))
           /\ Target(Priv("kcm"), 0) /\ Target(Pub("kcm"), 0)
           /\ Target(Mid("kcm", 1), 0) /\ Target(End("kcm", 1), 0)
CopyInv == /\ Marked /\ (bad \/ current = 0) /\ ~failed
           /\ todo \in Seq(Stores("kcm")) /\ PubStored("kcm", "ce")
           /\ SetTarget("kcm", disk[Priv("ce")], disk[Pub("ce")])
           /\ Unrefused(disk[Priv("ce")])
UndoInv == /\ SafeAt("kcm") /\ (bad \/ current = 0) /\ todo \in Seq(Removes("ce"))
           /\ Has(Priv("ce")) => todo # <<>> /\ Head(todo).at = Priv("ce")
UnmarkInv == /\ SafeAt("kcm") /\ (bad \/ current = 0 \/ disk[Priv("kcm")] = gen)
             /\ \/ todo = <<Remove(Status)>>
                \/ todo = <<>> /\ ~Has(Status)
DiscardInv == /\ ~Has(Status) /\ (bad \/ disk[Priv("kcm")] = gen)
              /\ todo \in Seq(Removes("ce"))

PcInv ==
    /\ pc \in {"off", "ready", "backup", "status", "clean", "store", "freed", "restore",
               "wipe", "copy", "undo", "unmark", "discard"}
    /\ pc = "off" => OffInv
    /\ pc = "ready" => ReadyInv
    /\ pc = "backup" => BackupInv
    /\ pc = "status" => StatusInv
    /\ pc = "clean" => CleanInv
    /\ pc = "store" => StoreInv
    /\ pc = "freed" => FreedInv
    /\ pc = "restore" => RestoreInv
    /\ pc = "wipe" => WipeInv
    /\ pc = "copy" => CopyInv
    /\ pc = "undo" => UndoInv
    /\ pc = "unmark" => UnmarkInv
    /\ pc = "discard" => DiscardInv

\* The inductive invariant of the storage.
StorageInv == RequestInv /\ (written => Shape /\ SafeAt(Place) /\ PcInv)

\* The chains that the proofs are about: longer ones do not survive (run
\* renewal_shorter_chain).
ShortChains == ChainLens \subseteq {1, 2} /\ MaxChain >= 2

-----------------------------------------------------------------------------
(***************************************************************************)
(* Entries, chains and operations                                          *)
(***************************************************************************)

\* The name of an entry tells its item, and no two items share one.
LEMMA EntryParts ==
  /\ Status[1] = "ce" /\ Status[2] = "status"
  /\ \A p : Priv(p)[1] = p /\ Priv(p)[2] = "priv"
  /\ \A p : Pub(p)[1] = p /\ Pub(p)[2] = "pub"
  /\ \A p, i : Mid(p, i)[1] = p /\ Mid(p, i)[2] = "mid" /\ Mid(p, i)[3] = i
  /\ \A p, i : End(p, i)[1] = p /\ End(p, i)[2] = "end" /\ End(p, i)[3] = i
BY DEF Status, Priv, Pub, Mid, End

\* The items that the proofs are about have entries.
LEMMA EntryIn ==
  ASSUME ShortChains
  PROVE  /\ Status \in Entries
         /\ \A p \in Prefixes : Slots(p) \subseteq Entries
<1>1. 1 \in 1 .. MaxChain /\ 2 \in 1 .. MaxChain
  BY ChainAssumption DEF ShortChains
<1> QED BY <1>1 DEF Entries, Slots

\* Which chains storage_cert_chain_open accepts, and what it reads.
LEMMA OpensIff ==
  ASSUME ShortChains, Shape, NEW p \in Prefixes
  PROVE  Opens(p) <=> \/ disk[Mid(p, 1)] = 0 /\ disk[End(p, 1)] # 0
                      \/ disk[Mid(p, 1)] # 0 /\ disk[End(p, 2)] # 0
<1>1. 1 \in 1 .. MaxChain /\ 2 \in 1 .. MaxChain /\ MaxChain \in Nat
  BY ChainAssumption DEF ShortChains
<1>2. IsChainLen(p, 1) <=> disk[Mid(p, 1)] = 0 /\ disk[End(p, 1)] # 0
  BY <1>1 DEF IsChainLen, Has
<1>3. disk[Mid(p, 2)] = 0
  BY DEF Shape
<1>4. IsChainLen(p, 2) <=> disk[Mid(p, 1)] # 0 /\ disk[End(p, 2)] # 0
  BY <1>1, <1>3 DEF IsChainLen, Has
<1>5. \A n \in 1 .. MaxChain : n # 1 /\ n # 2 => ~IsChainLen(p, n)
  BY <1>1, <1>3 DEF IsChainLen, Has
<1> QED BY <1>1, <1>2, <1>4, <1>5 DEF Opens

\* The chain of a single certificate.
LEMMA ChainOfSingle ==
  ASSUME ShortChains, Shape, NEW p \in Prefixes, disk[Mid(p, 1)] = 0, disk[End(p, 1)] # 0
  PROVE  ChainOf(p) = [i \in 1 .. 1 |-> disk[End(p, 1)]]
<1>1. 1 \in 1 .. MaxChain /\ MaxChain \in Nat
  BY ChainAssumption DEF ShortChains
<1>2. IsChainLen(p, 1)
  BY <1>1 DEF IsChainLen, Has
<1>3. \A n \in 1 .. MaxChain : n # 1 => ~IsChainLen(p, n)
  BY <1>1 DEF IsChainLen, Has
<1>4. (CHOOSE n \in 1 .. MaxChain : IsChainLen(p, n)) = 1
  BY <1>1, <1>2, <1>3
<1>5. ChainOf(p) = [i \in 1 .. 1 |-> IF i = 1 THEN disk[End(p, i)] ELSE disk[Mid(p, i)]]
  BY <1>4 DEF ChainOf
<1>6. \A i \in 1 .. 1 : i = 1
  OBVIOUS
<1>7. \A i \in 1 .. 1 : (IF i = 1 THEN disk[End(p, i)] ELSE disk[Mid(p, i)]) = disk[End(p, 1)]
  BY <1>6
<1> QED BY <1>5, <1>7

\* The chain of two certificates.
LEMMA ChainOfTwo ==
  ASSUME ShortChains, Shape, NEW p \in Prefixes, disk[Mid(p, 1)] # 0, disk[End(p, 2)] # 0
  PROVE  ChainOf(p) = [i \in 1 .. 2 |-> IF i = 2 THEN disk[End(p, 2)] ELSE disk[Mid(p, 1)]]
<1>1. 2 \in 1 .. MaxChain /\ MaxChain \in Nat
  BY ChainAssumption DEF ShortChains
<1>2. disk[Mid(p, 2)] = 0
  BY DEF Shape
<1>3. IsChainLen(p, 2)
  BY <1>1, <1>2 DEF IsChainLen, Has
<1>4. \A n \in 1 .. MaxChain : n # 2 => ~IsChainLen(p, n)
  BY <1>1, <1>2 DEF IsChainLen, Has
<1>5. (CHOOSE n \in 1 .. MaxChain : IsChainLen(p, n)) = 2
  BY <1>1, <1>3, <1>4
<1>6. ChainOf(p) = [i \in 1 .. 2 |-> IF i = 2 THEN disk[End(p, i)] ELSE disk[Mid(p, i)]]
  BY <1>5 DEF ChainOf
<1>7. \A i \in 1 .. 2 : i = 1 \/ i = 2
  OBVIOUS
<1>8. \A i \in 1 .. 2 : (IF i = 2 THEN disk[End(p, i)] ELSE disk[Mid(p, i)])
                        = (IF i = 2 THEN disk[End(p, 2)] ELSE disk[Mid(p, 1)])
  BY <1>7
<1> QED BY <1>6, <1>8

\* A matching set is complete, and it is what the properties ask for.
LEMMA GoodIsSet ==
  ASSUME ShortChains, Shape, NEW p \in Prefixes, Good(p)
  PROVE  Complete(p) /\ disk[Priv(p)] \in Gens /\ IsSet(p, disk[Priv(p)])
<1> DEFINE g == disk[Priv(p)]
<1>1. g \in 1 .. gen /\ disk[Pub(p)] \in {0, g}
  BY DEF Good
<1>2. g \in Gens /\ g # 0
  BY <1>1, BoundAssumption DEF Shape, Gens
<1>3. len[g].n \in {1, 2}
  BY <1>2 DEF Shape
<1>4. CASE len[g].n = 1
  <2>1. disk[Mid(p, 1)] = 0 /\ disk[End(p, 1)] = g
    BY <1>4 DEF Good
  <2>2. Opens(p)
    BY <1>2, <2>1, OpensIff
  <2>3. ChainOf(p) = [i \in 1 .. 1 |-> g]
    BY <1>2, <2>1, ChainOfSingle
  <2>4. Issued(g) = [i \in 1 .. 1 |-> g]
    BY <1>4 DEF Issued
  <2> QED BY <1>1, <1>2, <2>2, <2>3, <2>4 DEF IsSet, Complete, Has
<1>5. CASE len[g].n = 2
  <2>1. len[g].ok /\ disk[Mid(p, 1)] = g /\ disk[End(p, 2)] = g
    BY <1>5 DEF Good
  <2>2. Opens(p)
    BY <1>2, <2>1, OpensIff
  <2>3. ChainOf(p) = [i \in 1 .. 2 |-> g]
    BY <1>2, <2>1, ChainOfTwo
  <2>4. Issued(g) = [i \in 1 .. 2 |-> g]
    BY <1>5, <2>1 DEF Issued
  <2> QED BY <1>1, <1>2, <2>2, <2>3, <2>4 DEF IsSet, Complete, Has
<1> QED BY <1>3, <1>4, <1>5

\* The operations on the items with a prefix.
LEMMA OpFacts ==
  ASSUME ShortChains, NEW p \in Prefixes, NEW o \in Stores(p) \cup Removes(p)
  PROVE  /\ o.at \in Slots(p) /\ o.at \in Entries /\ o.at # Status
         /\ \A q \in Prefixes : q # p => o.at \notin Slots(q)
         /\ o \in Removes(p) => o.kind = "remove" /\ o.val = 0 /\ ~Refused(o)
         /\ o \in Stores(p) => \/ o.kind = "store" /\ o.at \in {Priv(p), Pub(p), End(p, 1)}
                               \/ o.kind = "create" /\ o.at = Mid(p, 1)
                               \/ o.kind = "add" /\ o.at = End(p, 2)
<1>1. o.at \in Slots(p)
  BY DEF Stores, Removes, Slots
<1>2. o.at \in Entries
  BY <1>1, EntryIn
<1>3. \A e \in Slots(p) : e[1] = p /\ e[2] # "status"
  BY EntryParts DEF Slots
<1>4. \A q \in Prefixes : \A e \in Slots(q) : e[1] = q
  BY EntryParts DEF Slots
<1>5. o \in Removes(p) => o.kind = "remove" /\ o.val = 0 /\ ~Refused(o)
  BY DEF Removes, Refused
<1>6. o \in Stores(p) => \/ o.kind = "store" /\ o.at \in {Priv(p), Pub(p), End(p, 1)}
                         \/ o.kind = "create" /\ o.at = Mid(p, 1)
                         \/ o.kind = "add" /\ o.at = End(p, 2)
  BY DEF Stores
<1> QED BY <1>1, <1>2, <1>3, <1>4, <1>5, <1>6, EntryParts

\* A write changes one entry.
LEMMA WriteOne ==
  ASSUME Shape, NEW o, o.at \in Entries, disk' = [disk EXCEPT ![o.at] = o.val]
  PROVE  /\ disk'[o.at] = o.val
         /\ \A e \in Entries : e # o.at => disk'[e] = disk[e]
BY DEF Shape

\* A write that the storage accepts keeps the chains well formed.
LEMMA WriteShape ==
  ASSUME ShortChains, Shape, NEW p \in Prefixes, NEW o \in Stores(p) \cup Removes(p), ~Refused(o),
         disk' = [disk EXCEPT ![o.at] = o.val], UNCHANGED <<len, gen, told, withPub, failed, bad>>
  PROVE  Shape'
<1>1. o.at \in Slots(p) /\ o.at \in Entries
  BY OpFacts
<1>2. o.val \in 0 .. MaxGen
  <2>1. CASE o.kind = "add"
    <3>1. o.at = End(p, 2)
      BY <2>1 DEF Stores, Removes
    <3>2. disk[Mid(p, 1)] = o.val
      BY <2>1, <3>1, EntryParts DEF Refused
    <3>3. Mid(p, 1) \in Entries
      BY EntryIn DEF Slots
    <3> QED BY <3>2, <3>3 DEF Shape
  <2>2. CASE o.kind # "add"
    BY <2>2, BoundAssumption DEF Stores, Removes
  <2> QED BY <2>1, <2>2
<1>3. disk' \in [Entries -> 0 .. MaxGen]
  BY <1>1, <1>2 DEF Shape
<1>4. /\ disk'[o.at] = o.val
      /\ \A e \in Entries : e # o.at => disk'[e] = disk[e]
  BY <1>1, WriteOne
<1>5. ASSUME NEW q \in Prefixes
      PROVE  disk'[Mid(q, 2)] = 0 /\ (disk'[Mid(q, 1)] = 0 \/ disk'[End(q, 1)] = 0)
  <2>1. Mid(q, 2) \in Entries /\ Mid(q, 1) \in Entries /\ End(q, 1) \in Entries
    BY EntryIn DEF Slots
  <2>2. disk[Mid(q, 2)] = 0 /\ (disk[Mid(q, 1)] = 0 \/ disk[End(q, 1)] = 0)
    BY DEF Shape
  <2>3. Mid(q, 2) # Mid(q, 1) /\ Mid(q, 2) # End(q, 1) /\ Mid(q, 1) # End(q, 1)
    BY EntryParts
  <2>4. CASE o \in Removes(p)
    <3>1. o.val = 0
      BY <2>4, OpFacts
    <3> QED BY <1>4, <2>1, <2>2, <3>1
  <2>5. CASE o \in Stores(p)
    <3>1. o.at # Mid(q, 2)
      BY <2>5, OpFacts, EntryParts
    <3>2. disk'[Mid(q, 2)] = 0
      BY <1>4, <2>1, <2>2, <3>1
    <3>3. CASE o.at = Mid(q, 1)
      <4>1. o.kind = "create" /\ o.at[1] = q /\ o.at[2] = "mid"
        BY <2>5, <3>3, OpFacts, EntryParts
      <4>2. disk[End(q, 1)] = 0
        BY <4>1 DEF Refused, Exists, Has
      <4> QED BY <1>4, <2>1, <2>3, <3>2, <3>3, <4>2
    <3>4. CASE o.at = End(q, 1)
      <4>1. o.kind = "store" /\ o.at[1] = q /\ o.at[2] = "end"
        BY <2>5, <3>4, OpFacts, EntryParts
      <4>2. disk[Mid(q, 1)] = 0
        BY <4>1 DEF Refused, Exists, Has
      <4> QED BY <1>4, <2>1, <2>3, <3>2, <3>4, <4>2
    <3>5. CASE o.at # Mid(q, 1) /\ o.at # End(q, 1)
      BY <1>4, <2>1, <2>2, <3>2, <3>5
    <3> QED BY <3>3, <3>4, <3>5
  <2> QED BY <2>4, <2>5
<1> QED BY <1>3, <1>5 DEF Shape

\* The same in the next state.
LEMMA OpensIffNext ==
  ASSUME ShortChains, Shape', NEW p \in Prefixes
  PROVE  Opens(p)' <=> \/ disk'[Mid(p, 1)] = 0 /\ disk'[End(p, 1)] # 0
                       \/ disk'[Mid(p, 1)] # 0 /\ disk'[End(p, 2)] # 0
<1>1. 1 \in 1 .. MaxChain /\ 2 \in 1 .. MaxChain /\ MaxChain \in Nat
  BY ChainAssumption DEF ShortChains
<1>2. IsChainLen(p, 1)' <=> disk'[Mid(p, 1)] = 0 /\ disk'[End(p, 1)] # 0
  BY <1>1 DEF IsChainLen, Has
<1>3. disk'[Mid(p, 2)] = 0
  BY DEF Shape
<1>4. IsChainLen(p, 2)' <=> disk'[Mid(p, 1)] # 0 /\ disk'[End(p, 2)] # 0
  BY <1>1, <1>3 DEF IsChainLen, Has
<1>5. \A n \in 1 .. MaxChain : n # 1 /\ n # 2 => ~IsChainLen(p, n)'
  BY <1>1, <1>3 DEF IsChainLen, Has
<1> QED BY <1>1, <1>2, <1>4, <1>5 DEF Opens

\* Items that are not written stay what they are.
LEMMA SameItems ==
  ASSUME ShortChains, Shape, Shape', NEW p \in Prefixes,
         \A e \in Slots(p) : disk'[e] = disk[e], UNCHANGED <<len, gen>>
  PROVE  /\ Good(p)' <=> Good(p)
         /\ Complete(p)' <=> Complete(p)
<1>1. /\ disk'[Priv(p)] = disk[Priv(p)] /\ disk'[Pub(p)] = disk[Pub(p)]
      /\ disk'[Mid(p, 1)] = disk[Mid(p, 1)]
      /\ disk'[End(p, 1)] = disk[End(p, 1)] /\ disk'[End(p, 2)] = disk[End(p, 2)]
  BY DEF Slots
<1>2. Good(p)' <=> Good(p)
  BY <1>1 DEF Good
<1>3. Opens(p)' <=> Opens(p)
  BY <1>1, OpensIff, OpensIffNext
<1> QED BY <1>1, <1>2, <1>3 DEF Complete, Has

-----------------------------------------------------------------------------
(***************************************************************************)
(* Lists of operations                                                     *)
(***************************************************************************)

\* Concatenation of short tuples.
LEMMA TupleCat ==
  ASSUME NEW a, NEW b, NEW c, NEW d
  PROVE  /\ <<a>> \o <<>> = <<a>>
         /\ <<a>> \o <<b>> = <<a, b>>
         /\ <<a>> \o <<b, c>> = <<a, b, c>>
         /\ <<a, b>> \o <<c>> = <<a, b, c>>
         /\ <<a, b>> \o <<c, d>> = <<a, b, c, d>>
<1>1. <<a>> \o <<>> = <<a>>
  OBVIOUS
<1>2. <<a>> \o <<b>> = <<a, b>>
  <2> DEFINE s == <<a>> \o <<b>>
  <2>1. <<a>> \in Seq({a, b}) /\ <<b>> \in Seq({a, b})
    OBVIOUS
  <2>2. s \in Seq({a, b}) /\ Len(s) = 2
    BY <2>1
  <2>3. s[1] = a /\ s[2] = b
    BY <2>1
  <2> HIDE DEF s
  <2>4. s = <<a, b>>
    BY <2>2, <2>3
  <2> QED BY <2>4 DEF s
<1>3. <<a>> \o <<b, c>> = <<a, b, c>>
  <2> DEFINE s == <<a>> \o <<b, c>>
  <2>1. <<a>> \in Seq({a, b, c}) /\ <<b, c>> \in Seq({a, b, c})
    OBVIOUS
  <2>2. s \in Seq({a, b, c}) /\ Len(s) = 3
    BY <2>1
  <2>3. s[1] = a /\ s[2] = b /\ s[3] = c
    BY <2>1
  <2> HIDE DEF s
  <2>4. s = <<a, b, c>>
    BY <2>2, <2>3
  <2> QED BY <2>4 DEF s
<1>4. <<a, b>> \o <<c>> = <<a, b, c>>
  <2> DEFINE s == <<a, b>> \o <<c>>
  <2>1. <<a, b>> \in Seq({a, b, c}) /\ <<c>> \in Seq({a, b, c})
    OBVIOUS
  <2>2. s \in Seq({a, b, c}) /\ Len(s) = 3
    BY <2>1
  <2>3. s[1] = a /\ s[2] = b /\ s[3] = c
    BY <2>1
  <2> HIDE DEF s
  <2>4. s = <<a, b, c>>
    BY <2>2, <2>3
  <2> QED BY <2>4 DEF s
<1>5. <<a, b>> \o <<c, d>> = <<a, b, c, d>>
  <2> DEFINE s == <<a, b>> \o <<c, d>>
  <2>1. <<a, b>> \in Seq({a, b, c, d}) /\ <<c, d>> \in Seq({a, b, c, d})
    OBVIOUS
  <2>2. s \in Seq({a, b, c, d}) /\ Len(s) = 4
    BY <2>1
  <2>3. s[1] = a /\ s[2] = b /\ s[3] = c /\ s[4] = d
    BY <2>1
  <2> HIDE DEF s
  <2>4. s = <<a, b, c, d>>
    BY <2>2, <2>3
  <2> QED BY <2>4 DEF s
<1> QED BY <1>1, <1>2, <1>3, <1>4, <1>5

\* The operations of storage_ce_item_copy and ce_store_new_keys_and_cert for
\* a single certificate and for two.
LEMMA StoreSingle ==
  ASSUME NEW p, NEW v, NEW w, NEW c, NEW pub \in BOOLEAN
  PROVE  StoreItems(p, pub, v, w, [i \in 1 .. 1 |-> c]) =
           IF pub THEN <<Op("store", Priv(p), v), Op("store", Pub(p), w), Op("store", End(p, 1), c)>>
           ELSE <<Op("store", Priv(p), v), Op("store", End(p, 1), c)>>
<1> DEFINE chain == [i \in 1 .. 1 |-> c]
<1>1. chain \in Seq({c}) /\ Len(chain) = 1 /\ chain[1] = c
  OBVIOUS
<1>2. StoreChain(p, chain) = <<Op("store", End(p, 1), c)>>
  BY <1>1 DEF StoreChain
<1> HIDE DEF chain
<1>3. CASE pub
  <2>1. StoreItems(p, pub, v, w, chain) =
          (<<Op("store", Priv(p), v)>> \o <<Op("store", Pub(p), w)>>) \o <<Op("store", End(p, 1), c)>>
    BY <1>2, <1>3 DEF StoreItems
  <2> QED BY <1>3, <2>1, TupleCat DEF chain
<1>4. CASE ~pub
  <2>1. StoreItems(p, pub, v, w, chain) =
          (<<Op("store", Priv(p), v)>> \o <<>>) \o <<Op("store", End(p, 1), c)>>
    BY <1>2, <1>4 DEF StoreItems
  <2> QED BY <1>4, <2>1, TupleCat DEF chain
<1> QED BY <1>3, <1>4

\* The same for a chain of two certificates.
LEMMA StoreTwo ==
  ASSUME NEW p, NEW v, NEW w, NEW c, NEW d, NEW pub \in BOOLEAN
  PROVE  StoreItems(p, pub, v, w, [i \in 1 .. 2 |-> IF i = 2 THEN d ELSE c]) =
           IF pub THEN <<Op("store", Priv(p), v), Op("store", Pub(p), w),
                         Op("create", Mid(p, 1), c), Op("add", End(p, 2), d)>>
           ELSE <<Op("store", Priv(p), v), Op("create", Mid(p, 1), c), Op("add", End(p, 2), d)>>
<1> DEFINE chain == [i \in 1 .. 2 |-> IF i = 2 THEN d ELSE c]
<1>1. chain \in Seq({c, d}) /\ Len(chain) = 2 /\ chain[1] = c /\ chain[2] = d
  OBVIOUS
<1> HIDE DEF chain
<1>2. StoreChain(p, chain) =
        [i \in 1 .. 2 |-> Op(IF i = 1 THEN "create" ELSE "add",
                             IF i = 2 THEN End(p, i) ELSE Mid(p, i), chain[i])]
  BY <1>1 DEF StoreChain
<1>3. StoreChain(p, chain) = <<Op("create", Mid(p, 1), c), Op("add", End(p, 2), d)>>
  BY <1>1, <1>2
<1>4. CASE pub
  <2>1. StoreItems(p, pub, v, w, chain) =
          (<<Op("store", Priv(p), v)>> \o <<Op("store", Pub(p), w)>>) \o <<Op("create", Mid(p, 1), c), Op("add", End(p, 2), d)>>
    BY <1>3, <1>4 DEF StoreItems
  <2>2. StoreItems(p, pub, v, w, chain) =
          <<Op("store", Priv(p), v), Op("store", Pub(p), w), Op("create", Mid(p, 1), c), Op("add", End(p, 2), d)>>
    <3> DEFINE A == Op("store", Priv(p), v)
               B == Op("store", Pub(p), w)
               C == Op("create", Mid(p, 1), c)
               D == Op("add", End(p, 2), d)
    <3> HIDE DEF A, B, C, D
    <3>1. <<A>> \o <<B>> = <<A, B>> /\ <<A, B>> \o <<C, D>> = <<A, B, C, D>>
      BY ONLY TupleCat
    <3> QED BY <2>1, <3>1 DEF A, B, C, D
  <2> QED BY <1>4, <2>2 DEF chain
<1>5. CASE ~pub
  <2>1. StoreItems(p, pub, v, w, chain) =
          (<<Op("store", Priv(p), v)>> \o <<>>) \o <<Op("create", Mid(p, 1), c), Op("add", End(p, 2), d)>>
    BY <1>3, <1>5 DEF StoreItems
  <2> QED BY <1>5, <2>1, TupleCat DEF chain
<1> QED BY <1>4, <1>5

\* The operations of storage_ce_clean_items.
LEMMA CleanForm ==
  ASSUME NEW p \in Prefixes, NEW pub \in BOOLEAN
  PROVE  /\ CleanItems(p, pub) \in Seq(Removes(p))
         /\ CleanItems(p, pub) # <<>> /\ Head(CleanItems(p, pub)).at = Priv(p)
         /\ CleanItems(p, pub) =
              IF pub THEN <<Remove(Priv(p)), Remove(Pub(p)), Remove(CertHead(p))>>
              ELSE <<Remove(Priv(p)), Remove(CertHead(p))>>
<1>1. CleanItems(p, pub) =
        IF pub THEN <<Remove(Priv(p)), Remove(Pub(p)), Remove(CertHead(p))>>
        ELSE <<Remove(Priv(p)), Remove(CertHead(p))>>
  <2>1. CASE pub
    BY <2>1, TupleCat DEF CleanItems, CleanChain
  <2>2. CASE ~pub
    BY <2>2, TupleCat DEF CleanItems, CleanChain
  <2> QED BY <2>1, <2>2
<1>2. Remove(Priv(p)) \in Removes(p) /\ Remove(Pub(p)) \in Removes(p) /\ Remove(CertHead(p)) \in Removes(p)
  BY DEF Remove, Op, Removes, Slots, CertHead
<1>3. CleanItems(p, pub) # <<>> /\ Head(CleanItems(p, pub)) = Remove(Priv(p))
  <2>1. CASE pub = TRUE
    BY <1>1, <2>1
  <2>2. CASE pub = FALSE
    BY <1>1, <2>2
  <2> QED BY <2>1, <2>2
<1>4. Remove(Priv(p)).at = Priv(p)
  BY DEF Remove, Op
<1> QED BY <1>1, <1>2, <1>3, <1>4

\* The operations that undo an incomplete chain.
LEMMA RemoveAddedForm ==
  ASSUME NEW p \in Prefixes, NEW n \in {1, 2}
  PROVE  RemoveAdded(p, n) \in Seq(Removes(p))
<1>1. \A i \in 1 .. n : n + 1 - i \in {1, 2}
  OBVIOUS
<1>2. \A j \in {1, 2} : Remove(Mid(p, j)) \in Removes(p)
  BY DEF Remove, Op, Removes, Slots
<1>3. \A i \in 1 .. n : Remove(Mid(p, n + 1 - i)) \in Removes(p)
  BY <1>1, <1>2
<1> QED BY <1>3 DEF RemoveAdded

\* What the operations left make of an entry does not change as they are done.
LEMMA TargetStep ==
  ASSUME Shape, NEW S, todo \in Seq(S), todo # <<>>, Head(todo).at \in Entries,
         disk' = [disk EXCEPT ![Head(todo).at] = Head(todo).val], todo' = Tail(todo),
         NEW e \in Entries, NEW v, Target(e, v)
  PROVE  Target(e, v)'
<1>1. /\ DOMAIN todo = 1 .. Len(todo) /\ Len(todo) \in Nat /\ Len(todo) >= 1
      /\ todo' \in Seq(S) /\ DOMAIN todo' = 1 .. Len(todo) - 1
      /\ \A i \in DOMAIN todo' : i + 1 \in DOMAIN todo /\ todo'[i] = todo[i + 1]
      /\ Head(todo) = todo[1]
  OBVIOUS
<1>2. \A i \in DOMAIN todo' : todo'[i].at = e => todo'[i].val = v
  BY <1>1 DEF Target
<1>3. CASE todo[1].at = e
  <2>1. disk'[e] = v
    BY <1>1, <1>3 DEF Target, Shape
  <2> QED BY <1>2, <2>1 DEF Target
<1>4. CASE todo[1].at # e
  <2>1. disk'[e] = disk[e]
    BY <1>1, <1>4 DEF Shape
  <2>2. CASE disk[e] = v
    BY <1>2, <2>1, <2>2 DEF Target
  <2>3. CASE \E i \in DOMAIN todo : todo[i].at = e
    <3>1. PICK i \in DOMAIN todo : todo[i].at = e
      BY <2>3
    <3>2. i - 1 \in DOMAIN todo' /\ todo'[i - 1] = todo[i]
      BY <1>1, <1>4, <3>1
    <3> QED BY <1>2, <3>1, <3>2 DEF Target
  <2> QED BY <2>2, <2>3 DEF Target
<1> QED BY <1>3, <1>4

\* The last certificate of the chain issued for a generation.
LastOf(g) == IF len[g].ok THEN g ELSE Foreign

\* The operations that store the set of a generation.
LEMMA StoreForm ==
  ASSUME Shape, NEW p, NEW g \in Gens, NEW pub \in BOOLEAN
  PROVE  \/ /\ len[g].n = 1 /\ pub = TRUE
            /\ StoreItems(p, pub, g, g, Issued(g)) =
                 <<Op("store", Priv(p), g), Op("store", Pub(p), g), Op("store", End(p, 1), g)>>
         \/ /\ len[g].n = 1 /\ pub = FALSE
            /\ StoreItems(p, pub, g, g, Issued(g)) =
                 <<Op("store", Priv(p), g), Op("store", End(p, 1), g)>>
         \/ /\ len[g].n = 2 /\ pub = TRUE
            /\ StoreItems(p, pub, g, g, Issued(g)) =
                 <<Op("store", Priv(p), g), Op("store", Pub(p), g),
                   Op("create", Mid(p, 1), g), Op("add", End(p, 2), LastOf(g))>>
         \/ /\ len[g].n = 2 /\ pub = FALSE
            /\ StoreItems(p, pub, g, g, Issued(g)) =
                 <<Op("store", Priv(p), g), Op("create", Mid(p, 1), g), Op("add", End(p, 2), LastOf(g))>>
<1>1. len[g].n \in {1, 2} /\ len[g].ok \in BOOLEAN
  BY DEF Shape
<1>2. CASE len[g].n = 1
  <2>1. Issued(g) = [i \in 1 .. 1 |-> g]
    BY <1>2 DEF Issued
  <2>2. StoreItems(p, pub, g, g, [i \in 1 .. 1 |-> g]) =
          IF pub THEN <<Op("store", Priv(p), g), Op("store", Pub(p), g), Op("store", End(p, 1), g)>>
          ELSE <<Op("store", Priv(p), g), Op("store", End(p, 1), g)>>
    BY StoreSingle
  <2> QED BY <1>2, <2>1, <2>2
<1>3. CASE len[g].n = 2
  <2>1. Issued(g) = [i \in 1 .. 2 |-> IF i = 2 THEN LastOf(g) ELSE g]
    <3>1. \A i \in 1 .. 2 : (IF i = 2 /\ i > 1 /\ ~len[g].ok THEN Foreign ELSE g)
                            = (IF i = 2 THEN LastOf(g) ELSE g)
      BY <1>1 DEF LastOf
    <3> QED BY <1>3, <3>1 DEF Issued
  <2>2. StoreItems(p, pub, g, g, Issued(g)) =
          IF pub THEN <<Op("store", Priv(p), g), Op("store", Pub(p), g),
                        Op("create", Mid(p, 1), g), Op("add", End(p, 2), LastOf(g))>>
          ELSE <<Op("store", Priv(p), g), Op("create", Mid(p, 1), g), Op("add", End(p, 2), LastOf(g))>>
    BY <2>1, StoreTwo
  <2> QED BY <1>3, <2>2
<1> QED BY <1>1, <1>2, <1>3

\* They are well formed, and once they are done the items are that set.
LEMMA StoreList ==
  ASSUME ShortChains, Shape, NEW p \in Prefixes, NEW g \in Gens, NEW pub \in BOOLEAN,
         ~pub => disk[Pub(p)] = 0,
         todo' = StoreItems(p, pub, g, g, Issued(g)), UNCHANGED <<disk, len>>
  PROVE  /\ todo' \in Seq(Stores(p))
         /\ SetTarget(p, g, IF pub THEN g ELSE 0)'
         /\ \A i \in DOMAIN todo' : todo'[i].at = Pub(p) => pub
<1> DEFINE A == Op("store", Priv(p), g)
           B == Op("store", Pub(p), g)
           C == Op("store", End(p, 1), g)
           D == Op("create", Mid(p, 1), g)
           E == Op("add", End(p, 2), LastOf(g))
<1>1. /\ A.at = Priv(p) /\ A.val = g /\ A.kind = "store"
      /\ B.at = Pub(p) /\ B.val = g /\ B.kind = "store"
      /\ C.at = End(p, 1) /\ C.val = g /\ C.kind = "store"
      /\ D.at = Mid(p, 1) /\ D.val = g /\ D.kind = "create"
      /\ E.at = End(p, 2) /\ E.val = LastOf(g) /\ E.kind = "add"
  BY DEF Op
<1>2. A \in Stores(p) /\ B \in Stores(p) /\ C \in Stores(p) /\ D \in Stores(p) /\ E \in Stores(p)
  <2>1. g \in 0 .. MaxGen /\ LastOf(g) \in 0 .. Foreign
    BY BoundAssumption DEF Gens, LastOf, Foreign
  <2> QED BY <2>1 DEF Op, Stores
<1>3. /\ Priv(p) # Pub(p) /\ Priv(p) # End(p, 1) /\ Priv(p) # Mid(p, 1) /\ Priv(p) # End(p, 2)
      /\ Pub(p) # End(p, 1) /\ Pub(p) # Mid(p, 1) /\ Pub(p) # End(p, 2)
      /\ End(p, 1) # Mid(p, 1) /\ End(p, 1) # End(p, 2) /\ Mid(p, 1) # End(p, 2)
  BY EntryParts
<1>4. ~len[g].ok => LastOf(g) = Foreign
  BY DEF LastOf
<1>9. LastOf(g)' = LastOf(g)
  BY DEF LastOf
<1> HIDE DEF A, B, C, D, E
<1>5. CASE len[g].n = 1 /\ pub = TRUE /\ todo' = <<A, B, C>>
  <2>1. DOMAIN todo' = 1 .. 3 /\ todo'[1] = A /\ todo'[2] = B /\ todo'[3] = C
    BY <1>5
  <2>2. \A i \in 1 .. 3 : i = 1 \/ i = 2 \/ i = 3
    OBVIOUS
  <2>3. todo' \in Seq(Stores(p))
    BY <1>2, <1>5
  <2>4. Target(Priv(p), g)' /\ Target(Pub(p), g)' /\ Target(End(p, 1), g)'
    BY <1>1, <1>3, <2>1, <2>2 DEF Target
  <2> QED BY <1>5, <2>3, <2>4 DEF SetTarget
<1>6. CASE len[g].n = 1 /\ pub = FALSE /\ todo' = <<A, C>>
  <2>1. DOMAIN todo' = 1 .. 2 /\ todo'[1] = A /\ todo'[2] = C
    BY <1>6
  <2>2. \A i \in 1 .. 2 : i = 1 \/ i = 2
    OBVIOUS
  <2>3. todo' \in Seq(Stores(p))
    BY <1>2, <1>6
  <2>4. Target(Priv(p), g)' /\ Target(Pub(p), 0)' /\ Target(End(p, 1), g)'
    BY <1>1, <1>3, <1>6, <2>1, <2>2 DEF Target
  <2>5. \A i \in DOMAIN todo' : todo'[i].at # Pub(p)
    BY <1>1, <1>3, <2>1, <2>2
  <2> QED BY <1>6, <2>3, <2>4, <2>5 DEF SetTarget
<1>7. CASE len[g].n = 2 /\ pub = TRUE /\ todo' = <<A, B, D, E>>
  <2>1. DOMAIN todo' = 1 .. 4 /\ todo'[1] = A /\ todo'[2] = B /\ todo'[3] = D /\ todo'[4] = E
    BY <1>7
  <2>2. \A i \in 1 .. 4 : i = 1 \/ i = 2 \/ i = 3 \/ i = 4
    OBVIOUS
  <2>3. todo' \in Seq(Stores(p))
    BY <1>2, <1>7
  <2>4. Target(Priv(p), g)' /\ Target(Pub(p), g)'
    BY <1>1, <1>3, <2>1, <2>2 DEF Target
  <2>5. Target(Mid(p, 1), g)' /\ Target(End(p, 2), LastOf(g))'
    BY <1>1, <1>3, <1>9, <2>1, <2>2 DEF Target
  <2>6. \E i \in DOMAIN todo' : todo'[i].kind = "add" /\ todo'[i].val = LastOf(g)
    BY <1>1, <2>1
  <2> QED BY <1>4, <1>7, <2>3, <2>4, <2>5, <2>6 DEF SetTarget, LastOf
<1>8. CASE len[g].n = 2 /\ pub = FALSE /\ todo' = <<A, D, E>>
  <2>1. DOMAIN todo' = 1 .. 3 /\ todo'[1] = A /\ todo'[2] = D /\ todo'[3] = E
    BY <1>8
  <2>2. \A i \in 1 .. 3 : i = 1 \/ i = 2 \/ i = 3
    OBVIOUS
  <2>3. todo' \in Seq(Stores(p))
    BY <1>2, <1>8
  <2>4. Target(Priv(p), g)' /\ Target(Pub(p), 0)'
    BY <1>1, <1>3, <1>8, <2>1, <2>2 DEF Target
  <2>5. Target(Mid(p, 1), g)' /\ Target(End(p, 2), LastOf(g))'
    BY <1>1, <1>3, <1>9, <2>1, <2>2 DEF Target
  <2>6. \E i \in DOMAIN todo' : todo'[i].kind = "add" /\ todo'[i].val = LastOf(g)
    BY <1>1, <2>1
  <2>7. \A i \in DOMAIN todo' : todo'[i].at # Pub(p)
    BY <1>1, <1>3, <2>1, <2>2
  <2> QED BY <1>4, <1>8, <2>3, <2>4, <2>5, <2>6, <2>7 DEF SetTarget, LastOf
<1> QED BY <1>5, <1>6, <1>7, <1>8, StoreForm DEF A, B, C, D, E

\* A copy of a matching set stores the set.
LEMMA CopyForm ==
  ASSUME ShortChains, Shape, NEW from \in Prefixes, NEW to, Good(from), NEW pub \in BOOLEAN,
         pub = (disk[Pub(from)] # 0)
  PROVE  CopyItems(from, to, pub) = StoreItems(to, pub, disk[Priv(from)], disk[Priv(from)],
                                               Issued(disk[Priv(from)]))
<1>1. Opens(from) /\ ChainOf(from) = Issued(disk[Priv(from)])
  BY GoodIsSet DEF Complete, IsSet
<1>2. pub => disk[Pub(from)] = disk[Priv(from)]
  BY DEF Good
<1>3. CASE pub = TRUE
  BY <1>1, <1>2, <1>3 DEF CopyItems
<1>4. CASE pub = FALSE
  BY <1>1, <1>4 DEF CopyItems, StoreItems
<1> QED BY <1>3, <1>4

\* Nothing of ce_restore_backup_items is refused when the items are gone.
LEMMA CopyUnrefused ==
  ASSUME ShortChains, Shape, NEW g \in Gens, NEW pub \in BOOLEAN, len[g].n = 2 => len[g].ok,
         disk[Priv("kcm")] = 0, disk[Pub("kcm")] = 0,
         disk[Mid("kcm", 1)] = 0, disk[End("kcm", 1)] = 0,
         todo' = StoreItems("kcm", pub, g, g, Issued(g)), UNCHANGED disk
  PROVE  Unrefused(g)'
<1> DEFINE p == "kcm"
           A == Op("store", Priv(p), g)
           B == Op("store", Pub(p), g)
           C == Op("store", End(p, 1), g)
           D == Op("create", Mid(p, 1), g)
           E == Op("add", End(p, 2), g)
<1>1. /\ A.at = Priv(p) /\ A.val = g
      /\ B.at = Pub(p) /\ B.val = g
      /\ C.at = End(p, 1) /\ C.val = g
      /\ D.at = Mid(p, 1) /\ D.val = g
      /\ E.at = End(p, 2) /\ E.val = g
  BY DEF Op
<1>2. A \in Stores(p) /\ B \in Stores(p) /\ C \in Stores(p) /\ D \in Stores(p) /\ E \in Stores(p)
  <2>1. g \in 0 .. MaxGen /\ g \in 0 .. Foreign
    BY BoundAssumption DEF Gens, Foreign
  <2> QED BY <2>1 DEF Op, Stores
<1>3. /\ Priv(p) # Pub(p) /\ Priv(p) # End(p, 1) /\ Priv(p) # Mid(p, 1) /\ Priv(p) # End(p, 2)
      /\ Pub(p) # End(p, 1) /\ Pub(p) # Mid(p, 1) /\ Pub(p) # End(p, 2)
      /\ End(p, 1) # Mid(p, 1) /\ End(p, 1) # End(p, 2) /\ Mid(p, 1) # End(p, 2)
  BY EntryParts
<1>4. \/ todo' = <<A, B, C>>
      \/ todo' = <<A, C>>
      \/ todo' = <<A, B, D, E>>
      \/ todo' = <<A, D, E>>
  <2>1. len[g].n = 2 => LastOf(g) = g
    BY DEF LastOf
  <2> QED BY <2>1, StoreForm
<1> HIDE DEF A, B, C, D, E
<1>5. CASE todo' = <<A, B, C>>
  <2>1. DOMAIN todo' = 1 .. 3 /\ todo'[1] = A /\ todo'[2] = B /\ todo'[3] = C
    BY <1>5
  <2>2. \A i \in 1 .. 3 : i = 1 \/ i = 2 \/ i = 3
    OBVIOUS
  <2> QED BY <1>1, <1>2, <1>3, <2>1, <2>2 DEF Unrefused
<1>6. CASE todo' = <<A, C>>
  <2>1. DOMAIN todo' = 1 .. 2 /\ todo'[1] = A /\ todo'[2] = C
    BY <1>6
  <2>2. \A i \in 1 .. 2 : i = 1 \/ i = 2
    OBVIOUS
  <2> QED BY <1>1, <1>2, <1>3, <2>1, <2>2 DEF Unrefused
<1>7. CASE todo' = <<A, B, D, E>>
  <2>1. DOMAIN todo' = 1 .. 4 /\ todo'[1] = A /\ todo'[2] = B /\ todo'[3] = D /\ todo'[4] = E
    BY <1>7
  <2>2. \A i \in 1 .. 4 : i = 1 \/ i = 2 \/ i = 3 \/ i = 4
    OBVIOUS
  <2> QED BY <1>1, <1>2, <1>3, <2>1, <2>2 DEF Unrefused
<1>8. CASE todo' = <<A, D, E>>
  <2>1. DOMAIN todo' = 1 .. 3 /\ todo'[1] = A /\ todo'[2] = D /\ todo'[3] = E
    BY <1>8
  <2>2. \A i \in 1 .. 3 : i = 1 \/ i = 2 \/ i = 3
    OBVIOUS
  <2> QED BY <1>1, <1>2, <1>3, <2>1, <2>2 DEF Unrefused
<1> QED BY <1>4, <1>5, <1>6, <1>7, <1>8

\* The first of them is accepted.
LEMMA UnrefusedHead ==
  ASSUME Shape, NEW g \in Gens, todo \in Seq(Stores("kcm")), todo # <<>>, Unrefused(g)
  PROVE  ~Refused(Head(todo)) /\ Head(todo).val = g
<1> DEFINE o == Head(todo)
<1>1. DOMAIN todo = 1 .. Len(todo) /\ 1 \in DOMAIN todo /\ o = todo[1]
  OBVIOUS
<1>2. \A j \in DOMAIN todo : ~(j < 1)
  BY <1>1
<1>3. /\ o \in Stores("kcm") /\ o.val = g
      /\ o.at \in {Priv("kcm"), Pub("kcm")} => disk[o.at] = 0
      /\ o.at \in {Mid("kcm", 1), End("kcm", 1)} =>
           disk[Mid("kcm", 1)] = 0 /\ disk[End("kcm", 1)] = 0
      /\ o.at = End("kcm", 2) => disk[Mid("kcm", 1)] = g
  BY <1>1, <1>2 DEF Unrefused
<1>4. g # 0
  BY DEF Gens
<1>5. \/ o.kind = "store" /\ o.at \in {Priv("kcm"), Pub("kcm"), End("kcm", 1)}
      \/ o.kind = "create" /\ o.at = Mid("kcm", 1)
      \/ o.kind = "add" /\ o.at = End("kcm", 2)
  BY <1>3 DEF Stores
<1> HIDE DEF o
<1>6. ~Exists(o)
  BY <1>3, <1>5, EntryParts DEF Exists, Has
<1>7. ~Refused(o)
  BY <1>3, <1>4, <1>5, <1>6, EntryParts DEF Refused
<1> QED BY <1>3, <1>7 DEF o

\* One of them done, the others stay acceptable.
LEMMA UnrefusedStep ==
  ASSUME ShortChains, Shape, NEW g \in Gens, todo \in Seq(Stores("kcm")), todo # <<>>, Unrefused(g),
         disk' = [disk EXCEPT ![Head(todo).at] = Head(todo).val], todo' = Tail(todo)
  PROVE  Unrefused(g)'
<1>1. /\ DOMAIN todo = 1 .. Len(todo) /\ Len(todo) \in Nat /\ 1 \in DOMAIN todo
      /\ DOMAIN todo' = 1 .. Len(todo) - 1
      /\ \A i \in DOMAIN todo' : i + 1 \in DOMAIN todo /\ todo'[i] = todo[i + 1]
      /\ Head(todo) = todo[1] /\ todo[1] \in Stores("kcm")
  OBVIOUS
<1>2. todo[1].at \in Entries /\ todo[1].val = g
  BY <1>1, OpFacts DEF Unrefused, Prefixes
<1>3. /\ disk'[todo[1].at] = g
      /\ \A e \in Entries : e # todo[1].at => disk'[e] = disk[e]
  BY <1>1, <1>2 DEF Shape
<1>4. /\ Priv("kcm") \in Entries /\ Pub("kcm") \in Entries
      /\ Mid("kcm", 1) \in Entries /\ End("kcm", 1) \in Entries
  BY EntryIn DEF Slots, Prefixes
<1> SUFFICES ASSUME NEW i \in DOMAIN todo'
             PROVE  LET o == todo'[i]
                    IN /\ o \in Stores("kcm") /\ o.val = g
                       /\ o.at \in {Priv("kcm"), Pub("kcm")} => disk'[o.at] = 0
                       /\ o.at \in {Mid("kcm", 1), End("kcm", 1)} =>
                            disk'[Mid("kcm", 1)] = 0 /\ disk'[End("kcm", 1)] = 0
                       /\ o.at = End("kcm", 2) =>
                            \/ disk'[Mid("kcm", 1)] = g
                            \/ \E j \in DOMAIN todo' : j < i /\ todo'[j].at = Mid("kcm", 1)
                       /\ \A j \in DOMAIN todo' : j < i =>
                            /\ todo'[j].at # o.at
                            /\ ~({todo'[j].at, o.at} \subseteq {Mid("kcm", 1), End("kcm", 1)})
  BY DEF Unrefused
<1> DEFINE o == todo[i + 1]
<1>5. todo'[i] = o /\ i + 1 \in DOMAIN todo /\ 1 < i + 1
  BY <1>1
<1>6. /\ o \in Stores("kcm") /\ o.val = g
      /\ o.at \in {Priv("kcm"), Pub("kcm")} => disk[o.at] = 0
      /\ o.at \in {Mid("kcm", 1), End("kcm", 1)} =>
           disk[Mid("kcm", 1)] = 0 /\ disk[End("kcm", 1)] = 0
      /\ o.at = End("kcm", 2) =>
           \/ disk[Mid("kcm", 1)] = g
           \/ \E j \in DOMAIN todo : j < i + 1 /\ todo[j].at = Mid("kcm", 1)
      /\ \A j \in DOMAIN todo : j < i + 1 =>
           /\ todo[j].at # o.at
           /\ ~({todo[j].at, o.at} \subseteq {Mid("kcm", 1), End("kcm", 1)})
  BY <1>5 DEF Unrefused
<1>7. /\ todo[1].at # o.at
      /\ ~({todo[1].at, o.at} \subseteq {Mid("kcm", 1), End("kcm", 1)})
  BY <1>1, <1>5, <1>6
<1> HIDE DEF o
<1>8. o.at \in {Priv("kcm"), Pub("kcm")} => disk'[o.at] = 0
  BY <1>3, <1>4, <1>6, <1>7
<1>9. o.at \in {Mid("kcm", 1), End("kcm", 1)} =>
        disk'[Mid("kcm", 1)] = 0 /\ disk'[End("kcm", 1)] = 0
  BY <1>3, <1>4, <1>6, <1>7
<1>10. ASSUME o.at = End("kcm", 2)
       PROVE  \/ disk'[Mid("kcm", 1)] = g
              \/ \E j \in DOMAIN todo' : j < i /\ todo'[j].at = Mid("kcm", 1)
  <2>1. CASE disk[Mid("kcm", 1)] = g
    BY <1>3, <1>4, <2>1
  <2>2. CASE \E j \in DOMAIN todo : j < i + 1 /\ todo[j].at = Mid("kcm", 1)
    <3>1. PICK j \in DOMAIN todo : j < i + 1 /\ todo[j].at = Mid("kcm", 1)
      BY <2>2
    <3>2. CASE j = 1
      BY <1>3, <3>1, <3>2
    <3>3. CASE j # 1
      <4>1. j - 1 \in DOMAIN todo' /\ j - 1 < i /\ todo'[j - 1] = todo[j]
        BY <1>1, <3>1, <3>3
      <4> QED BY <3>1, <4>1
    <3> QED BY <3>2, <3>3
  <2> QED BY <1>6, <1>10, <2>1, <2>2
<1>11. \A j \in DOMAIN todo' : j < i =>
         /\ todo'[j].at # o.at
         /\ ~({todo'[j].at, o.at} \subseteq {Mid("kcm", 1), End("kcm", 1)})
  <2> SUFFICES ASSUME NEW j \in DOMAIN todo', j < i
               PROVE  /\ todo'[j].at # o.at
                      /\ ~({todo'[j].at, o.at} \subseteq {Mid("kcm", 1), End("kcm", 1)})
    OBVIOUS
  <2>1. j + 1 \in DOMAIN todo /\ j + 1 < i + 1 /\ todo'[j] = todo[j + 1]
    BY <1>1
  <2> QED BY <1>6, <2>1
<1> QED BY <1>5, <1>6, <1>8, <1>9, <1>10, <1>11

-----------------------------------------------------------------------------
(***************************************************************************)
(* An operation of the storage succeeds                                    *)
(***************************************************************************)

\* A write to the items with one prefix leaves those with the other.
LEMMA WriteElsewhere ==
  ASSUME ShortChains, Shape, NEW p \in Prefixes, NEW q \in Prefixes, p # q,
         NEW o \in Stores(q) \cup Removes(q), ~Refused(o),
         disk' = [disk EXCEPT ![o.at] = o.val], UNCHANGED <<len, gen, told, withPub, failed, bad>>
  PROVE  /\ Shape'
         /\ Good(p)' <=> Good(p)
         /\ Complete(p)' <=> Complete(p)
         /\ disk'[Status] = disk[Status]
         /\ disk'[Priv(p)] = disk[Priv(p)] /\ disk'[Pub(p)] = disk[Pub(p)]
<1>1. Shape'
  BY WriteShape
<1>2. o.at \in Entries /\ o.at # Status /\ o.at \notin Slots(p)
  BY OpFacts
<1>3. Status \in Entries /\ Slots(p) \subseteq Entries
  BY EntryIn
<1>4. \A e \in Entries : e # o.at => disk'[e] = disk[e]
  BY <1>2, WriteOne
<1>5. \A e \in Slots(p) : disk'[e] = disk[e]
  BY <1>2, <1>3, <1>4
<1>6. disk'[Status] = disk[Status]
  BY <1>2, <1>3, <1>4
<1>7. disk'[Priv(p)] = disk[Priv(p)] /\ disk'[Pub(p)] = disk[Pub(p)]
  BY <1>5 DEF Slots
<1> QED BY <1>1, <1>5, <1>6, <1>7, SameItems

\* It keeps a safe set safe if it does not give the others a public key that
\* the set has not.
LEMMA SafeElsewhere ==
  ASSUME ShortChains, Shape, NEW p \in Prefixes, NEW q \in Prefixes, p # q,
         NEW o \in Stores(q) \cup Removes(q), ~Refused(o),
         disk' = [disk EXCEPT ![o.at] = o.val], UNCHANGED <<len, gen, told, withPub, failed, bad>>,
         SafeAt(p), o.at = Pub(q) => o.val = 0 \/ disk[Pub(p)] # 0
  PROVE  SafeAt(p)'
<1>1. /\ Good(p)' <=> Good(p)
      /\ disk'[Priv(p)] = disk[Priv(p)] /\ disk'[Pub(p)] = disk[Pub(p)]
  BY WriteElsewhere
<1>2. disk[Pub(p)] = 0 => disk[Pub(q)] = 0
  BY DEF SafeAt, Prefixes
<1>3. Pub(q) \in Entries /\ o.at \in Entries
  BY EntryIn, OpFacts DEF Slots
<1>4. disk[Pub(p)] = 0 => disk'[Pub(q)] = 0
  <2>1. CASE o.at = Pub(q)
    BY <1>3, <2>1, WriteOne
  <2>2. CASE o.at # Pub(q)
    BY <1>2, <1>3, <2>2, WriteOne
  <2> QED BY <2>1, <2>2
<1>5. {p, q} = {"kcm", "ce"}
  BY DEF Prefixes
<1>6. disk'[Pub(p)] = 0 => disk'[Pub("kcm")] = 0 /\ disk'[Pub("ce")] = 0
  BY <1>1, <1>4, <1>5
<1> QED BY <1>1, <1>6 DEF SafeAt

\* The first operation, and what is left after it.
LEMMA HeadFacts ==
  ASSUME NEW S, todo \in Seq(S), todo # <<>>, todo' = Tail(todo)
  PROVE  /\ Head(todo) \in S /\ todo' \in Seq(S)
         /\ 1 \in DOMAIN todo /\ Head(todo) = todo[1]
         /\ \A i \in DOMAIN todo' : i + 1 \in DOMAIN todo /\ todo'[i] = todo[i + 1]
OBVIOUS

\* The list of public keys to store shrinks.
LEMMA PubStoredStep ==
  ASSUME NEW S, todo \in Seq(S), todo # <<>>, todo' = Tail(todo),
         NEW p, NEW q, PubStored(p, q), disk'[Pub(q)] = disk[Pub(q)]
  PROVE  PubStored(p, q)'
BY HeadFacts DEF PubStored

\* The set that the operations make is the same after one of them, unless a
\* certificate that did not sign the one before it has been accepted.
LEMMA SetTargetStep ==
  ASSUME ShortChains, Shape, NEW p \in Prefixes, NEW S, todo \in Seq(S), todo # <<>>,
         Head(todo).at \in Entries,
         disk' = [disk EXCEPT ![Head(todo).at] = Head(todo).val], todo' = Tail(todo), UNCHANGED len,
         NEW g, NEW pub, SetTarget(p, g, pub), ~(Head(todo).kind = "add" /\ Head(todo).val = Foreign)
  PROVE  SetTarget(p, g, pub)'
<1>1. /\ Priv(p) \in Entries /\ Pub(p) \in Entries /\ Mid(p, 1) \in Entries
      /\ End(p, 1) \in Entries /\ End(p, 2) \in Entries
  BY EntryIn DEF Slots
<1>2. \A e \in Entries : \A v : Target(e, v) => Target(e, v)'
  BY TargetStep
<1>3. Target(Priv(p), g)' /\ Target(Pub(p), pub)'
  BY <1>1, <1>2 DEF SetTarget
<1>4. CASE len[g].n = 1
  BY <1>1, <1>2, <1>3, <1>4 DEF SetTarget
<1>5. CASE len[g].n # 1
  <2>1. Target(Mid(p, 1), g)'
    BY <1>1, <1>2, <1>5 DEF SetTarget
  <2>2. CASE len[g].ok
    <3>1. Target(End(p, 2), g)
      BY <1>5, <2>2 DEF SetTarget
    <3>2. Target(End(p, 2), g)'
      BY <1>1, <1>2, <3>1
    <3> QED BY <1>3, <1>5, <2>1, <2>2, <3>2 DEF SetTarget
  <2>3. CASE ~len[g].ok
    <3>1. /\ Target(End(p, 2), Foreign)
          /\ \E i \in DOMAIN todo : todo[i].kind = "add" /\ todo[i].val = Foreign
      BY <1>5, <2>3 DEF SetTarget
    <3>2. Target(End(p, 2), Foreign)'
      BY <1>1, <1>2, <3>1
    <3>3. PICK i \in DOMAIN todo : todo[i].kind = "add" /\ todo[i].val = Foreign
      BY <3>1
    <3>4. i # 1
      BY <3>3, HeadFacts
    <3>5. i - 1 \in DOMAIN todo' /\ todo'[i - 1] = todo[i]
      BY <3>4
    <3>6. \E k \in DOMAIN todo' : todo'[k].kind = "add" /\ todo'[k].val = Foreign
      BY <3>3, <3>5
    <3> QED BY <1>3, <1>5, <2>1, <2>3, <3>2, <3>6 DEF SetTarget
  <2> QED BY <2>2, <2>3
<1> QED BY <1>4, <1>5

\* A certificate that did not sign the one before it is not accepted.
LEMMA NoForeign ==
  ASSUME ShortChains, Shape, NEW p \in Prefixes, NEW o \in Stores(p) \cup Removes(p), ~Refused(o)
  PROVE  ~(o.kind = "add" /\ o.val = Foreign)
<1> SUFFICES ASSUME o.kind = "add", o.val = Foreign PROVE FALSE
  OBVIOUS
<1>1. o.at = End(p, 2)
  BY OpFacts
<1>2. disk[Mid(p, 1)] = Foreign
  BY <1>1, EntryParts DEF Refused
<1>3. disk[Mid(p, 1)] \in 0 .. MaxGen
  BY EntryIn DEF Slots, Shape
<1> QED BY <1>2, <1>3, BoundAssumption DEF Foreign

\* What the invariant says while an operation of the storage succeeds.
LEMMA OpSucceedsKeeps ==
  ASSUME ShortChains, Shape, SafeAt(Place), PcInv, OpSucceeds
  PROVE  Shape' /\ SafeAt(Place)' /\ PcInv'
<1> DEFINE o == Head(todo)
<1> USE DEF Has
<1>1. /\ todo # <<>> /\ ~Refused(o)
      /\ disk' = [disk EXCEPT ![o.at] = o.val] /\ todo' = Tail(todo)
      /\ UNCHANGED <<len, gen, withPub, pc, failed, bad, current, told, queue, est>>
  BY DEF OpSucceeds, clientVars
<1> HIDE DEF o
<1>2. "kcm" \in Prefixes /\ "ce" \in Prefixes /\ "kcm" # "ce"
  BY DEF Prefixes
<1>3. Status \in Entries /\ Slots("kcm") \subseteq Entries /\ Slots("ce") \subseteq Entries
  BY <1>2, EntryIn
<1>4. CASE pc = "backup"
  <2>1. BackupInv
    BY <1>4 DEF PcInv
  <2>2. o \in Stores("ce") \cup Removes("ce")
    BY <1>1, <2>1 DEF BackupInv, o
  <2>3. Place = "kcm" /\ SafeAt("kcm")
    BY <2>1 DEF Place, BackupInv
  <2>4. /\ Shape' /\ disk'[Status] = disk[Status]
        /\ disk'[Priv("kcm")] = disk[Priv("kcm")] /\ disk'[Pub("kcm")] = disk[Pub("kcm")]
    BY <1>1, <1>2, <2>2, WriteElsewhere
  <2>5. o.at = Pub("ce") => o.val = 0 \/ disk[Pub("kcm")] # 0
    BY <1>1, <2>1, HeadFacts DEF BackupInv, PubStored, o
  <2>6. SafeAt("kcm")'
    BY <1>1, <1>2, <2>2, <2>3, <2>5, SafeElsewhere
  <2>7. Place' = "kcm"
    BY <2>1, <2>4 DEF Place, BackupInv
  <2>8. todo' \in Seq(Stores("ce") \cup Removes("ce"))
    BY <1>1, <2>1 DEF BackupInv
  <2>9. PubStored("ce", "kcm")'
    BY <1>1, <2>1, <2>4, PubStoredStep DEF BackupInv
  <2>10. ASSUME ~failed PROVE SetTarget("ce", disk[Priv("kcm")], disk[Pub("kcm")])'
    <3>1. o.at \in Entries /\ ~(o.kind = "add" /\ o.val = Foreign)
      BY <1>1, <1>2, <2>2, OpFacts, NoForeign
    <3>2. ASSUME NEW g, NEW pub, SetTarget("ce", g, pub) PROVE SetTarget("ce", g, pub)'
      BY <1>1, <1>2, <2>1, <3>1, <3>2, SetTargetStep DEF o, BackupInv
    <3>3. SetTarget("ce", disk[Priv("kcm")], disk[Pub("kcm")])
      BY <2>1, <2>10 DEF BackupInv
    <3>4. PICK g, pub : g = disk[Priv("kcm")] /\ pub = disk[Pub("kcm")]
      OBVIOUS
    <3>5. SetTarget("ce", g, pub)'
      BY <3>2, <3>3, <3>4
    <3> QED BY <2>4, <3>4, <3>5
  <2>11. BackupInv'
    BY <1>1, <2>1, <2>4, <2>8, <2>9, <2>10 DEF BackupInv, Renewing
  <2> QED BY <1>1, <1>4, <2>4, <2>6, <2>7, <2>11 DEF PcInv
<1>5. CASE pc = "status"
  <2>1. StatusInv
    BY <1>5 DEF PcInv
  <2>2. ~Has(Status) /\ todo = <<Op("store", Status, 1)>>
    BY <1>1, <2>1 DEF StatusInv
  <2>3. o = Op("store", Status, 1) /\ todo' = <<>>
    BY <1>1, <2>2 DEF o
  <2>4. o.at = Status /\ o.val = 1
    BY <2>3 DEF Op
  <2>5. disk'[Status] = 1 /\ \A e \in Entries : e # Status => disk'[e] = disk[e]
    BY <1>1, <1>3, <2>4, WriteOne
  <2>6. \A p \in Prefixes : \A e \in Slots(p) : e # Status
    BY EntryParts DEF Slots
  <2>7. \A p \in Prefixes : \A e \in Slots(p) : disk'[e] = disk[e]
    BY <1>3, <2>5, <2>6 DEF Prefixes
  <2>8. \A p \in Prefixes : /\ disk'[Priv(p)] = disk[Priv(p)] /\ disk'[Pub(p)] = disk[Pub(p)]
                            /\ disk'[Mid(p, 1)] = disk[Mid(p, 1)] /\ disk'[Mid(p, 2)] = disk[Mid(p, 2)]
                            /\ disk'[End(p, 1)] = disk[End(p, 1)]
    BY <2>7 DEF Slots
  <2>9. Shape'
    <3>1. disk' \in [Entries -> 0 .. MaxGen]
      BY <1>1, <1>3, <2>4, BoundAssumption DEF Shape
    <3> QED BY <1>1, <2>8, <3>1 DEF Shape
  <2>10. Good("kcm")' /\ Good("ce")' /\ Complete("ce")'
    BY <1>1, <1>2, <2>1, <2>7, <2>9, SameItems, GoodIsSet DEF StatusInv
  <2>11. Place' = "ce"
    BY <2>5, <2>10 DEF Place
  <2>12. Place = "kcm"
    BY <2>2 DEF Place
  <2>13. SafeAt("ce")'
    BY <1>1, <1>2, <2>1, <2>8, <2>10, <2>12 DEF SafeAt, StatusInv
  <2>14. StatusInv'
    BY <1>1, <1>2, <2>1, <2>3, <2>5, <2>8, <2>10 DEF StatusInv, Renewing
  <2> QED BY <1>1, <1>5, <2>9, <2>11, <2>13, <2>14 DEF PcInv
<1>6. CASE pc = "clean"
  <2>1. CleanInv
    BY <1>6 DEF PcInv
  <2>2. o \in Removes("kcm")
    BY <1>1, <2>1 DEF CleanInv, o
  <2>3. Place = "ce" /\ SafeAt("ce")
    BY <2>1 DEF Place, CleanInv, Marked
  <2>4. /\ Shape' /\ disk'[Status] = disk[Status] /\ (Complete("ce")' <=> Complete("ce"))
        /\ disk'[Priv("ce")] = disk[Priv("ce")] /\ disk'[Pub("ce")] = disk[Pub("ce")]
    BY <1>1, <1>2, <2>2, WriteElsewhere
  <2>5. o.val = 0
    BY <1>2, <2>2, OpFacts
  <2>6. SafeAt("ce")'
    BY <1>1, <1>2, <2>2, <2>3, <2>5, SafeElsewhere
  <2>7. Marked' /\ Place' = "ce"
    BY <2>1, <2>4 DEF Place, CleanInv, Marked
  <2>8. todo' \in Seq(Removes("kcm"))
    BY <1>1, <2>1 DEF CleanInv
  <2>9. CleanInv'
    BY <1>1, <2>1, <2>4, <2>7, <2>8 DEF CleanInv, Renewing
  <2> QED BY <1>1, <1>6, <2>4, <2>6, <2>7, <2>9 DEF PcInv
<1>7. CASE pc = "store"
  <2>1. StoreInv
    BY <1>7 DEF PcInv
  <2>2. o \in Stores("kcm")
    BY <1>1, <2>1 DEF StoreInv, o
  <2>3. Place = "ce" /\ SafeAt("ce")
    BY <2>1 DEF Place, StoreInv, Marked
  <2>4. /\ Shape' /\ disk'[Status] = disk[Status] /\ (Complete("ce")' <=> Complete("ce"))
        /\ disk'[Priv("ce")] = disk[Priv("ce")] /\ disk'[Pub("ce")] = disk[Pub("ce")]
    BY <1>1, <1>2, <2>2, WriteElsewhere
  <2>5. o.at = Pub("kcm") => o.val = 0 \/ disk[Pub("ce")] # 0
    BY <1>1, <2>1, HeadFacts DEF StoreInv, PubStored, o
  <2>6. SafeAt("ce")'
    BY <1>1, <1>2, <2>2, <2>3, <2>5, SafeElsewhere
  <2>7. Marked' /\ Place' = "ce"
    BY <2>1, <2>4 DEF Place, StoreInv, Marked
  <2>8. todo' \in Seq(Stores("kcm"))
    BY <1>1, <2>1 DEF StoreInv
  <2>9. PubStored("kcm", "ce")'
    BY <1>1, <2>1, <2>4, PubStoredStep DEF StoreInv
  <2>10. o.at \in Entries /\ ~(o.kind = "add" /\ o.val = Foreign)
    BY <1>1, <1>2, <2>2, OpFacts, NoForeign
  <2>11. ASSUME NEW g, NEW pub, SetTarget("kcm", g, pub) PROVE SetTarget("kcm", g, pub)'
    BY <1>1, <1>2, <2>1, <2>10, <2>11, SetTargetStep DEF o, StoreInv
  <2>12. ASSUME ~failed PROVE SetTarget("kcm", gen, IF withPub THEN gen ELSE 0)'
    <3>1. SetTarget("kcm", gen, IF withPub THEN gen ELSE 0)
      BY <2>1, <2>12 DEF StoreInv
    <3>2. PICK g, pub : g = gen /\ pub = IF withPub THEN gen ELSE 0
      OBVIOUS
    <3>3. SetTarget("kcm", g, pub)'
      BY <2>11, <3>1, <3>2
    <3> QED BY <1>1, <3>2, <3>3
  <2>13. StoreInv'
    BY <1>1, <2>1, <2>4, <2>7, <2>8, <2>9, <2>12 DEF StoreInv, Renewing
  <2> QED BY <1>1, <1>7, <2>4, <2>6, <2>7, <2>13 DEF PcInv
<1>8. CASE pc = "freed"
  <2>1. FreedInv
    BY <1>8 DEF PcInv
  <2>2. o \in Removes("kcm")
    BY <1>1, <2>1 DEF FreedInv, o
  <2>3. Place = "ce" /\ SafeAt("ce")
    BY <2>1 DEF Place, FreedInv, Marked
  <2>4. /\ Shape' /\ disk'[Status] = disk[Status] /\ (Complete("ce")' <=> Complete("ce"))
        /\ disk'[Priv("ce")] = disk[Priv("ce")] /\ disk'[Pub("ce")] = disk[Pub("ce")]
    BY <1>1, <1>2, <2>2, WriteElsewhere
  <2>5. o.val = 0
    BY <1>2, <2>2, OpFacts
  <2>6. SafeAt("ce")'
    BY <1>1, <1>2, <2>2, <2>3, <2>5, SafeElsewhere
  <2>7. Marked' /\ Place' = "ce"
    BY <2>1, <2>4 DEF Place, FreedInv, Marked
  <2>8. todo' \in Seq(Removes("kcm"))
    BY <1>1, <2>1 DEF FreedInv
  <2>9. FreedInv'
    BY <2>7, <2>8 DEF FreedInv
  <2> QED BY <1>1, <1>8, <2>4, <2>6, <2>7, <2>9 DEF PcInv
<1>9. CASE pc = "wipe"
  <2>1. WipeInv
    BY <1>9 DEF PcInv
  <2>2. o \in Removes("kcm")
    BY <1>1, <2>1 DEF WipeInv, o
  <2>3. Place = "ce" /\ SafeAt("ce")
    BY <2>1 DEF Place, WipeInv, Marked
  <2>4. /\ Shape' /\ disk'[Status] = disk[Status] /\ (Complete("ce")' <=> Complete("ce"))
        /\ disk'[Priv("ce")] = disk[Priv("ce")] /\ disk'[Pub("ce")] = disk[Pub("ce")]
    BY <1>1, <1>2, <2>2, WriteElsewhere
  <2>5. o.val = 0
    BY <1>2, <2>2, OpFacts
  <2>6. SafeAt("ce")'
    BY <1>1, <1>2, <2>2, <2>3, <2>5, SafeElsewhere
  <2>7. Marked' /\ Place' = "ce"
    BY <2>1, <2>4 DEF Place, WipeInv, Marked
  <2>8. todo' \in Seq(Removes("kcm"))
    BY <1>1, <2>1 DEF WipeInv
  <2>9. /\ Priv("kcm") \in Entries /\ Pub("kcm") \in Entries
        /\ Mid("kcm", 1) \in Entries /\ End("kcm", 1) \in Entries /\ o.at \in Entries
    BY <1>2, <2>2, EntryIn, OpFacts DEF Slots
  <2>10. \A e \in Entries : \A v : Target(e, v) => Target(e, v)'
    BY <1>1, <2>1, <2>9, TargetStep DEF o, WipeInv
  <2>11. WipeInv'
    BY <1>1, <2>1, <2>7, <2>8, <2>9, <2>10 DEF WipeInv
  <2> QED BY <1>1, <1>9, <2>4, <2>6, <2>7, <2>11 DEF PcInv
<1>10. CASE pc = "copy"
  <2>1. CopyInv
    BY <1>10 DEF PcInv
  <2>2. o \in Stores("kcm")
    BY <1>1, <2>1 DEF CopyInv, o
  <2>3. Place = "ce" /\ SafeAt("ce")
    BY <2>1 DEF Place, CopyInv, Marked
  <2>4. /\ Shape' /\ disk'[Status] = disk[Status] /\ (Complete("ce")' <=> Complete("ce"))
        /\ disk'[Priv("ce")] = disk[Priv("ce")] /\ disk'[Pub("ce")] = disk[Pub("ce")]
    BY <1>1, <1>2, <2>2, WriteElsewhere
  <2>5. o.at = Pub("kcm") => o.val = 0 \/ disk[Pub("ce")] # 0
    BY <1>1, <2>1, HeadFacts DEF CopyInv, PubStored, o
  <2>6. SafeAt("ce")'
    BY <1>1, <1>2, <2>2, <2>3, <2>5, SafeElsewhere
  <2>7. Marked' /\ Place' = "ce"
    BY <2>1, <2>4 DEF Place, CopyInv, Marked
  <2>8. todo' \in Seq(Stores("kcm"))
    BY <1>1, <2>1 DEF CopyInv
  <2>9. PubStored("kcm", "ce")'
    BY <1>1, <2>1, <2>4, PubStoredStep DEF CopyInv
  <2>10. o.at \in Entries /\ ~(o.kind = "add" /\ o.val = Foreign)
    BY <1>1, <1>2, <2>2, OpFacts, NoForeign
  <2>11. ASSUME NEW g, NEW pub, SetTarget("kcm", g, pub) PROVE SetTarget("kcm", g, pub)'
    BY <1>1, <1>2, <2>1, <2>10, <2>11, SetTargetStep DEF o, CopyInv
  <2>12. PICK g, pub : g = disk[Priv("ce")] /\ pub = disk[Pub("ce")]
    OBVIOUS
  <2>13. SetTarget("kcm", g, pub) /\ Unrefused(g) /\ g \in Gens
    BY <1>2, <2>1, <2>3, <2>12, GoodIsSet DEF CopyInv, SafeAt
  <2>14. SetTarget("kcm", g, pub)'
    BY <2>11, <2>13
  <2>15. Unrefused(g)'
    BY <1>1, <2>1, <2>13, UnrefusedStep DEF o, CopyInv
  <2>16. SetTarget("kcm", disk[Priv("ce")], disk[Pub("ce")])' /\ Unrefused(disk[Priv("ce")])'
    BY <2>4, <2>12, <2>14, <2>15
  <2>17. CopyInv'
    BY <1>1, <2>1, <2>7, <2>8, <2>9, <2>16 DEF CopyInv
  <2> QED BY <1>1, <1>10, <2>4, <2>6, <2>7, <2>17 DEF PcInv
<1>11. CASE pc = "undo"
  <2>1. UndoInv
    BY <1>11 DEF PcInv
  <2>2. o \in Removes("ce")
    BY <1>1, <2>1 DEF UndoInv, o
  <2>3. SafeAt("kcm")
    BY <2>1 DEF UndoInv
  <2>4. Shape' /\ o.val = 0 /\ o.at \in Entries
    BY <1>1, <1>2, <2>2, WriteElsewhere, OpFacts
  <2>5. SafeAt("kcm")'
    BY <1>1, <1>2, <2>2, <2>3, <2>4, SafeElsewhere
  <2>6. disk'[Priv("ce")] = 0
    <3>1. Priv("ce") \in Entries
      BY <1>3 DEF Slots
    <3>2. CASE Has(Priv("ce"))
      <4>1. o.at = Priv("ce")
        BY <2>1, <3>2 DEF UndoInv, o
      <4> QED BY <1>1, <2>4, <4>1, WriteOne
    <3>3. CASE ~Has(Priv("ce"))
      BY <1>1, <2>4, <3>1, <3>3, WriteOne
    <3> QED BY <3>2, <3>3
  <2>7. Place' = "kcm"
    BY <2>6 DEF Place, Complete
  <2>8. todo' \in Seq(Removes("ce"))
    BY <1>1, <2>1 DEF UndoInv
  <2>9. UndoInv'
    BY <1>1, <2>1, <2>5, <2>6, <2>8 DEF UndoInv
  <2> QED BY <1>1, <1>11, <2>4, <2>5, <2>7, <2>9 DEF PcInv
<1>12. CASE pc = "unmark"
  <2>1. UnmarkInv
    BY <1>12 DEF PcInv
  <2>2. todo = <<Remove(Status)>>
    BY <1>1, <2>1 DEF UnmarkInv
  <2>3. o = Remove(Status) /\ todo' = <<>>
    BY <1>1, <2>2 DEF o
  <2>4. o.at = Status /\ o.val = 0
    BY <2>3 DEF Remove, Op
  <2>5. disk'[Status] = 0 /\ \A e \in Entries : e # Status => disk'[e] = disk[e]
    BY <1>1, <1>3, <2>4, WriteOne
  <2>6. \A p \in Prefixes : \A e \in Slots(p) : e # Status
    BY EntryParts DEF Slots
  <2>7. \A p \in Prefixes : \A e \in Slots(p) : disk'[e] = disk[e]
    BY <1>3, <2>5, <2>6 DEF Prefixes
  <2>8. \A p \in Prefixes : /\ disk'[Priv(p)] = disk[Priv(p)] /\ disk'[Pub(p)] = disk[Pub(p)]
                            /\ disk'[Mid(p, 1)] = disk[Mid(p, 1)] /\ disk'[Mid(p, 2)] = disk[Mid(p, 2)]
                            /\ disk'[End(p, 1)] = disk[End(p, 1)]
    BY <2>7 DEF Slots
  <2>9. Shape'
    <3>1. disk' \in [Entries -> 0 .. MaxGen]
      BY <1>1, <1>3, <2>4, BoundAssumption DEF Shape
    <3> QED BY <1>1, <2>8, <3>1 DEF Shape
  <2>10. Good("kcm")' <=> Good("kcm")
    BY <1>1, <1>2, <2>7, <2>9, SameItems
  <2>11. Place' = "kcm"
    BY <2>5 DEF Place
  <2>12. SafeAt("kcm")'
    BY <1>1, <1>2, <2>1, <2>8, <2>10 DEF SafeAt, UnmarkInv
  <2>13. UnmarkInv'
    BY <1>1, <1>2, <2>1, <2>3, <2>5, <2>8, <2>12 DEF UnmarkInv
  <2> QED BY <1>1, <1>12, <2>9, <2>11, <2>12, <2>13 DEF PcInv
<1>13. CASE pc = "discard"
  <2>1. DiscardInv
    BY <1>13 DEF PcInv
  <2>2. o \in Removes("ce")
    BY <1>1, <2>1 DEF DiscardInv, o
  <2>3. Place = "kcm" /\ SafeAt("kcm")
    BY <2>1 DEF DiscardInv, Place
  <2>4. /\ Shape' /\ o.val = 0 /\ disk'[Status] = disk[Status]
        /\ disk'[Priv("kcm")] = disk[Priv("kcm")]
    BY <1>1, <1>2, <2>2, WriteElsewhere, OpFacts
  <2>5. SafeAt("kcm")'
    BY <1>1, <1>2, <2>2, <2>3, <2>4, SafeElsewhere
  <2>6. Place' = "kcm"
    BY <2>1, <2>4 DEF DiscardInv, Place
  <2>7. todo' \in Seq(Removes("ce"))
    BY <1>1, <2>1 DEF DiscardInv
  <2>8. DiscardInv'
    BY <1>1, <2>1, <2>4, <2>7 DEF DiscardInv
  <2> QED BY <1>1, <1>13, <2>4, <2>5, <2>6, <2>8 DEF PcInv
<1>14. CASE pc \in {"off", "ready", "restore"}
  BY <1>1, <1>14 DEF PcInv, OffInv, ReadyInv, RestoreInv
<1> QED BY <1>4, <1>5, <1>6, <1>7, <1>8, <1>9, <1>10, <1>11, <1>12, <1>13, <1>14 DEF PcInv

-----------------------------------------------------------------------------
(***************************************************************************)
(* An operation is refused                                                 *)
(***************************************************************************)

\* Nothing that the place of the items depends on changes.
LEMMA PlaceKept ==
  ASSUME SafeAt(Place), UNCHANGED <<disk, len, gen, told>>
  PROVE  SafeAt(Place)' /\ Place' = Place
BY DEF SafeAt, Place, Good, Complete, Has, Opens, IsChainLen

\* A refused store: of the backup, or of the new items in their place.
LEMMA OpFailsKeeps ==
  ASSUME ShortChains, Shape, SafeAt(Place), PcInv, OpFails, written'
  PROVE  Shape' /\ SafeAt(Place)' /\ PcInv'
<1> DEFINE o == Head(todo)
<1>1. /\ todo # <<>> /\ Refused(o) /\ failed' = TRUE
      /\ todo' = CASE o.kind = "remove" -> Tail(todo)
                   [] InChain(o) -> RemoveAdded(o.at[1], o.at[3])
                   [] OTHER -> <<>>
      /\ pc' = IF pc = "store" /\ InChain(o) THEN "freed" ELSE pc
      /\ UNCHANGED <<disk, len, gen, withPub, bad, current, told, queue, est>>
  BY DEF OpFails, clientVars, storeVars
<1> HIDE DEF o
<1>2. "kcm" \in Prefixes /\ "ce" \in Prefixes
  BY DEF Prefixes
<1>3. o.kind # "remove"
  BY <1>1 DEF Refused
<1>4. Shape'
  BY <1>1 DEF Shape
<1>5. SafeAt(Place)' /\ Place' = Place
  BY <1>1, PlaceKept
<1>6. ASSUME NEW p \in Prefixes, o \in Stores(p)
      PROVE  /\ InChain(o) => todo' \in Seq(Removes(p))
             /\ ~InChain(o) => todo' = <<>>
  <2>1. CASE InChain(o)
    <3>1. o.at[1] = p /\ o.at[3] \in {1, 2}
      <4>1. o.at = Mid(p, 1) \/ o.at = End(p, 2)
        BY <1>6, <2>1, OpFacts DEF InChain
      <4> QED BY <4>1, EntryParts
    <3>2. todo' = RemoveAdded(o.at[1], o.at[3])
      BY <1>1, <1>3, <2>1
    <3> QED BY <2>1, <3>1, <3>2, RemoveAddedForm
  <2>2. CASE ~InChain(o)
    BY <1>1, <1>3, <2>2
  <2> QED BY <2>1, <2>2
<1>7. CASE pc = "backup"
  <2>1. BackupInv
    BY <1>7 DEF PcInv
  <2>2. o \in Stores("ce")
    <3>1. o \in Stores("ce") \cup Removes("ce")
      BY <1>1, <2>1 DEF BackupInv, o
    <3> QED BY <1>2, <1>3, <3>1, OpFacts
  <2>3. todo' \in Seq(Removes("ce")) /\ \A i \in DOMAIN todo' : todo'[i].val = 0
    <3>1. (InChain(o) => todo' \in Seq(Removes("ce"))) /\ (~InChain(o) => todo' = <<>>)
      BY <1>2, <1>6, <2>2
    <3>2. todo' \in Seq(Removes("ce"))
      <4>1. CASE InChain(o)
        BY <3>1, <4>1
      <4>2. CASE ~InChain(o)
        <5>1. todo' = <<>>
          BY <3>1, <4>2
        <5> QED BY <5>1
      <4> QED BY <4>1, <4>2
    <3>3. \A r \in Removes("ce") : r.val = 0
      BY DEF Removes
    <3> QED BY <3>2, <3>3
  <2>4. todo' \in Seq(Stores("ce") \cup Removes("ce"))
    BY <2>3
  <2>5. BackupInv'
    BY <1>1, <2>1, <2>3, <2>4 DEF BackupInv, Renewing, PubStored, Has
  <2> QED BY <1>1, <1>4, <1>5, <1>7, <2>5 DEF PcInv
<1>8. CASE pc = "store"
  <2>1. StoreInv
    BY <1>8 DEF PcInv
  <2>2. o \in Stores("kcm")
    BY <1>1, <2>1 DEF StoreInv, o
  <2>3. Marked'
    BY <1>1, <2>1 DEF StoreInv, Marked, Has, Complete, Opens, IsChainLen
  <2>4. CASE InChain(o)
    <3>1. FreedInv' /\ pc' = "freed"
      BY <1>1, <1>2, <1>6, <1>8, <2>2, <2>3, <2>4 DEF FreedInv
    <3> QED BY <1>4, <1>5, <3>1 DEF PcInv
  <2>5. CASE ~InChain(o)
    <3>1. todo' = <<>> /\ pc' = "store"
      BY <1>1, <1>2, <1>6, <1>8, <2>2, <2>5
    <3>2. StoreInv'
      BY <1>1, <2>1, <2>3, <3>1 DEF StoreInv, Renewing, PubStored
    <3> QED BY <1>4, <1>5, <3>1, <3>2 DEF PcInv
  <2> QED BY <2>4, <2>5
<1>9. CASE pc = "status"
  <2>1. todo = <<Op("store", Status, 1)>> /\ ~Has(Status)
    BY <1>1, <1>9 DEF PcInv, StatusInv
  <2>2. o = Op("store", Status, 1)
    BY <2>1 DEF o
  <2>3. o.kind = "store" /\ o.at = Status /\ o.val = 1
    BY <2>2 DEF Op
  <2> QED BY <1>1, <2>1, <2>3, EntryParts DEF Refused, Exists
<1>10. CASE pc = "copy"
  <2>1. CopyInv
    BY <1>10 DEF PcInv
  <2>2. Place = "ce"
    BY <2>1 DEF Place, CopyInv, Marked
  <2>3. disk[Priv("ce")] \in Gens
    BY <1>2, <2>2, GoodIsSet DEF SafeAt
  <2> QED BY <1>1, <2>1, <2>3, UnrefusedHead DEF CopyInv, o
<1>11. CASE pc \in {"clean", "freed", "wipe", "undo", "discard"}
  <2>1. o \in Removes("kcm") \cup Removes("ce")
    BY <1>1, <1>11 DEF PcInv, CleanInv, FreedInv, WipeInv, UndoInv, DiscardInv, o
  <2> QED BY <1>2, <1>3, <2>1, OpFacts
<1>12. CASE pc = "unmark"
  <2>1. o = Remove(Status)
    BY <1>1, <1>12 DEF PcInv, UnmarkInv, o
  <2> QED BY <1>3, <2>1 DEF Remove, Op
<1>13. CASE pc \in {"off", "ready", "restore"}
  BY <1>1, <1>13 DEF PcInv, OffInv, ReadyInv, RestoreInv
<1> QED BY <1>7, <1>8, <1>9, <1>10, <1>11, <1>12, <1>13 DEF PcInv

-----------------------------------------------------------------------------
(***************************************************************************)
(* A function has come to its end                                          *)
(***************************************************************************)

\* With no operation left the items are what the operations were to make.
LEMMA TargetDone ==
  ASSUME todo = <<>>, NEW e, NEW v, Target(e, v)
  PROVE  disk[e] = v
BY DEF Target

\* The same for all the items with a prefix: they are a matching set.
LEMMA SetDone ==
  ASSUME ShortChains, Shape, NEW p \in Prefixes, todo = <<>>, NEW g \in Gens, g <= gen,
         NEW pub \in {0, g}, SetTarget(p, g, pub)
  PROVE  Good(p) /\ disk[Priv(p)] = g /\ disk[Pub(p)] = pub
<1>1. disk[Priv(p)] = g /\ disk[Pub(p)] = pub
  BY TargetDone DEF SetTarget
<1>2. g \in 1 .. gen /\ g # 0
  BY BoundAssumption DEF Shape, Gens
<1>3. CASE len[g].n = 1
  <2>1. disk[End(p, 1)] = g
    BY <1>3, TargetDone DEF SetTarget
  <2>2. disk[Mid(p, 1)] = 0
    BY <1>2, <2>1 DEF Shape
  <2> QED BY <1>1, <1>2, <1>3, <2>1, <2>2 DEF Good
<1>4. CASE len[g].n # 1
  <2>1. len[g].ok
    BY <1>4 DEF SetTarget
  <2>2. disk[Mid(p, 1)] = g /\ disk[End(p, 2)] = g
    BY <1>4, <2>1, TargetDone DEF SetTarget
  <2> QED BY <1>1, <1>2, <1>4, <2>1, <2>2 DEF Good
<1> QED BY <1>3, <1>4

\* Every function of ce_safe_renewal and ce_restore_backup_items hands over to the next
\* one with what that one relies on.
LEMMA AdvanceKeeps ==
  ASSUME ShortChains, Shape, SafeAt(Place), PcInv, Advance
  PROVE  Shape' /\ SafeAt(Place)' /\ PcInv'
<1>1. /\ UNCHANGED <<disk, len, gen, withPub, current, told, queue, est>>
      /\ \/ BackupDone \/ StatusDone \/ CleanDone \/ StoreDone
         \/ Restore \/ WipeDone \/ CopyDone \/ UndoDone
  BY DEF Advance, clientVars, storeVars
<1>2. "kcm" \in Prefixes /\ "ce" \in Prefixes
  BY DEF Prefixes
<1>3. todo = <<>> /\ failed \in BOOLEAN /\ failed' = FALSE /\ bad' \in BOOLEAN
  BY <1>1 DEF BackupDone, StatusDone, CleanDone, StoreDone, Restore, WipeDone, CopyDone,
              UndoDone, Done, Run, Shape
<1>4. Shape'
  BY <1>1, <1>3 DEF Shape
<1>5. SafeAt(Place)' /\ Place' = Place
  BY <1>1, PlaceKept
<1>6. Marked' <=> Marked
  BY <1>1 DEF Marked, Has, Complete, Opens, IsChainLen
<1>7. \A p : (Good(p)' <=> Good(p)) /\ (SafeAt(p)' <=> SafeAt(p))
  BY <1>1 DEF Good, SafeAt
<1>8. withPub \in BOOLEAN /\ Has(Pub("ce")) \in BOOLEAN /\ Has(Status) \in BOOLEAN
  BY DEF Shape, Has
<1>9. CASE BackupDone
  <2>1. pc = "backup" /\ BackupInv /\ bad' = failed
    BY <1>9 DEF BackupDone, Done, PcInv
  <2>2. Place = "kcm" /\ SafeAt("kcm")
    BY <2>1 DEF Place, BackupInv
  <2>3. CASE failed
    <3>1. pc' = "undo" /\ todo' = CleanItems("ce", withPub) /\ bad'
      BY <1>9, <2>3 DEF BackupDone, Run
    <3>2. todo' \in Seq(Removes("ce")) /\ todo' # <<>> /\ Head(todo').at = Priv("ce")
      BY <1>2, <1>8, <3>1, CleanForm
    <3>3. UndoInv'
      BY <1>7, <2>2, <3>1, <3>2 DEF UndoInv
    <3> QED BY <1>4, <1>5, <3>1, <3>3 DEF PcInv
  <2>4. CASE ~failed
    <3> DEFINE g == disk[Priv("kcm")]
    <3>1. g \in Gens /\ g <= gen /\ disk[Pub("kcm")] \in {0, g} /\ Good("kcm")
      BY <1>2, <2>2, GoodIsSet DEF SafeAt, Good, Shape, Gens
    <3>2. Good("ce") /\ disk[Priv("ce")] = g /\ disk[Pub("ce")] = disk[Pub("kcm")]
      BY <1>2, <1>3, <2>1, <2>4, <3>1, SetDone DEF BackupInv
    <3>3. pc' = "status" /\ todo' = StatusOps
      BY <1>9, <2>4 DEF BackupDone, Run
    <3>4. todo' = <<Op("store", Status, 1)>>
      <4>1. StatusOps = <<>> \o <<Op("store", Status, 1)>>
        BY <2>1 DEF StatusOps, BackupInv
      <4> QED BY <3>3, <4>1
    <3>5. StatusInv'
      BY <1>1, <1>3, <1>7, <2>1, <3>1, <3>2, <3>4 DEF StatusInv, BackupInv, Renewing, Has
    <3> QED BY <1>4, <1>5, <3>3, <3>5 DEF PcInv
  <2> QED BY <2>3, <2>4
<1>10. CASE StatusDone
  <2>1. pc = "status" /\ StatusInv
    BY <1>10 DEF StatusDone, Done, PcInv
  <2>2. ~failed /\ Has(Status) /\ Complete("ce")
    BY <1>2, <1>3, <2>1, GoodIsSet DEF StatusInv
  <2>3. pc' = "clean" /\ todo' = CleanItems("kcm", withPub)
    BY <1>10, <2>2 DEF StatusDone, Run
  <2>4. todo' \in Seq(Removes("kcm"))
    BY <1>2, <1>8, <2>3, CleanForm
  <2>5. CleanInv'
    BY <1>1, <1>3, <1>6, <2>1, <2>2, <2>4 DEF CleanInv, StatusInv, Renewing, Marked
  <2> QED BY <1>4, <1>5, <2>3, <2>5 DEF PcInv
<1>11. CASE CleanDone
  <2>1. pc = "clean" /\ CleanInv
    BY <1>11 DEF CleanDone, Done, PcInv
  <2>2. Place = "ce" /\ SafeAt("ce")
    BY <2>1 DEF Place, CleanInv, Marked
  <2>3. pc' = "store" /\ todo' = StoreItems("kcm", withPub, gen, gen, Issued(gen))
    BY <1>11, <2>1 DEF CleanDone, Run, CleanInv
  <2>4. ~withPub => disk[Pub("kcm")] = 0
    BY <2>1, <2>2 DEF CleanInv, Renewing, SafeAt
  <2>5. /\ todo' \in Seq(Stores("kcm"))
        /\ \A i \in DOMAIN todo' : todo'[i].at = Pub("kcm") => withPub
    BY <1>1, <1>2, <1>8, <2>3, <2>4, StoreList DEF Shape
  <2>6. SetTarget("kcm", gen, IF withPub THEN gen ELSE 0)'
    <3>1. PICK g, pub : g = gen /\ pub = withPub
      OBVIOUS
    <3>2. g \in Gens /\ pub \in BOOLEAN /\ (~pub => disk[Pub("kcm")] = 0)
      BY <1>8, <2>4, <3>1 DEF Shape
    <3>3. SetTarget("kcm", g, IF pub THEN g ELSE 0)'
      BY <1>1, <1>2, <2>3, <3>1, <3>2, StoreList
    <3> QED BY <1>1, <3>1, <3>3
  <2>7. StoreInv'
    BY <1>1, <1>3, <1>6, <2>1, <2>5, <2>6 DEF StoreInv, CleanInv, Renewing, PubStored
  <2> QED BY <1>4, <1>5, <2>3, <2>7 DEF PcInv
<1>12. CASE StoreDone
  <2>1. pc = "store" /\ StoreInv /\ bad' = failed
    BY <1>12 DEF StoreDone, Done, PcInv
  <2>2. Place = "ce" /\ SafeAt("ce") /\ Has(Status)
    BY <2>1 DEF Place, StoreInv, Marked
  <2>3. CASE failed
    <3>1. pc' = "restore" /\ todo' = <<>> /\ bad'
      BY <1>12, <2>3 DEF StoreDone, Run
    <3>2. RestoreInv'
      BY <1>1, <2>2, <3>1 DEF RestoreInv, Has
    <3> QED BY <1>4, <1>5, <3>1, <3>2 DEF PcInv
  <2>4. CASE ~failed
    <3>1. pc' = "unmark" /\ todo' = <<Remove(Status)>>
      BY <1>12, <2>4 DEF StoreDone, Run
    <3> DEFINE pub == IF withPub THEN gen ELSE 0
    <3>2. gen \in Gens /\ gen <= gen /\ pub \in {0, gen}
      BY DEF Shape, Gens
    <3>3. SetTarget("kcm", gen, pub)
      BY <2>1, <2>4 DEF StoreInv
    <3> HIDE DEF pub
    <3>4. Good("kcm") /\ disk[Priv("kcm")] = gen /\ disk[Pub("kcm")] = pub
      BY <1>2, <1>3, <3>2, <3>3, SetDone
    <3>5. disk[Priv("ce")] >= told /\ disk[Priv("ce")] < gen /\ disk[Priv("ce")] \in Gens /\ told \in Gens
      BY <1>2, <2>1, <2>2, GoodIsSet DEF SafeAt, StoreInv, Renewing, Shape
    <3>6. gen >= told
      BY <3>2, <3>5 DEF Gens
    <3>7. disk[Pub("kcm")] = 0 => disk[Pub("ce")] = 0
      <4>1. gen # 0
        BY <3>2 DEF Gens
      <4> QED BY <1>8, <2>1, <3>4, <4>1 DEF pub, StoreInv, Renewing
    <3>8. SafeAt("kcm")
      BY <3>4, <3>6, <3>7 DEF SafeAt
    <3>9. UnmarkInv'
      BY <1>1, <1>7, <3>1, <3>4, <3>8 DEF UnmarkInv
    <3> QED BY <1>4, <1>5, <3>1, <3>9 DEF PcInv
  <2> QED BY <2>3, <2>4
<1>13. CASE Restore
  <2>1. pc = "restore" /\ RestoreInv /\ bad' = bad
    BY <1>13 DEF Restore, Done, PcInv
  <2>2. CASE Has(Priv("ce")) /\ Opens("ce")
    <3>1. pc' = "wipe" /\ todo' = CleanItems("kcm", Has(Pub("ce")))
      BY <1>13, <2>2 DEF Restore, Run
    <3>2. Marked /\ Place = "ce" /\ SafeAt("ce")
      BY <2>1, <2>2 DEF Marked, Place, Complete, RestoreInv
    <3>3. ~Has(Pub("ce")) => disk[Pub("kcm")] = 0
      BY <3>2 DEF SafeAt, Has
    <3>4. disk[Mid("kcm", 1)] = 0 \/ disk[End("kcm", 1)] = 0
      BY <1>2 DEF Shape
    <3> DEFINE A == Remove(Priv("kcm"))
               B == Remove(Pub("kcm"))
               C == Remove(CertHead("kcm"))
    <3>5. /\ A.at = Priv("kcm") /\ A.val = 0 /\ B.at = Pub("kcm") /\ B.val = 0
          /\ C.at = CertHead("kcm") /\ C.val = 0
      BY DEF Remove, Op
    <3>6. /\ disk[End("kcm", 1)] # 0 => CertHead("kcm") = End("kcm", 1)
          /\ disk[End("kcm", 1)] = 0 => CertHead("kcm") = Mid("kcm", 1)
      BY DEF CertHead, Has
    <3>7. todo' \in Seq(Removes("kcm")) /\ (todo' = <<A, B, C>> \/ (~Has(Pub("ce")) /\ todo' = <<A, C>>))
      BY <1>2, <1>8, <3>1, CleanForm
    <3> HIDE DEF A, B, C
    <3>8. /\ Target(Priv("kcm"), 0)' /\ Target(Pub("kcm"), 0)'
          /\ Target(Mid("kcm", 1), 0)' /\ Target(End("kcm", 1), 0)'
      <4>1. CASE todo' = <<A, B, C>>
        <5>1. DOMAIN todo' = 1 .. 3 /\ todo'[1] = A /\ todo'[2] = B /\ todo'[3] = C
          BY <4>1
        <5>2. \A i \in 1 .. 3 : i = 1 \/ i = 2 \/ i = 3
          OBVIOUS
        <5>3. \A i \in DOMAIN todo' : todo'[i].val = 0
          BY <3>5, <5>1, <5>2
        <5> QED BY <1>1, <3>4, <3>5, <3>6, <5>1, <5>3 DEF Target
      <4>2. CASE ~Has(Pub("ce")) /\ todo' = <<A, C>>
        <5>1. DOMAIN todo' = 1 .. 2 /\ todo'[1] = A /\ todo'[2] = C
          BY <4>2
        <5>2. \A i \in 1 .. 2 : i = 1 \/ i = 2
          OBVIOUS
        <5>3. \A i \in DOMAIN todo' : todo'[i].val = 0
          BY <3>5, <5>1, <5>2
        <5> QED BY <1>1, <3>3, <3>4, <3>5, <3>6, <4>2, <5>1, <5>3 DEF Target
      <4> QED BY <3>7, <4>1, <4>2
    <3>9. WipeInv'
      BY <1>1, <1>6, <2>1, <3>2, <3>7, <3>8 DEF WipeInv, RestoreInv
    <3> QED BY <1>4, <1>5, <3>1, <3>9 DEF PcInv
  <2>3. CASE ~(Has(Priv("ce")) /\ Opens("ce"))
    <3>1. pc' = "undo" /\ todo' = CleanItems("ce", TRUE)
      BY <1>13, <2>3 DEF Restore, Run
    <3>2. Place = "kcm" /\ SafeAt("kcm")
      BY <2>3 DEF Place, Complete
    <3>3. todo' \in Seq(Removes("ce")) /\ todo' # <<>> /\ Head(todo').at = Priv("ce")
      BY <1>2, <3>1, CleanForm
    <3>4. UndoInv'
      BY <1>1, <1>7, <2>1, <3>2, <3>3 DEF UndoInv, RestoreInv
    <3> QED BY <1>4, <1>5, <3>1, <3>4 DEF PcInv
  <2> QED BY <2>2, <2>3
<1>14. CASE WipeDone
  <2>1. pc = "wipe" /\ WipeInv /\ bad' = bad
    BY <1>14 DEF WipeDone, Done, PcInv
  <2>2. Place = "ce" /\ SafeAt("ce") /\ Good("ce")
    BY <2>1 DEF Place, WipeInv, Marked, SafeAt
  <2>3. /\ disk[Priv("kcm")] = 0 /\ disk[Pub("kcm")] = 0
        /\ disk[Mid("kcm", 1)] = 0 /\ disk[End("kcm", 1)] = 0
    BY <1>3, <2>1, TargetDone DEF WipeInv
  <2>4. PICK g, pub : g = disk[Priv("ce")] /\ pub = Has(Pub("ce"))
    OBVIOUS
  <2>5. g \in Gens /\ pub \in BOOLEAN /\ (len[g].n = 2 => len[g].ok) /\ disk[Pub("ce")] \in {0, g} /\ g # 0
    BY <1>2, <1>8, <2>2, <2>4, GoodIsSet DEF Good, Gens
  <2>6. pc' = "copy" /\ todo' = StoreItems("kcm", pub, g, g, Issued(g))
    <3>1. pc' = "copy" /\ todo' = CopyItems("ce", "kcm", pub)
      BY <1>14, <2>4 DEF WipeDone, Run
    <3>2. pub = (disk[Pub("ce")] # 0)
      BY <2>4 DEF Has
    <3> QED BY <1>2, <2>2, <2>4, <2>5, <3>1, <3>2, CopyForm
  <2>7. /\ todo' \in Seq(Stores("kcm"))
        /\ SetTarget("kcm", g, IF pub THEN g ELSE 0)'
        /\ \A i \in DOMAIN todo' : todo'[i].at = Pub("kcm") => pub
    BY <1>1, <1>2, <2>3, <2>5, <2>6, StoreList
  <2>8. disk[Pub("ce")] = IF pub THEN g ELSE 0
    BY <2>4, <2>5 DEF Has
  <2>9. Unrefused(g)'
    BY <1>1, <2>3, <2>5, <2>6, CopyUnrefused
  <2>10. SetTarget("kcm", disk[Priv("ce")], disk[Pub("ce")])' /\ Unrefused(disk[Priv("ce")])'
    BY <1>1, <2>4, <2>7, <2>8, <2>9
  <2>11. CopyInv'
    BY <1>1, <1>3, <1>6, <2>1, <2>4, <2>7, <2>10 DEF CopyInv, WipeInv, PubStored, Has
  <2> QED BY <1>4, <1>5, <2>6, <2>11 DEF PcInv
<1>15. CASE CopyDone
  <2>1. pc = "copy" /\ CopyInv /\ bad' = bad
    BY <1>15 DEF CopyDone, Done, PcInv
  <2>2. Place = "ce" /\ SafeAt("ce") /\ Good("ce")
    BY <2>1 DEF Place, CopyInv, Marked, SafeAt
  <2>3. pc' = "undo" /\ todo' = CleanItems("ce", Has(Pub("ce")))
    BY <1>15, <2>1 DEF CopyDone, Run, CopyInv
  <2>4. disk[Priv("ce")] \in Gens /\ disk[Priv("ce")] <= gen /\ disk[Pub("ce")] \in {0, disk[Priv("ce")]}
    BY <1>2, <2>2, GoodIsSet DEF Good, Shape, Gens
  <2>5. Good("kcm") /\ disk[Priv("kcm")] = disk[Priv("ce")] /\ disk[Pub("kcm")] = disk[Pub("ce")]
    BY <1>2, <1>3, <2>1, <2>4, SetDone DEF CopyInv
  <2>6. SafeAt("kcm")
    BY <2>2, <2>5 DEF SafeAt
  <2>7. todo' \in Seq(Removes("ce")) /\ todo' # <<>> /\ Head(todo').at = Priv("ce")
    BY <1>2, <1>8, <2>3, CleanForm
  <2>8. UndoInv'
    BY <1>1, <1>7, <2>1, <2>6, <2>7 DEF UndoInv, CopyInv
  <2> QED BY <1>4, <1>5, <2>3, <2>8 DEF PcInv
<1>16. CASE UndoDone
  <2>1. pc = "undo" /\ UndoInv /\ bad' = bad
    BY <1>16 DEF UndoDone, Done, PcInv
  <2>2. pc' = "unmark" /\ todo' = <<Remove(Status)>>
    BY <1>16 DEF UndoDone, Run
  <2>3. UnmarkInv'
    BY <1>1, <1>7, <2>1, <2>2 DEF UnmarkInv, UndoInv
  <2> QED BY <1>4, <1>5, <2>2, <2>3 DEF PcInv
<1> QED BY <1>1, <1>9, <1>10, <1>11, <1>12, <1>13, <1>14, <1>15, <1>16

-----------------------------------------------------------------------------
(***************************************************************************)
(* Requests, answers, power                                                *)
(***************************************************************************)

\* The device leaves the factory with a matching set.
LEMMA StorageInit == ShortChains /\ Init => StorageInv
<1> SUFFICES ASSUME ShortChains, Init PROVE StorageInv
  OBVIOUS
<1>1. RequestInv
  BY RequestInit
<1>2. PICK n \in ChainLens :
        /\ len = [g \in Gens |-> [n |-> n, ok |-> TRUE]]
        /\ disk = [e \in Entries |->
                     IF \/ e \in {Priv("kcm"), End("kcm", n)}
                        \/ e = Pub("kcm") /\ withPub
                        \/ \E i \in 1 .. n - 1 : e = Mid("kcm", i)
                     THEN 1 ELSE 0]
  BY DEF Init
<1>3. n \in {1, 2} /\ 1 \in Gens
  BY BoundAssumption DEF ShortChains, Gens
<1>4. Status \in Entries /\ "kcm" \in Prefixes /\ "ce" \in Prefixes
  BY EntryIn DEF Prefixes
<1>5. \A p \in Prefixes : /\ Priv(p) \in Entries /\ Pub(p) \in Entries /\ Mid(p, 1) \in Entries
                          /\ Mid(p, 2) \in Entries /\ End(p, 1) \in Entries /\ End(p, 2) \in Entries
  BY EntryIn DEF Slots
<1>6. \A i \in 1 .. n - 1 : i = 1 /\ n = 2
  BY <1>3
<1>7. disk \in [Entries -> 0 .. MaxGen]
  BY <1>2, BoundAssumption
<1>8. disk[Status] = 0 /\ \A p \in Prefixes : disk[Mid(p, 2)] = 0
  BY <1>2, <1>4, <1>5, <1>6, EntryParts
<1>9. /\ disk[Priv("kcm")] = 1 /\ disk[Pub("kcm")] = IF withPub THEN 1 ELSE 0
      /\ n = 1 => disk[End("kcm", 1)] = 1 /\ disk[Mid("kcm", 1)] = 0
      /\ n = 2 => disk[End("kcm", 2)] = 1 /\ disk[Mid("kcm", 1)] = 1 /\ disk[End("kcm", 1)] = 0
  <2>1. disk[Priv("kcm")] = 1
    BY <1>2, <1>4, <1>5
  <2>2. disk[Pub("kcm")] = IF withPub THEN 1 ELSE 0
    BY <1>2, <1>4, <1>5, EntryParts
  <2>3. n = 1 => disk[End("kcm", 1)] = 1 /\ disk[Mid("kcm", 1)] = 0
    BY <1>2, <1>4, <1>5, <1>6, EntryParts
  <2>4. ASSUME n = 2 PROVE disk[End("kcm", 2)] = 1 /\ disk[Mid("kcm", 1)] = 1 /\ disk[End("kcm", 1)] = 0
    <3>1. 1 \in 1 .. n - 1
      BY <2>4
    <3>2. disk[Mid("kcm", 1)] = 1
      BY <1>2, <1>4, <1>5, <3>1
    <3>3. disk[End("kcm", 2)] = 1
      BY <1>2, <1>4, <1>5, <2>4
    <3>4. disk[End("kcm", 1)] = 0
      BY <1>2, <1>4, <1>5, <2>4, EntryParts
    <3> QED BY <3>2, <3>3, <3>4
  <2> QED BY <2>1, <2>2, <2>3, <2>4
<1>10. disk[Pub("ce")] = 0 /\ disk[Mid("ce", 1)] = 0
  BY <1>2, <1>4, <1>5, EntryParts
<1>11. gen = 1 /\ told = 1 /\ withPub \in BOOLEAN /\ failed = FALSE /\ bad = FALSE
       /\ pc = "ready" /\ todo = <<>> /\ est = FALSE /\ queue = <<>>
  BY DEF Init
<1>12. Shape
  <2>1. \A p \in Prefixes : disk[Mid(p, 1)] = 0 \/ disk[End(p, 1)] = 0
    BY <1>3, <1>9, <1>10 DEF Prefixes
  <2>2. len \in [Gens -> [n : {1, 2}, ok : BOOLEAN]]
    BY <1>2, <1>3
  <2> QED BY <1>3, <1>7, <1>8, <1>11, <2>1, <2>2 DEF Shape
<1>13. Good("kcm")
  BY <1>2, <1>3, <1>9, <1>11 DEF Good
<1>14. Place = "kcm"
  BY <1>8 DEF Place, Has
<1>15. SafeAt("kcm")
  BY <1>9, <1>10, <1>11, <1>13 DEF SafeAt
<1>16. PcInv
  BY <1>8, <1>11 DEF PcInv, ReadyInv, Has
<1> QED BY <1>1, <1>12, <1>14, <1>15, <1>16 DEF StorageInv

\* The end of the restore at a start, and of a renewal.
LEMMA ReturnKeeps ==
  ASSUME ShortChains, RequestInv, Shape, SafeAt(Place), PcInv, Return
  PROVE  Shape' /\ SafeAt(Place)' /\ PcInv'
<1>1. UNCHANGED <<disk, len, gen, withPub, queue, est>>
  BY DEF Return, storeVars
<1>2. CASE UnmarkDone /\ UNCHANGED <<current, open, told>>
  <2>1. pc = "unmark" /\ todo = <<>> /\ bad' = bad /\ failed' = FALSE /\ UnmarkInv
    BY <1>2 DEF UnmarkDone, Done, Run, PcInv
  <2>2. Shape'
    BY <1>1, <1>2, <2>1 DEF Shape
  <2>3. SafeAt(Place)'
    BY <1>1, <1>2, PlaceKept
  <2>4. ~Has(Status) /\ ~Has(Status)'
    BY <1>1, <2>1 DEF UnmarkInv, Has
  <2>5. CASE current = 0
    <3>1. pc' = "ready" /\ todo' = <<>>
      BY <1>2, <2>5 DEF UnmarkDone, Run
    <3>2. ~est' /\ queue' = <<>>
      BY <1>1, <2>1 DEF RequestInv, Quiet, Busy
    <3>3. ReadyInv'
      BY <2>4, <3>1, <3>2 DEF ReadyInv
    <3> QED BY <2>2, <2>3, <3>1, <3>3 DEF PcInv
  <2>6. CASE current # 0
    <3>1. pc' = "discard" /\ todo' = CleanItems("ce", withPub)
      BY <1>2, <2>6 DEF UnmarkDone, Run
    <3>2. todo' \in Seq(Removes("ce"))
      BY <3>1, CleanForm DEF Shape, Prefixes
    <3>3. DiscardInv'
      BY <1>1, <1>2, <2>1, <2>4, <2>6, <3>2 DEF DiscardInv, UnmarkInv
    <3> QED BY <2>2, <2>3, <3>1, <3>3 DEF PcInv
  <2> QED BY <2>5, <2>6
<1>3. CASE DiscardDone
  <2>1. /\ pc = "discard" /\ DiscardInv /\ bad' = bad /\ failed' = FALSE
        /\ pc' = "ready" /\ todo' = <<>> /\ told' = IF ~bad THEN gen ELSE told
    BY <1>3 DEF DiscardDone, Done, Run, PcInv, Finish
  <2>2. Shape'
    BY <1>1, <2>1 DEF Shape
  <2>3. ~Has(Status) /\ ~Has(Status)'
    BY <1>1, <2>1 DEF DiscardInv, Has
  <2>4. SafeAt("kcm") /\ Place' = "kcm"
    BY <2>3 DEF Place
  <2>5. disk[Priv("kcm")] >= told'
    BY <2>1, <2>4 DEF SafeAt, DiscardInv, Shape, Gens
  <2>6. SafeAt("kcm")'
    BY <1>1, <2>4, <2>5 DEF SafeAt, Good
  <2>7. ~est' /\ queue' = <<>>
    BY <1>1, <2>1 DEF RequestInv, Quiet, Busy
  <2>8. ReadyInv'
    BY <2>1, <2>3, <2>7 DEF ReadyInv
  <2> QED BY <2>1, <2>2, <2>4, <2>6, <2>8 DEF PcInv
<1> QED BY <1>2, <1>3 DEF Return

\* A request, the start of a renewal, and the answer of the EST service.
LEMMA ClientKeeps ==
  ASSUME ShortChains, RequestInv, RequestInv', Shape, SafeAt(Place), PcInv,
         \/ Request \/ (\E initiator \in {"server", "device"} : RequestFails(initiator))
         \/ Start \/ EstFails \/ EstAnswers \/ Respond
  PROVE  Shape' /\ SafeAt(Place)' /\ PcInv'
<1>1. CASE Request
  <2>1. pc = "ready" /\ queue = <<>> /\ est = FALSE
    BY <1>1 DEF Request, RequestInv, Quiet, Busy
  <2>2. UNCHANGED <<disk, len, gen, withPub, pc, todo, failed, bad, est, told>>
    BY <1>1 DEF Request, storeVars, runVars
  <2>3. queue' = <<"request">>
    BY <1>1, <2>1 DEF Request
  <2>4. ReadyInv'
    BY <2>1, <2>2, <2>3 DEF PcInv, ReadyInv, Has
  <2> QED BY <2>1, <2>2, <2>4, PlaceKept DEF Shape, PcInv
<1>2. CASE \E initiator \in {"server", "device"} : RequestFails(initiator)
  <2>1. pc = "ready" /\ queue = <<>> /\ est = FALSE
    BY <1>2 DEF RequestFails, RequestInv, Quiet, Busy
  <2>2. UNCHANGED <<disk, len, gen, withPub, pc, todo, failed, bad, est, told, queue>>
    BY <1>2 DEF RequestFails, storeVars, runVars
  <2>3. ReadyInv'
    BY <2>1, <2>2 DEF PcInv, ReadyInv, Has
  <2> QED BY <2>1, <2>2, <2>3, PlaceKept DEF Shape, PcInv
<1>3. CASE Start \/ EstFails \/ EstAnswers \/ Respond
  <2>1. pc = "ready"
    BY <1>3 DEF Start, EstFails, EstAnswers, Respond, RequestInv, Quiet, Busy
  <2>2. ReadyInv /\ todo = <<>> /\ ~Has(Status)
    BY <2>1 DEF PcInv, ReadyInv
  <2>3. Place = "kcm" /\ SafeAt("kcm") /\ Good("kcm") /\ "kcm" \in Prefixes /\ "ce" \in Prefixes
    BY <2>2 DEF Place, SafeAt, Prefixes
  <2>4. disk[Priv("kcm")] \in Gens /\ disk[Priv("kcm")] <= gen
    BY <2>3, GoodIsSet DEF Good, Shape, Gens
  <2>5. CASE Start
    <3>1. queue' = <<>> /\ ~est
      BY <2>5, <2>1 DEF Start, RequestInv, Quiet, Busy
    <3>2. /\ UNCHANGED <<disk, len, pc, todo, failed, bad>>
          /\ withPub' = Has(Pub("kcm")) /\ told' = told
          /\ \/ gen < MaxGen /\ gen' = gen + 1
             \/ gen' = gen /\ est' = est
      BY <2>5 DEF Start, runVars, Finish
    <3>3. Shape' /\ gen' >= gen
      <4>1. gen' \in Gens /\ gen' >= gen
        BY <3>2, BoundAssumption DEF Shape, Gens
      <4>2. withPub' \in BOOLEAN
        BY <3>2 DEF Has
      <4> QED BY <3>2, <4>1, <4>2 DEF Shape
    <3>4. Place' = "kcm"
      BY <2>2, <3>2 DEF Place, Has
    <3>5. Good("kcm")'
      BY <2>3, <3>2, <3>3 DEF Good, Shape, Gens
    <3>6. SafeAt("kcm")'
      BY <2>3, <3>2, <3>5 DEF SafeAt
    <3>7. ReadyInv'
      <4>1. est' => gen' = gen + 1
        BY <3>1, <3>2
      <4>2. est' => Renewing("kcm")'
        BY <2>4, <3>2, <4>1 DEF Renewing, Has, Shape, Gens
      <4> QED BY <2>2, <3>1, <3>2, <4>2 DEF ReadyInv, Has
    <3> QED BY <2>1, <3>2, <3>3, <3>4, <3>6, <3>7 DEF PcInv
  <2>6. CASE EstFails
    <3>1. /\ UNCHANGED <<disk, len, gen, withPub, pc, todo, failed, bad, queue>>
          /\ est' = FALSE /\ told' = told
      BY <2>6 DEF EstFails, storeVars, runVars, Finish
    <3>2. queue = <<>>
      BY <2>6 DEF EstFails, RequestInv, Quiet, Busy
    <3>3. ReadyInv'
      BY <2>2, <3>1, <3>2 DEF ReadyInv, Has
    <3> QED BY <2>1, <3>1, <3>3, PlaceKept DEF Shape, PcInv
  <2>7. CASE EstAnswers
    <3>1. PICK n \in ChainLens, ok \in BOOLEAN :
            /\ len' = [len EXCEPT ![gen] = [n |-> n, ok |-> ok]]
            /\ told' = told
      BY <2>7 DEF EstAnswers, Finish
    <3>2. UNCHANGED <<disk, gen, withPub, pc, todo, failed, bad>> /\ est /\ est' = FALSE
      BY <2>7 DEF EstAnswers, runVars
    <3>3. Renewing("kcm")
      BY <2>2, <3>2 DEF ReadyInv
    <3>4. Shape'
      <4>1. n \in {1, 2}
        BY DEF ShortChains
      <4>2. [n |-> n, ok |-> ok] \in [n : {1, 2}, ok : BOOLEAN]
        BY <4>1
      <4>3. len' \in [Gens -> [n : {1, 2}, ok : BOOLEAN]]
        BY <3>1, <4>2 DEF Shape
      <4> QED BY <3>1, <3>2, <4>3 DEF Shape
    <3>5. len'[disk[Priv("kcm")]] = len[disk[Priv("kcm")]]
      BY <2>4, <3>1, <3>3 DEF Renewing, Shape, Gens
    <3>6. Good("kcm")'
      BY <2>3, <3>2, <3>5 DEF Good
    <3>7. SafeAt("kcm")' /\ Place' = "kcm"
      BY <2>2, <2>3, <3>1, <3>2, <3>6 DEF SafeAt, Place, Has
    <3>8. ReadyInv'
      BY <2>2, <3>2, <3>3 DEF ReadyInv, Renewing, Has
    <3> QED BY <2>1, <3>2, <3>4, <3>7, <3>8 DEF PcInv
  <2>8. CASE Respond
    <3>1. /\ UNCHANGED <<disk, len, gen, withPub, est>> /\ bad' = FALSE /\ told' = told
          /\ failed' \in BOOLEAN /\ queue' = <<>> /\ ~est /\ queue = <<"est">>
      <4>1. Busy /\ queue = <<"est">> /\ ~est
        BY <2>8, <2>1 DEF Respond, RequestInv, Quiet, Busy
      <4>2. queue' = <<>>
        BY <2>8, <4>1 DEF Respond
      <4>3. UNCHANGED <<disk, len, gen, withPub, est>> /\ bad' = FALSE
        BY <2>8 DEF Respond, storeVars
      <4>4. told' = told
        BY <2>8 DEF Respond, Finish
      <4>5. failed' \in BOOLEAN
        BY <2>8 DEF Respond, Run, Shape
      <4> QED BY <4>1, <4>2, <4>3, <4>4, <4>5
    <3>2. Shape' /\ SafeAt(Place)'
      BY <3>1, PlaceKept DEF Shape
    <3>3. Renewing("kcm")
      BY <2>2, <3>1 DEF ReadyInv
    <3>4. CASE UNCHANGED <<pc, todo, failed>>
      <4>1. ReadyInv'
        BY <2>2, <3>1, <3>4 DEF ReadyInv, Has
      <4> QED BY <2>1, <3>2, <3>4, <4>1 DEF PcInv
    <3>5. CASE Run("backup", CopyItems("kcm", "ce", withPub))
      <4>1. PICK g, pub : g = disk[Priv("kcm")] /\ pub = withPub
        OBVIOUS
      <4>2. /\ g \in Gens /\ g # 0 /\ pub \in BOOLEAN /\ pub = (disk[Pub("kcm")] # 0)
            /\ disk[Pub("kcm")] \in {0, g} /\ (~pub => disk[Pub("ce")] = 0)
        <5>1. g \in Gens /\ g # 0 /\ disk[Pub("kcm")] \in {0, g}
          BY <2>3, <2>4, <4>1 DEF Good, Gens
        <5>2. pub \in BOOLEAN /\ pub = (disk[Pub("kcm")] # 0)
          BY <3>3, <4>1 DEF Renewing, Shape
        <5>3. disk[Pub("kcm")] = 0 => disk[Pub("ce")] = 0
          BY <2>3 DEF SafeAt
        <5>4. ~pub => disk[Pub("ce")] = 0
          BY <5>2, <5>3
        <5> QED BY <5>1, <5>2, <5>4
      <4>3. pc' = "backup" /\ failed' = FALSE /\ todo' = StoreItems("ce", pub, g, g, Issued(g))
        BY <2>3, <3>5, <4>1, <4>2, CopyForm DEF Run
      <4>4. /\ todo' \in Seq(Stores("ce"))
            /\ SetTarget("ce", g, IF pub THEN g ELSE 0)'
            /\ \A i \in DOMAIN todo' : todo'[i].at = Pub("ce") => pub
        BY <2>3, <3>1, <4>2, <4>3, StoreList
      <4>5. disk[Pub("kcm")] = IF pub THEN g ELSE 0
        BY <4>2
      <4>6. SetTarget("ce", disk[Priv("kcm")], disk[Pub("kcm")])'
        BY <3>1, <4>1, <4>4, <4>5
      <4>7. todo' \in Seq(Stores("ce") \cup Removes("ce"))
        BY <4>4
      <4>8. BackupInv'
        BY <2>2, <3>1, <3>3, <4>2, <4>3, <4>4, <4>6, <4>7 DEF BackupInv, Renewing, PubStored, Has
      <4> QED BY <3>2, <4>3, <4>8 DEF PcInv
    <3> QED BY <2>8, <3>4, <3>5 DEF Respond
  <2> QED BY <1>3, <2>5, <2>6, <2>7, <2>8
<1> QED BY <1>1, <1>2, <1>3

\* Losing power loses nothing of the storage, and ce_init finds what is there.
LEMMA PowerKeeps ==
  ASSUME RequestInv, Shape, SafeAt(Place), PcInv, PowerLoss \/ Abort \/ Boot
  PROVE  Shape' /\ SafeAt(Place)' /\ PcInv'
<1>1. CASE PowerLoss \/ Abort
  <2>1. /\ pc' = "off" /\ todo' = <<>> /\ failed' = FALSE /\ bad' = FALSE
        /\ UNCHANGED <<disk, len, gen, withPub, told>>
    BY <1>1 DEF PowerLoss, Abort, Forget, storeVars
  <2> QED BY <2>1, PlaceKept DEF Shape, PcInv, OffInv
<1>2. CASE Boot
  <2>1. /\ pc = "off" /\ todo' = <<>> /\ failed' = FALSE
        /\ UNCHANGED <<disk, len, gen, withPub, told, bad, current, queue, est>>
        /\ \/ Has(Status) /\ pc' = "restore"
           \/ ~Has(Status) /\ pc' = "ready"
    BY <1>2 DEF Boot, storeVars, Run
  <2>2. current = 0 /\ queue = <<>> /\ ~est
    BY <2>1 DEF RequestInv, Quiet, Busy
  <2>3. Shape' /\ SafeAt(Place)'
    BY <2>1, PlaceKept DEF Shape
  <2>4. pc' = "restore" => RestoreInv'
    BY <2>1, <2>2 DEF RestoreInv, Has
  <2>5. pc' = "ready" => ReadyInv'
    BY <2>1, <2>2 DEF ReadyInv, Has
  <2> QED BY <2>1, <2>3, <2>4, <2>5 DEF PcInv
<1> QED BY <1>1, <1>2

\* Every step keeps the invariant.
LEMMA StorageNext == ShortChains /\ StorageInv /\ [Next]_vars => StorageInv'
<1> SUFFICES ASSUME ShortChains, StorageInv, [Next]_vars PROVE StorageInv'
  OBVIOUS
<1>1. RequestInv /\ RequestInv'
  BY RequestNext DEF StorageInv
<1> SUFFICES ASSUME written' PROVE Shape' /\ SafeAt(Place)' /\ PcInv'
  BY <1>1 DEF StorageInv
<1>2. written
  BY DEF Next, Step, Start, EstFails, EstAnswers, Respond, OpSucceeds, OpFails, Advance, Return,
         Boot, Request, RequestFails, PowerLoss, Abort, Forget, vars
<1>3. Shape /\ SafeAt(Place) /\ PcInv
  BY <1>2 DEF StorageInv
<1>4. CASE UNCHANGED vars
  <2>1. UNCHANGED <<disk, len, gen, withPub, pc, todo, failed, bad, current, queue, est, told>>
    BY <1>4 DEF vars, storeVars, runVars, clientVars
  <2>2. Shape' /\ SafeAt(Place)'
    BY <1>3, <2>1, PlaceKept DEF Shape
  <2>3. PcInv'
    BY <1>3, <2>1 DEF PcInv, OffInv, ReadyInv, BackupInv, StatusInv, CleanInv, StoreInv, FreedInv,
         RestoreInv, WipeInv, CopyInv, UndoInv, UnmarkInv, DiscardInv, Renewing, PubStored, SetTarget,
         Target, Unrefused, Marked, Complete, Opens, IsChainLen, Has, SafeAt, Good
  <2> QED BY <2>2, <2>3
<1> QED BY <1>1, <1>3, <1>4, ClientKeeps, OpSucceedsKeeps, OpFailsKeeps, AdvanceKeeps, ReturnKeeps,
           PowerKeeps DEF Next, Step

\* At every instant, in every behaviour with chains of one or two
\* certificates, the storage holds one matching set of key pair and chain
\* where ce_check_and_restore_backup_status of the next start finds it.
THEOREM IdentitySafe == ASSUME ShortChains PROVE Spec => []Recoverable
<1>1. StorageInv => Recoverable
  <2> SUFFICES ASSUME StorageInv, written PROVE Recoverable
    BY DEF Recoverable
  <2>1. Shape /\ SafeAt(Place) /\ Place \in Prefixes
    BY DEF StorageInv, Place, Prefixes
  <2>2. disk[Priv(Place)] \in Gens /\ IsSet(Place, disk[Priv(Place)])
    BY <2>1, GoodIsSet DEF SafeAt
  <2>3. Place = IF Has(Status) /\ Has(Priv("ce")) /\ Opens("ce") THEN "ce" ELSE "kcm"
    BY DEF Place, Complete
  <2> QED BY <2>2, <2>3 DEF Recoverable
<1>2. Init => StorageInv
  BY StorageInit
<1>3. StorageInv /\ [Next]_vars => StorageInv'
  BY StorageNext
<1> QED BY <1>1, <1>2, <1>3, PTL DEF Spec

\* While no write of the storage has failed, a client that is ready has the
\* set that it last reported as installed, or a newer one.
THEOREM ReportsSafe == ASSUME ShortChains PROVE Spec => [](written => Settled)
<1>1. StorageInv => (written => Settled)
  <2> SUFFICES ASSUME StorageInv, written, pc = "ready" PROVE \E g \in Gens : g >= told /\ IsSet("kcm", g)
    BY DEF Settled
  <2>1. Shape /\ SafeAt(Place) /\ ReadyInv
    BY DEF StorageInv, PcInv
  <2>2. Place = "kcm" /\ "kcm" \in Prefixes
    BY <2>1 DEF ReadyInv, Place, Prefixes
  <2>3. disk[Priv("kcm")] \in Gens /\ IsSet("kcm", disk[Priv("kcm")]) /\ disk[Priv("kcm")] >= told
    BY <2>1, <2>2, GoodIsSet DEF SafeAt
  <2> QED BY <2>3
<1>2. Init => StorageInv
  BY StorageInit
<1>3. StorageInv /\ [Next]_vars => StorageInv'
  BY StorageNext
<1> QED BY <1>1, <1>2, <1>3, PTL DEF Spec

=============================================================================
