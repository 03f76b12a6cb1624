---------------------------- MODULE CertRenewal ----------------------------
(***************************************************************************)
(* The certificate enrollment client: a request of the device or of the    *)
(* server to renew a certificate, the answer of the EST service, and the   *)
(* safe replacement of key pair and certificate chain in the storage with  *)
(* backup, status file and restore at the next start.                      *)
(*                                                                         *)
(* The storage is the key-value store with one entry per certificate of a  *)
(* chain (storage_pal_sst.c).  One store or remove is one step, which the  *)
(* store makes atomic (KVStore); power may be lost between any two.        *)
(***************************************************************************)
EXTENDS Integers, Sequences, FiniteSets

CONSTANTS MaxChain,   \* KCM_MAX_NUMBER_OF_CERTITICATES_IN_CHAIN
          ChainLens,  \* lengths of the chains that the EST service issues
          MaxGen,     \* bound: key pairs generated, the first one included
          MaxReq,     \* bound: names for requests that wait for an answer
          Budgets     \* the numbers of power losses, failing writes, chains that
                      \* do not verify and events without memory to consider

ASSUME ChainAssumption == /\ MaxChain \in Nat \ {0}
                          /\ ChainLens \subseteq 1 .. MaxChain
ASSUME BoundAssumption == MaxGen \in Nat \ {0} /\ MaxReq \in Nat \ {0}
ASSUME BudgetAssumption == Budgets \subseteq [crash : Nat, write : Nat, chain : Nat, event : Nat]

VARIABLES disk,     \* entry of the storage -> generation of its key pair, 0 for none
          len,      \* length of the chain of a generation, and whether it verifies
          gen,      \* the newest key pair: key_handle of the renewal
          withPub,  \* renewal_items_names has the name of a public key
          pc,       \* the function of ce_safe_renewal or ce_init that runs
          todo,     \* the storage operations it has left
          failed,   \* one of them has failed
          bad,      \* ce_status is an error
          sem,      \* g_renewal_sem
          current,  \* current_cert: the request, 0 for NULL
          queue,    \* events of the enrollment client in the event loop
          est,      \* the EST client has a request
          open,     \* history: the requests that have got no answer
          told,     \* history: the generation last reported as installed
          written,  \* history: no write of the storage has failed
          budget    \* faults left

storeVars == <<disk, len, gen, withPub>>
runVars == <<pc, todo, failed, bad>>
clientVars == <<sem, current, queue, est, open, told>>
vars == <<storeVars, runVars, clientVars, written, budget>>

-----------------------------------------------------------------------------
(* The entries of the storage *)

Prefixes == {"kcm", "ce"}   \* STORAGE_ITEM_PREFIX_KCM, STORAGE_ITEM_PREFIX_CE
Status == <<"ce", "status", 0>>
Priv(p) == <<p, "priv", 0>>
Pub(p) == <<p, "pub", 0>>
Mid(p, i) == <<p, "mid", i>>   \* Crta__, Crtb__, ...
End(p, i) == <<p, "end", i>>   \* Crtae_ for a single certificate, Crtbe_, ...
Entries == {Status} \cup {Priv(p) : p \in Prefixes} \cup {Pub(p) : p \in Prefixes}
           \cup {Mid(p, i) : p \in Prefixes, i \in 1 .. MaxChain}
           \cup {End(p, i) : p \in Prefixes, i \in 1 .. MaxChain}

Gens == 1 .. MaxGen
Foreign == MaxGen + 1   \* a certificate that did not sign the one before it
Has(e) == disk[e] # 0

(***************************************************************************)
(* storage_set_certs_and_chain_size: certificates are looked up as middle  *)
(* ones first, and the first index that has none must be the last one.     *)
(***************************************************************************)
IsChainLen(p, n) == /\ n \in 1 .. MaxChain
                    /\ \A i \in 1 .. n - 1 : Has(Mid(p, i))
                    /\ ~Has(Mid(p, n)) /\ Has(End(p, n))
Opens(p) == \E n \in 1 .. MaxChain : IsChainLen(p, n)
ChainOf(p) == LET n == CHOOSE n \in 1 .. MaxChain : IsChainLen(p, n)
              IN [i \in 1 .. n |-> IF i = n THEN disk[End(p, i)] ELSE disk[Mid(p, i)]]

(***************************************************************************)
(* The chain that the EST service has issued for a generation.             *)
(***************************************************************************)
Issued(g) == [i \in 1 .. len[g].n |-> IF i = len[g].n /\ i > 1 /\ ~len[g].ok THEN Foreign ELSE g]

-----------------------------------------------------------------------------
(* Storage operations *)

Op(kind, at, val) == [kind |-> kind, at |-> at, val |-> val]
Remove(e) == Op("remove", e, 0)

(***************************************************************************)
(* storage_ce_clean_item for a certificate: storage_item_delete takes the  *)
(* first certificate of a chain for the item and is content with it, so    *)
(* that storage_cert_chain_delete is never called.                         *)
(***************************************************************************)
CertHead(p) == IF Has(End(p, 1)) THEN End(p, 1) ELSE Mid(p, 1)
CleanChain(p) == <<Remove(CertHead(p))>>
CleanItems(p, pub) ==
  <<Remove(Priv(p))>> \o (IF pub THEN <<Remove(Pub(p))>> ELSE <<>>) \o CleanChain(p)

(***************************************************************************)
(* Storing one certificate with storage_item_store, several with           *)
(* storage_cert_chain_create and storage_cert_chain_add_next.              *)
(***************************************************************************)
StoreChain(p, chain) ==
  IF Len(chain) = 1
  THEN <<Op("store", End(p, 1), chain[1])>>
  ELSE [i \in 1 .. Len(chain) |-> Op(IF i = 1 THEN "create" ELSE "add",
                                     IF i = Len(chain) THEN End(p, i) ELSE Mid(p, i), chain[i])]
StoreItems(p, pub, priv, public, chain) ==
  <<Op("store", Priv(p), priv)>> \o (IF pub THEN <<Op("store", Pub(p), public)>> ELSE <<>>)
  \o StoreChain(p, chain)

(***************************************************************************)
(* storage_ce_item_copy; 0 stands for a source that is not found.          *)
(***************************************************************************)
CopyItems(from, to, pub) ==
  StoreItems(to, pub, disk[Priv(from)], disk[Pub(from)], IF Opens(from) THEN ChainOf(from) ELSE <<0>>)

(***************************************************************************)
(* Why an operation is refused: a source is missing, the item exists, or   *)
(* the certificate before it does not verify.                              *)
(***************************************************************************)
Exists(o) == \/ o.kind = "store" /\ Has(o.at)
             \/ o.kind \in {"store", "create"} /\ o.at[2] \in {"mid", "end"}
                /\ (Has(Mid(o.at[1], 1)) \/ Has(End(o.at[1], 1)))
Refused(o) == /\ o.kind # "remove"
              /\ \/ o.val = 0 \/ Exists(o)
                 \/ o.kind = "add" /\ disk[Mid(o.at[1], o.at[3] - 1)] # o.val

(***************************************************************************)
(* storage_chain_delete at the close of an incomplete chain.               *)
(***************************************************************************)
RemoveAdded(p, n) == [i \in 1 .. n |-> Remove(Mid(p, n + 1 - i))]
InChain(o) == o.kind = "add" \/ (o.kind = "create" /\ ~Exists(o))

Fault(f) == /\ budget[f] > 0
            /\ budget' = [budget EXCEPT ![f] = @ - 1]

Init == /\ withPub \in BOOLEAN
        /\ \E n \in ChainLens :
             /\ len = [g \in Gens |-> [n |-> n, ok |-> TRUE]]
             /\ disk = [e \in Entries |->
                          IF \/ e \in {Priv("kcm"), End("kcm", n)}
                             \/ e = Pub("kcm") /\ withPub
                             \/ \E i \in 1 .. n - 1 : e = Mid("kcm", i)
                          THEN 1 ELSE 0]
        /\ gen = 1
        /\ pc = "ready" /\ todo = <<>> /\ failed = FALSE /\ bad = FALSE
        /\ sem = 1 /\ current = 0 /\ queue = <<>> /\ est = FALSE
        /\ open = {} /\ told = 1
        /\ written = TRUE
        /\ budget \in Budgets

-----------------------------------------------------------------------------
(* The client: CertificateEnrollmentClient.cpp *)

(***************************************************************************)
(* certificate_renewal_finish: the semaphore is free before the answer.    *)
(***************************************************************************)
Finish(id, ok) == /\ current' = 0
                  /\ sem' = sem + 1
                  /\ open' = open \ {id}
                  /\ told' = IF ok THEN gen ELSE told

NewRequest == CHOOSE id \in 1 .. MaxReq : id \notin open

(***************************************************************************)
(* certificate_renew, called by any thread of the application, and         *)
(* certificate_renewal_post, called for a POST of the server.  Without the *)
(* semaphore the caller is told that the device is busy.                   *)
(***************************************************************************)
Request == /\ pc # "off" /\ sem > 0 /\ open # 1 .. MaxReq
           /\ sem' = sem - 1
           /\ current' = NewRequest
           /\ open' = open \cup {NewRequest}
           /\ queue' = Append(queue, "request")
           /\ UNCHANGED <<storeVars, runVars, est, told, written, budget>>

(***************************************************************************)
(* The event cannot be allocated: the server is answered by                *)
(* certificate_renewal_finish; the device gets the error as the result of  *)
(* the call, the semaphore is free and current_cert stays as it is.        *)
(***************************************************************************)
RequestFails(initiator) == /\ pc # "off" /\ sem > 0 /\ open # 1 .. MaxReq
                           /\ Fault("event")
                           /\ current' = IF initiator = "server" THEN 0 ELSE NewRequest
                           /\ UNCHANGED <<storeVars, runVars, sem, queue, est, open, told, written>>

(***************************************************************************)
(* certificate_renewal_start: the names of the items, new keys and a CSR   *)
(* from the certificate, and the request to the EST service.               *)
(***************************************************************************)
Start == /\ pc = "ready" /\ queue # <<>> /\ Head(queue) = "request"
         /\ queue' = Tail(queue)
         /\ withPub' = Has(Pub("kcm"))
         /\ \/ /\ Has(Priv("kcm")) /\ Has(CertHead("kcm")) /\ gen < MaxGen
               /\ gen' = gen + 1
               /\ est' = TRUE
               /\ UNCHANGED <<sem, current, open, told>>
            \/ /\ Finish(current, FALSE)   \* parsing, keys, CSR or EST request
               /\ UNCHANGED <<gen, est>>
         /\ UNCHANGED <<disk, len, runVars, written, budget>>

(***************************************************************************)
(* est_cb: a failure ends the renewal, a chain is kept for the event.      *)
(***************************************************************************)
EstFails == /\ est /\ pc # "off"
            /\ est' = FALSE
            /\ Finish(current, FALSE)
            /\ UNCHANGED <<storeVars, runVars, queue, written, budget>>

(***************************************************************************)
(* As if est_cb freed the chain and did not finish.                        *)
(***************************************************************************)
EstAnswersDropped == /\ est /\ pc # "off"
                     /\ est' = FALSE
                     /\ \E n \in ChainLens : len' = [len EXCEPT ![gen] = [n |-> n, ok |-> TRUE]]
                     /\ \/ queue' = Append(queue, "est") /\ UNCHANGED budget
                        \/ Fault("event") /\ UNCHANGED queue
                     /\ UNCHANGED <<disk, gen, withPub, runVars, sem, current, open, told, written>>

EstAnswers == /\ est /\ pc # "off"
              /\ est' = FALSE
              /\ \E n \in ChainLens, ok \in BOOLEAN :
                   /\ ok \/ budget["chain"] > 0
                   /\ len' = [len EXCEPT ![gen] = [n |-> n, ok |-> ok]]
                   /\ \/ /\ queue' = Append(queue, "est")
                         /\ budget' = IF ok THEN budget ELSE [budget EXCEPT !["chain"] = @ - 1]
                         /\ UNCHANGED <<sem, current, open, told>>
                      \/ /\ Fault("event") /\ Finish(current, FALSE)
                         /\ UNCHANGED queue
              /\ UNCHANGED <<disk, gen, withPub, runVars, written>>

-----------------------------------------------------------------------------
(* ce_safe_renewal and ce_restore_backup_items *)

Run(function, ops) == /\ pc' = function /\ todo' = ops /\ failed' = FALSE

(***************************************************************************)
(* est_response_process and the test that key and certificate belong       *)
(* together, which ends the renewal before anything is stored.             *)
(***************************************************************************)
Respond == /\ pc = "ready" /\ queue # <<>> /\ Head(queue) = "est"
           /\ queue' = Tail(queue)
           /\ bad' = FALSE
           /\ \/ /\ Run("backup", CopyItems("kcm", "ce", withPub))
                 /\ UNCHANGED <<sem, current, open, told>>
              \/ /\ Finish(current, FALSE)
                 /\ UNCHANGED <<pc, todo, failed>>
           /\ UNCHANGED <<storeVars, est, written, budget>>

OpSucceeds == /\ todo # <<>> /\ ~Refused(Head(todo))
              /\ disk' = [disk EXCEPT ![Head(todo).at] = Head(todo).val]
              /\ todo' = Tail(todo)
              /\ UNCHANGED <<len, gen, withPub, pc, failed, bad, clientVars, written, budget>>

(***************************************************************************)
(* As if an item that cannot be stored were tried again.                   *)
(***************************************************************************)
OpFailsRetried == /\ todo # <<>> /\ Refused(Head(todo))
                  /\ failed' = TRUE
                  /\ UNCHANGED <<storeVars, pc, todo, bad, clientVars, written, budget>>

(***************************************************************************)
(* A failing remove is counted and the next item is tried.  A failing      *)
(* store ends the function, after the certificates of a chain that have    *)
(* been added are removed.  In ce_store_new_certificate the error of the   *)
(* close jumps back to the close, of a chain that has been freed.          *)
(***************************************************************************)
OpFails == /\ todo # <<>>
           /\ LET o == Head(todo)
              IN /\ IF Refused(o) THEN UNCHANGED <<written, budget>>
                    ELSE (o.kind # "remove" \/ Has(o.at)) /\ Fault("write") /\ written' = FALSE
                 /\ todo' = CASE o.kind = "remove" -> Tail(todo)
                              [] InChain(o) -> RemoveAdded(o.at[1], o.at[3])
                              [] OTHER -> <<>>
                 /\ pc' = IF pc = "store" /\ InChain(o) THEN "freed" ELSE pc
           /\ failed' = TRUE
           /\ UNCHANGED <<storeVars, bad, clientVars>>

(***************************************************************************)
(* What follows when a function has no operation left.                     *)
(***************************************************************************)
Done(function) == pc = function /\ todo = <<>>

StatusOps == (IF Has(Status) THEN <<Remove(Status)>> ELSE <<>>) \o <<Op("store", Status, 1)>>

(***************************************************************************)
(* As if the original items were cleaned before the status file is made.   *)
(***************************************************************************)
BackupDoneUnmarked == /\ Done("backup")
                      /\ bad' = failed
                      /\ IF failed THEN Run("undo", CleanItems("ce", withPub))
                         ELSE Run("clean", CleanItems("kcm", withPub))

BackupDone == /\ Done("backup")
              /\ bad' = failed
              /\ IF failed THEN Run("undo", CleanItems("ce", withPub)) ELSE Run("status", StatusOps)
StatusDone == /\ Done("status")
              /\ bad' = failed
              /\ IF failed THEN Run("unmark", <<Remove(Status)>>)
                 ELSE Run("clean", CleanItems("kcm", withPub))
CleanDone == /\ Done("clean")
             /\ bad' = failed
             /\ IF failed THEN Run("restore", <<>>)
                ELSE Run("store", StoreItems("kcm", withPub, gen, gen, Issued(gen)))
(***************************************************************************)
(* As if a failing store did not restore the backup.                       *)
(***************************************************************************)
StoreDoneUnrestored == /\ Done("store")
                       /\ bad' = failed
                       /\ Run("unmark", <<Remove(Status)>>)

StoreDone == /\ Done("store")
             /\ bad' = failed
             /\ IF failed THEN Run("restore", <<>>) ELSE Run("unmark", <<Remove(Status)>>)

(***************************************************************************)
(* check_items_existence of the backup: without private key or chain it is *)
(* removed and the original items stay.                                    *)
(***************************************************************************)
Restore == /\ Done("restore")
           /\ IF Has(Priv("ce")) /\ Opens("ce")
              THEN Run("wipe", CleanItems("kcm", Has(Pub("ce"))))
              ELSE Run("undo", CleanItems("ce", TRUE))
           /\ UNCHANGED bad
WipeDone == /\ Done("wipe")
            /\ Run("copy", CopyItems("ce", "kcm", Has(Pub("ce"))))
            /\ UNCHANGED bad
CopyDone == /\ Done("copy")
            /\ IF failed THEN Run("unmark", <<Remove(Status)>>)
               ELSE Run("undo", CleanItems("ce", Has(Pub("ce"))))
            /\ UNCHANGED bad
UndoDone == /\ Done("undo")
            /\ Run("unmark", <<Remove(Status)>>)
            /\ UNCHANGED bad

(***************************************************************************)
(* Without a request in hand it is ce_check_and_restore_backup_status that *)
(* has come to its end, and init makes the semaphore.                      *)
(***************************************************************************)
UnmarkDone == /\ Done("unmark")
              /\ IF current = 0
                 THEN Run("ready", <<>>) /\ sem' = 1
                 ELSE Run("discard", CleanItems("ce", withPub)) /\ UNCHANGED sem
              /\ UNCHANGED bad
DiscardDone == /\ Done("discard")
               /\ Run("ready", <<>>)
               /\ Finish(current, ~bad)
               /\ UNCHANGED bad

Advance == /\ \/ BackupDone \/ StatusDone \/ CleanDone \/ StoreDone
              \/ Restore \/ WipeDone \/ CopyDone \/ UndoDone
           /\ UNCHANGED <<storeVars, clientVars, written, budget>>
Return == /\ \/ UnmarkDone /\ UNCHANGED <<current, open, told>>
             \/ DiscardDone
          /\ UNCHANGED <<storeVars, queue, est, written, budget>>

-----------------------------------------------------------------------------
(* Power *)

(***************************************************************************)
(* The RAM is gone, and with it the requests under way.                    *)
(***************************************************************************)
Forget == /\ pc' = "off" /\ todo' = <<>> /\ failed' = FALSE /\ bad' = FALSE
          /\ sem' = 0 /\ current' = 0 /\ queue' = <<>> /\ est' = FALSE /\ open' = {}
          /\ UNCHANGED <<storeVars, told, written>>

PowerLoss == pc # "off" /\ Fault("crash") /\ Forget

(***************************************************************************)
(* The second close reads a chain that has been freed and frees it again:  *)
(* the heap stops the device, or the two lines repeat without end.         *)
(***************************************************************************)
Abort == Done("freed") /\ Forget /\ UNCHANGED budget

(***************************************************************************)
(* ce_init: ce_check_and_restore_backup_status.                            *)
(***************************************************************************)
Boot == /\ pc = "off"
        /\ IF Has(Status) THEN Run("restore", <<>>) /\ UNCHANGED sem
           ELSE Run("ready", <<>>) /\ sem' = 1
        /\ UNCHANGED <<storeVars, bad, current, queue, est, open, told, written, budget>>

Step == \/ Start \/ EstFails \/ EstAnswers \/ Respond
        \/ OpSucceeds \/ OpFails \/ Advance \/ Return \/ Boot

Next == \/ Step
        \/ Request
        \/ \E initiator \in {"server", "device"} : RequestFails(initiator)
        \/ PowerLoss \/ Abort

(***************************************************************************)
(* The event loop runs on, and the CoAP client calls one of the callbacks  *)
(* of a request in the end.                                                *)
(***************************************************************************)
Spec == Init /\ [][Next]_vars /\ WF_vars(Step)

-----------------------------------------------------------------------------
(* Properties *)

(***************************************************************************)
(* Private key, public key and the whole chain are of one generation.      *)
(***************************************************************************)
IsSet(p, g) == /\ disk[Priv(p)] = g
               /\ disk[Pub(p)] \in {0, g}
               /\ Opens(p) /\ ChainOf(p) = Issued(g)

(***************************************************************************)
(* At every instant the storage holds one complete and matching set of     *)
(* key pair and certificate chain where the next start looks for it: in    *)
(* the backup if the status file is there and the backup complete, in the  *)
(* original items otherwise.  A power loss at any step of                  *)
(* ce_safe_renewal, or of the restore itself, never leaves the device      *)
(* without an identity, as long as the storage itself does not fail.       *)
(***************************************************************************)
Recoverable ==
  written => \E g \in Gens : IsSet(IF Has(Status) /\ Has(Priv("ce")) /\ Opens("ce") THEN "ce" ELSE "kcm", g)

(***************************************************************************)
(* When no renewal is at work on the storage the original items match, and *)
(* they are those last reported as installed or a newer set: what          *)
(* certificate_renewal_finish has reported as done is there for good, also *)
(* across later renewals that fail and restore.                            *)
(***************************************************************************)
Settled == pc = "ready" => \E g \in Gens : g >= told /\ IsSet("kcm", g)

(***************************************************************************)
(* An event or an EST answer always finds its own request in current_cert, *)
(* and there is only one: every request that waits for an answer is at     *)
(* exactly one stage, and the semaphore is taken meanwhile and given back  *)
(* once, whatever events could not be allocated.                           *)
(***************************************************************************)
Stages == Len(queue) + (IF est THEN 1 ELSE 0)
          + (IF pc \notin {"off", "ready"} /\ current # 0 /\ open # {} THEN 1 ELSE 0)
OneRenewal == /\ sem \in {0, 1}
              /\ Stages = Cardinality(open)
              /\ Stages > 0 => sem = 0 /\ open = {current}

(***************************************************************************)
(* The device does not stay busy: the semaphore is given back after every  *)
(* renewal and after every start, unless a chain was closed twice.         *)
(***************************************************************************)
NotBusyForever == sem = 0 ~> (sem = 1 \/ pc = "freed")

=============================================================================
