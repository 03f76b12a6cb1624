# Verification of the Pelion client

This directory holds TLA+ models of the Pelion device client, the TLC
configurations that check them on small instances, and TLAPS proofs of their
central properties. Source paths below are relative to `src/mbed-cloud-client/`
unless they start with `src/`.

The models cover five parts of the client that have much to lose when a step is
cut, delayed or repeated:

* the **firmware-update engine** (`fota/`), which runs across resets, writes flash
  and NVM in several steps and is driven by callbacks of four other parties;
* the **key-value store** (`kvstore/tdbstore/`), in which everything persistent lies;
* the **certificate renewal** (`certificate-enrollment-client/` and the storage of
  the factory configurator), which replaces the identity of the device;
* the **message layer** (`mbed-coap/`), which retransmits, recognises duplicates and
  reassembles block-wise requests;
* the **notifications** (`mbed-client/`), which carry resource values to the service
  across registrations and lost connections.

## 1. Inventory

### The system's parts

| Part | State | Operations | Talks to |
|---|---|---|---|
| FOTA engine, `fota/fota.c` | `fota_ctx`: state, manifest data, offsets, hash, resume state; absent when no update is active | manifest, download and install authorization, fragments, resume, abort, post-install | all of the below |
| Event handler, `fota/fota_event_handler.c` | one slot: callback and argument | defer, defer unless busy, dispatch | event loop |
| Source, `fota/fota_source_profile_*.c*` | state and result resources, one pair of delivery callbacks | manifest execution, report, delivery status, fragment request | mbed-client, engine |
| Application interface, `fota/fota_app_ifs.c` | none | authorize, reject, defer, resume | event handler |
| Candidate, `fota/fota_candidate.c` | candidate-ready header, firmware header, blocks | validate and iterate, erase | block device |
| Component table, `fota/fota_component.c` | names, versions | add, compare, print, parse | engine |
| NVM, `fota/fota_nvm.c` | manifest, key, component versions | set, get, delete | key-value store |
| CoAP download, `fota/fota_fw_download_coap.c` | none | forwards requests | source |
| ServiceClient, ConnectorClient, MbedCloudClient, `source/` | registration state machines | register, update, reconnect; resumes the update on every registration | mbed-client, engine |
| mbed-client, `mbed-client/source/` | objects, report handlers, the notification slot, response list, registration state | set value, observe, notify, register, update, reconnect | mbed-coap, event loop |
| mbed-coap, `mbed-coap/source/sn_coap_protocol.c` | retransmission list, duplicate list, copies of requests, received payloads | build, parse, exec, clear | sockets, mbed-client |
| Event loop, `sal-stack-nanostack-eventloop/` | prioritised event queue, timers | send, dispatch | everything |
| Key-value store, `kvstore/` | TDBStore: two flash areas, log records, RAM table | set, get, remove, garbage collection | block device |
| Certificate enrollment, `certificate-enrollment-client/` | current request, semaphore, status file, backup items | renew, EST answer, safe renewal, restore | EST client, storage |
| Factory configurator storage, `factory-configurator-client/storage/` | keys and certificate chains, one entry per certificate | store, copy, delete, open a chain | key-value store |
| Factory configurator, device sentry, network manager, secure device access, update-client-hub (legacy) | own state machines | | |

`PROJECT.json` lists every part with its files and says why a part is left out.

### How they interact

All handlers run on the event-loop thread, one at a time and to completion. The
service executes the manifest resource, acknowledges notifications and answers
fragment requests. The engine reports a state through a notification and goes on
in the callback of its delivery. The application is asked in that callback and
answers through the event slot. Every registration and every registration update
issues `fota_app_resume`. A reset may come at any instruction; the bootloader then
installs a candidate that is marked ready for the main component.

The NVM items of the engine and the entries of the certificate storage lie in
key-value stores. A notification is built by mbed-client, kept for retransmission
by mbed-coap and answered by an empty acknowledgement or a reset, which mbed-client
finds by its message identifier. A failed transmission is reported as a
registration error, and the client reconnects. A renewal is asked for by the
service or by a thread of the application; its stages are events of the event loop.

### What is hard

* a power loss between any two persistent writes, with torn blocks and headers;
* a resume that meets what an earlier update has left in the storage;
* callbacks of a report, answers, fragments and errors that arrive after the update
  they belong to was aborted, or while a second one runs;
* one callback pair shared by two resources, one event slot shared by all events;
* notifications that fail, are requeued or dropped by a registration;
* steps that fail half-way: installer, NVM, storage, application;
* pages, fragments and version fields at their boundaries;
* that an update always comes to an end;
* a log that is never erased as a whole, a switch of areas, a version that wraps;
* a dozen deletions and stores that replace an identity, with a backup that is
  itself copied entry by entry;
* acknowledgements that come late, twice or for another message; lists at their
  limits; blocks that arrive again;
* six flags per resource and one slot for all that decide whether a value is sent,
  reset by answers, observations and registrations in any order.

`PROJECT.json` has each of them as a hazard at its line with the properties that
watch it.

### What makes each part correct

* Engine: only authentic images for the right component run; nothing goes back to
  a version older than the registered one; success is reported only of what runs; the download
  position and the storage agree; every update concludes; no assertion stops the
  device.
* Event handler: a slot is free when it is needed.
* Source: no callback outlives its update, none is overwritten.
* Candidate: a complete header names the component of the image behind it.
* Component table: the registered version is never above what runs; printing and
  parsing it lose nothing (they lose the numbers 10 and 100, section 3).
* Key-value store: it is a map that a call changes at once or not at all, across
  power losses and failing programs of a record; results are true; only erased flash
  is programmed. The code achieves it only where a garbage collection finds room for
  one record more than there are keys and does not fail.
* Certificate renewal: at every instant there is one complete, matching set of key
  pair and chain where the next start looks for it; what was reported as installed
  is installed; every request is answered once.
* mbed-coap: a message is acknowledged, reset, or reported as failed, and nothing
  happens to it afterwards; the application sees a request once; an upload whole.
* Notifications: both sides agree on what is observed; the latest value is never
  forgotten and reaches the service; the slot is given back.

## 2. Modules

| Module | Contents |
|---|---|
| `Fota` | engine, event slot, source, NVM, candidate storage, component versions; properties and fairness |
| `FotaInductive` | the inductive invariants of the engine: `IInv`, and for builds without resume support `RestartInv`, `VersionInv`, `RecordInv` |
| `MCFota` | instances for TLC |
| `FotaProofs` | proofs of the control and storage properties |
| `FotaImageProofs` | proofs about images, downloads, reports and versions |
| `FotaPages`, `FotaPagesProofs` | fragments to pages: alignment, page assembly, resume |
| `FotaSemver`, `FotaSemverProofs` | versions: packed, printed, parsed, compared |
| `KVStore` | what a key-value store promises: an abstract map |
| `TDBStore`, `MCTDBStore` | the log-structured store, which implements `KVStore` |
| `TDBStoreInductive`, `TDBStoreProofs` | the inductive invariant of the store, and the proofs from it |
| `CertRenewal`, `MCCertRenewal`, `CertRenewalProofs` | certificate enrollment client and certificate storage |
| `Coap`, `MCCoap`, `CoapProofs` | message layer with network and server |
| `Notify`, `MCNotify`, `NotifyProofs` | report handlers, notification slot, registration, service |

`TDBStore` justifies what `Fota` and `CertRenewal` assume of one write of an item.
`Notify` assumes of a confirmable message what `Coap` checks: it is acknowledged,
reset, reported as failed, or dropped by a clearing of the queue. Definitions marked
as mutants, or "as if", are the plausible mistakes each property is tried against.

### `Fota`

**State.** `nvManifest`, `nvKey` are the NVM items. `cand`, `footer` are the
candidate-ready header (name and footer magic), `hdr` the firmware header (the
manifest it was made from), `slot` the block slots: `Blank`, `Torn`, or a pair
`<<m, i>>`, block `i` of manifest `m`. `image` is what each component runs,
`nvVersion` the version recorded for it in the NVM and `version` that of the component
table, which a start fills anew (`FotaInit`): from the NVM, and for the main component
from the boot header by way of its printed form. `Reprinted` is what that conversion
makes of a version; `FotaSemver` is about which numbers it loses. The history
`unrecorded` has the components whose last `fota_install_verify` failed to record a
version. `state`, `resume`, `man`, `off`, `addr`,
`hashOk` are the fields of `fota_ctx` (`state = "none"`: it is NULL); `off` and
`addr` count blocks, `hashOk` says whether the running hash is that of the blocks
the manifest wants. `src` has the two resources, the value in flight and the
queued ones; `callback` the success callback of the latest report. `event` is the
event slot, `asked` the question the application has not answered, `reqs` the
outstanding fragment request.

**Steps.** A handler that writes persistent storage at most once is one action. A
handler that writes more often is a chain of actions along `pc`; while `pc` is not
`"idle"` only the same handler goes on, or power is lost. So
`fota_on_download_authorize` is `Dispatch` (key), then `InsufficientStorage`,
`NoResume`, `ResumeReady` or `ResumeBlocks`, then `Erase` and `ProgramHeader`;
`install_component` is `Delivered` (manifest deleted), `Iterate`, `Installed`,
`InstallVerify`, `InstallFinish`; `abort_update` is `BeginAbort` in the handler
that fails and `AbortKey`. A block and the candidate-ready header are first torn,
then complete. The header of the image and an erase are atomic: both headers lie
in the first erased sector and are read before anything else, and the resume
analysis treats a partly written firmware header as no header.

**Halts.** `FOTA_ASSERT` ends in `FOTA_HALT`, an endless loop: `halt` names the
assertion, and only `PowerCycle` or a power loss follows.

**Faults.** `Faults` selects what the environment may do, `MaxFaults` bounds how
often: `crash`, `nvm` (the manifest is not persisted), `storage` (a block device
call fails), `installer`, `app` (the application refuses a callback), `defer`,
`notify` (a notification is given up), `fragment` (a request fails), `network`,
`update` (a registration update while an update is active), `verify` (the post-install
callback objects to an image that runs), `version` (`fota_nvm_comp_version_set` fails,
which nobody notices). `reregister` enables full registrations, which are not counted.

**Abstractions.** A digest identifies an image: blocks of different manifests
differ, and a block decrypts only under its key (`Rekeyed` makes the old ones
`Torn`). One fragment carries one block; `FotaPages` is about the rest. The
post-install callback, where a component has one, compares the version that runs,
and may object without a reason (`InstallRefused`). As in the code, the end of
`install_component` reports success whatever `fota_install_verify` returned.

### `FotaPages`

One download of `size` bytes; a byte is its index. A request asks for `MaxFrag`
bytes at an aligned offset, the callback strips the surplus, pages of `PageSize`
bytes are assembled or programmed directly, a reset loses the page buffer. In a
build with tagged pages (encryption or resume support) the download resumes behind
the last stored page; without tags it starts again.

### `FotaSemver`

The version of the boot header is printed, parsed and registered at boot, and a
manifest is compared with the result. A printed number is its digits. The widths
of the packed fields are one parameter, 2^10 in the run instead of 2^24 and 2^16:
all that matters is that it is larger than 999.

### `KVStore` and `TDBStore`

**State.** Per area `log` (the units of flash behind the master record), `master`
(its version) and `reserve` (the reserved data); in RAM `active`, `version`, `free`,
the RAM `table`, and `open`, the magic of the incremental set handle. The scan of a
start begins with the master record (`TDBStore.cpp:938`), so the table it builds has an
entry for that too: at offset 0, sorted among the keys by its hash (`MasterKey`). A
garbage collection copies it into the log like any other record. `kv` and
`reserved` are the effect of the calls so far, the state of `KVStore`.

**Steps.** A call is a chain of actions along `pc`, one per program or erase:
`set_start` (`StartAbandoned`, `StartRoom`, `StartErase`), `set_add_data`,
`set_finalize` (`HeaderTorn`, `Finalize`, `UpdateTable`, `ClearNext`),
`garbage_collection` (`GcErase` to `GcReset`), `reserved_data_set`, `reset`, and
`init`. `GcOverrun` is a copy that does not fit: nothing checks it, and it goes on into
the next area, or off the end of the device (`GcStuck`). `GcFails` and `ResetFails` are
erases and programs that fail in a collection, a master record or a reset, and
`GcError` is what each caller makes of that: an assertion in `init`, an error in
`set_start`, nothing elsewhere. A program is first torn, then complete. A call takes
effect where its
record is complete and was read back, where the trailer of the reserved data is
written, or where the area in use is erased. `ImplementsKVStore` shows that this is
one atomic step of `KVStore` that the interface permits, and that the result says
whether it happened.

**What is presupposed.** An overrun and a failing collection lose items (section 3), so
the guarantees are stated for layouts that are `Assured`: an area that may be scanned
again has room for a record of every key and one more (`Roomy`), and erases and programs
of collections, master records and resets do not fail. Failing programs of a record and
of reserved data are within the guarantees.

**Abstractions.** A key is its hash, the hashes differ; a record has one unit or
more of header and of body (`geo`), and is valid if all its units are its own. An
erase is atomic. `init` ends in `assert(os_ret)` after a garbage collection, with
`os_ret` zero when all went well (`TDBStore.cpp:1150`): `InitAbort` is the restart
that follows.

### `CertRenewal`

**State.** `disk` maps each entry (status file, private and public key, and the
certificates `Crta__`, `Crtbe_`, ... of originals and backup) to the generation of
the key pair it belongs to. `todo` is what the running function has left to store
or remove, `pc` the function. `sem`, `current`, `queue`, `est` are the client.

**Steps.** One store or remove is one step; `Refused` has the reasons for which the
storage refuses one. `BackupDone` to `DiscardDone` are the ends of the functions of
`ce_safe_renewal` and `ce_restore_backup_items` and say what follows. `Abort` is the
chain that is closed twice in `ce_store_new_certificate`.

### `Coap`

**State.** The lists of the handle as sequences (`resend`, `dups`) and sets
(`copies`), the upload being reassembled (`payload`), and the network: two sets of
messages, from which a message may be received late, twice, out of order or never.
The rest is history for the properties.

**Steps.** One action per outcome of `sn_coap_protocol_build`, per list in
`sn_coap_protocol_exec`, and per kind of message in `sn_coap_protocol_parse`, each
with the handler of `sn_nsdl.c`, `sn_grs.c` behind it and the answer it builds.
Time is abstract: an entry may be due at any execution, except that a duplicate
entry is forgotten only after its exchange (300 s against 247 s).

**Identifiers.** Each side numbers its own messages from a start of its own, and the one
duplicate list has both: what the client accepts as an answer is entered with the
client's identifier, what the server sends first with the server's. Where they collide a
new message is taken for a duplicate. A message that is given up is reported only if
`sn_coap_parser` finds memory (`sn_coap_protocol.c:888-896`); otherwise its end is
`"untold"`.

### `Notify`

**State.** `rep` is the report handler of each resource: the flags and the current
and last values; `ongoing` and `event` the notification slot and the event that
looks for the next one; `link` the connection, the registration under way and
whether the next one is full; `flight` the notifications not yet answered; `server`
what the service knows. `unkept` records that an answer was taken for that of
another notification, which the finding `notify_update` is about.

**Steps.** `SetValue`, `PminExpires`, `SendNext` run `schedule_report` and `report`
of one handler; `Acked`, `Reset`, `SendingFails` the fate of a notification;
`UpdateRegistration` to `Reconnect` the registration; `Observe`, `Unobserve`,
`WritePmin` the requests of the service.

## 3. Runs

Instances of `Fota` have two components (`main`, installed by the bootloader, and
`sub`, installed in place), three slots for images of one or two blocks, so that a
torn block can be skipped once and not twice, and a manifest that needs four.

| Run | Checks | Shows |
|---|---|---|
| `fota_crash` | `TypeOK`, `InstalledIsAuthentic`, `DownloadConsistent`, `WithinStorage`, `IInv` | encryption and resume; 3 faults out of power losses at every write, deferrals, registration updates; 450 000 states |
| `fota_faults` | `CallbackHasContext`, `RequestIsNext`, `QuestionFitsState`, `ReportSlotFree`, `OneUpdate` | every fault of the control flow but a crash, 3 of them, and full registrations; 345 000 states |
| `fota_restart` | `HeaderMatchesUpdate`, `ReadyNamesHeader`, `VersionRecorded`, `NoRollback`, `RemovalSettled`, `TruthfulSuccess` | restart instead of resume, no encryption, two successive updates, a patch, a forged manifest, a version that is printed wrong; every fault, 2 of them, verifications that object and versions that are not recorded included; 672 000 states |
| `fota_live` | `UpdateConcludes` | liveness with 2 faults, registration updates and the halt they may cause included; 150 000 states |
| `pages` | `StoredInOrder`, `DownloadCompletes` | payloads around every boundary of fragments (4) and pages (3), 2 resets, tagged and plain pages |
| `semver` | `LossOnlyAtTenAndHundred`, `AcceptedIsNewer` | 9 numbers around the digit boundaries in every field |
| `tdbstore` | `TypeOK`, `Durable`, `GetAgrees`, `ProgramsErased`, `ImplementsKVStore` | 2 keys, one of them write-once, 2 values (symmetric), the master record between them in the table; 2 faults out of power loss, failing program, abandoned set, on layouts with room; a full log and a failing collection, of which `TypeOK` and the effects up to there are explored; 1.25 million states |
| `renewal` | `Recoverable`, `Settled`, `OneRenewal`, `NotBusyForever` | chains of 1 and 2 certificates, 3 generations, 2 requests at once; 76 000 states |
| `coap` | `TypeOK`, `NoEarlyRedelivery`, `UploadWhole`, `AckIsFinal`, `EverySendEnds` | 7 identifiers, so that the client's wrap, and both sides begin at 1, so that they collide; lists of 1 and 2 entries; an upload of 4 blocks; 365 000 states |
| `notify` | `TypeOK`, `ObservationsAgree`, `NothingForgotten`, `SlotIsFreed`, `EventuallyNotified` | 2 resources, 2 changes of value and 1 fault, or one change, one fault and one write of pmin; a queue of 2 messages; 110 000 states |

Two faults already combine a fault with a fault during its recovery; the third
adds one more attempt. Deadlock is checked except in `fota_faults`, where a full
registration may leave an update waiting for ever, and in `coap`, where every
budget runs out.

In `fota_restart` version 2 is printed wrong: a main firmware 2 is registered as 1, the
version of the factory.

**Bounds of the other runs.** `tdbstore`: three layouts are roomy. The first is one
erase unit per area, which the third record fills exactly; the second has two erase
units, which the second record straddles and the third does not fill; in the third,
where power is not lost and so no copy of the master record is made, a record begins
with an erase unit (`Durable` and `GetAgrees` are not claimed of it, see below). On the
first and third two faults put a power loss into the recovery from a first fault; the
second allows one power loss. `FullLayouts` has room for two records, so that one key and
the copy of the master record fill it and a second key overruns it; in `FailingLayouts`
a collection or reset fails. There only what `TypeOK` says without `Assured` is claimed:
contents, versions and the shape of the table, not that offsets stay in the area. Areas
of two or three records make every second or third call collect garbage. Two versions
of the master record wrap at every second collection.
`renewal`: two power losses, one failing write, or a power loss and a chain that
does not verify; in each case one event cannot be allocated. `coap`: the budgets of
`Mixed` combine two messages of either side, an upload, and one failing
allocation; the resending queue holds one message, so that it is full, the
duplicate list two, so that it overflows. `notify`: a safety-only run with two
faults and three notifications in flight (3.7 million states) passed as well;
liveness needs the smaller one.

**Fairness** (`fota_live`). The event loop runs every handler that is due, so a
handler that has begun ends (`Handlers`) and a queued event is dispatched. The
service acknowledges notifications and answers requests while the client is
registered; CoAP retransmits, and giving up is the fault `notify` or `fragment`,
not silence. The client reconnects and renews its registration (timers in
mbed-client). `fota_app_on_*_authorization` obliges the application to answer,
with authorize or reject: an application that defers for ever is covered by the
bound on `defer`. `PowerCycle` is fair because a halted device is of no use until
somebody resets it; `UpdateConcludes` claims nothing of one that stays halted.

In `renewal` the event loop runs on and the CoAP client calls one of the callbacks
of an EST request in the end (`WF_vars(Step)`). In `coap` only the one-second timer
that runs `sn_coap_protocol_exec` is fair; the network and the server need not do
anything. In `notify` the event loop and its timers are fair (`SendNext`,
`PminExpires`, `UpdateRegistration`, `Reconnect`: `M2MTimer` and the retry timer);
a connected service answers registrations and notifications and observes what is
registered; the network is fair-lossy, so that what is sent again and again arrives
(strong fairness of `Received` and `Confirmed`). Faults are bounded, so these say
only that faults stop.

### Disagreements between the code and what it says of itself

Two are runs in which TLC finds the property violated.

| Run | What happens |
|---|---|
| `renewal_shorter_chain` | No fault is needed. A chain of three certificates is renewed by one of two. `ce_clean_items` "deletes set of items (key pair and certificate/certificate chain)" (`ce_safe_renewal_internal.c:258`) by `storage_item_delete`, which removes the first certificate of a chain and is content. The rest of the old chain stays under its names, the new chain is stored among it, and the chain read back mixes both; success is reported. |
| `notify_update` | The answer to a registration update frees the notification slot while a notification is in flight (`m2mnsdlinterface.cpp:3214`). The next value is sent beside it; the acknowledgement of the older one clears the in-progress flag, as `handle_message_delivered` does not compare identifiers. If the newer one then fails, nothing keeps it and it is not sent after the reconnection, although "the latest value is always sent to the server" (`CHANGELOG.md:662`). |

The others are found with the configuration of a passing run and the changes in the
last column; the properties are defined in the modules.

| Property | What happens | To reproduce |
|---|---|---|
| `EventSlotFree` | A registration update queues a resume event; before it is dispatched the application authorizes, `FOTA_ASSERT(!g_ctx.is_pending_event)` (`fota/fota_event_handler.c:151`) fails and the device halts. | `fota_crash`, `Manifests = {s1}`, `Faults = {"update"}`, `MaxFaults = 1` |
| `ManifestFindsIdle` | `install_component` has deleted the manifest and waits for the acknowledgement of REBOOTING. `fota_is_ready` looks for a persisted manifest only, so a second manifest is let in and meets `FOTA_ASSERT(!fota_ctx)`, which "should never happen" (`fota/fota.c:578`). | `fota_crash`, `Manifests = {f1}`, no faults |
| `TruthfulSuccess` | No encryption, resume support, no post-install callback. After one completed update the next one is cut by a power loss after the new key is saved and before the storage is erased. The resume finds the old candidate "ready" and never compares it with the manifest: the old image is installed again, reported as OK, and the new version recorded. | `fota_restart`, `Manifests = {s1, s2}`, `PostInstallCb = {}`, `ResumeSupport = "resume"`, `Faults = {"crash"}`, `MaxFaults = 1` |
| `WithinStorage` | The resume analysis counts the header space as room for blocks: when the skipped blocks use up the rest, the last block is programmed behind the candidate area (`fota/fota.c:1014`). | `fota_crash`, `Manifests = {s1}`, `HeaderSlack = 1`, `Faults = {"crash"}`, `MaxFaults = 3` |
| `UpdateConcludes` | A full registration drops the notification of the state resource without a status; the callback that would carry the update on never runs, and `fota_app_resume` ignores an update whose context exists. Only a reset helps. | `fota_live`, `Faults = {"network", "reregister"}`, `MaxFaults = 1`, `CHECK_DEADLOCK FALSE` |
| `StoredInOrder` | The full profile passes `NULL` where the callback expects the offset (`fota/fota_source_profile_full.cpp:514`): the surplus of an aligned request is not stripped after a resume, and bytes end up at the wrong place. The hash catches it at the end, so the resumed download fails. | `pages`, `Profile = "full"`, `Taggings = {TRUE}`, `MaxResets = 1` |
| `Recoverable` of `TDBStore` | A record begins with an erase unit, behind it lie records of an earlier use of the area. `set_finalize` erases them "just to ensure that in case of power failure next init() would not extend the scan phase" (`TDBStore.cpp:665-667`), but the record before them is complete earlier, and `garbage_collection` does not erase them at all: a power loss before the erase, or before the next set after a collection, makes the next start read the old records too. | `tdbstore`, `Geometries <- AlignedLayouts`, `MaxFaults = 1` |
| `VersionRecorded` | No post-install callback. Power is lost between the deletion of the manifest and the call of the installer of a sub-component; `fota_handle_post_install` finds the key and no manifest and records the version of the candidate, which was never installed. | `fota_restart`, `PostInstallCb = {}` |
| `VersionRecorded`, `NoRollback` | With encryption the installation of the main firmware is deferred; the authorization of the next download replaces the key, so that the candidate no longer decrypts, and power is lost before the erase. The bootloader installs nothing, but `fota_handle_post_install` records the candidate's version for the main component, and the start after it takes the record back. | `fota_restart`, `Encryption = TRUE`, `Manifests = {f1, s1}`, `Faults = {"crash", "defer", "nvm"}`, `MaxFaults = 4` |
| `DownloadConsistent` | The same header space (`WithinStorage` above), with more crashes: the slots that the rest of the download takes are not erased. | `fota_crash`, `Manifests = {s1}`, `HeaderSlack = 1`, `Faults = {"crash"}`, `MaxFaults = 5` |
| `InitSucceeds` | A log that leaves less room than a header cannot be read to its end: `read_record` fails and `init` stops in `assert(0)` at every start. | `tdbstore`, `Geometries <- TightLayouts` |
| `AnsweredNotFailed` | A request that is acknowledged by an empty ACK and answered separately keeps its copy (`sn_coap_protocol.c:790-814`); 300 s later it is reported as `COAP_STATUS_BUILDER_BLOCK_SENDING_FAILED` ("Blockwise message sending timeout", `sn_coap_header.h:164`) and the client reconnects. | `coap`, `Scenarios <- OneRequest` |
| `WholeMessage` | The number of the last block of an upload is not checked (`sn_coap_protocol.c:1992-2011`): when a payload was dropped for lack of memory the last block alone is delivered, although the "user will get whole message" (`sn_coap_header.h:155`). | `coap`, `Scenarios <- Upload` |

Further observations made while modelling, without a run of their own:

* `append_number_to_string` prints 10 as `0` and 100 as `00`; a main firmware
  1.10.0 is registered as 1.0.0. `LossOnlyAtTenAndHundred` states exactly this loss.
* `fota/fota_app_ifs.h:77` says that `fota_app_resume` has no effect after a
  deferred installation; for a sub-component the manifest is kept and the next
  registration update starts the update again.
* Without encryption `fota_handle_post_install` overwrites the result of the
  verification with that of `fota_bd_init` (`fota/fota.c:333`).
* `install_component` reports FW_UPDATE_OK whatever `fota_install_verify` returned
  (`fota/fota.c:838-853`).
* A failure to persist the manifest is ignored although the manifest is
  acknowledged (`fota/fota.c:607`).
* A recoverable abort deletes the key, so the resume that follows starts the
  download again.
* A notification answered by RESET gets no delivery status
  (`mbed-client/source/m2mnsdlinterface.cpp:3470`).
* The component name of a candidate is compared up to the length of the expected
  one (`fota/fota_candidate.c:203`): a name that is a prefix of another one matches.
* TDBStore: the last size test of `read_record` is strict, so that a record that ends
  with the area is written, not read back, and refused. `set_add_data` returns with
  `_mutex` held when its program fails; a failing master record releases a mutex that
  was not taken.
* Renewal: a failed restore still deletes status file and backup
  (`certificate_enrollment.c:202-222`), so two failing writes, or a power loss and a
  failing write, lose the identity; `Recoverable` is stated for a storage that does
  not fail. Backup items left by a power loss make the next renewal fail once. A
  request of the device whose event cannot be allocated leaks `current_cert`.
  `ce_store_new_certificate` closes a chain twice on an error
  (`ce_safe_renewal_internal.c:546-548`).
* CoAP: identifiers of both sides share one duplicate list. A request whose copy
  cannot be allocated returns an error although it is queued and will be sent
  (`sn_coap_protocol.c:524`). A failure may be reported twice. A confirmable separate
  response is never acknowledged. Block 0 accepted again is appended.
  A duplicate entry that cannot be allocated lets duplicates through, an answer that
  cannot be kept is not sent.
* Notifications: a reset that is late, of a notification before a new observation,
  cancels the new one. With a full resending queue the build error of a notification
  and the acknowledgement of an older one forget the value. A first value of -1
  equals the default of `_last_value`. A resource held back by pmin at the head of
  the list blocks the later ones until the next event.

## 4. Proofs

A theorem holds for every value of the constants that satisfies the named
assumptions of its module, and for any number of faults, unless it says otherwise.
The assumptions give the constants their types, and beyond that: in `Fota` `Blank`
and `Torn` are not blocks, an image has at least one block, the component table is
finite. Where a property holds for some builds only, the theorem has the condition as
a hypothesis, and TLC refutes the property without it (section 3).

| Module | Theorems | Hypotheses |
|---|---|---|
| `FotaProofs` | `Control`, `TypeCorrect`, `CallbackSafe`, `ReportSafe`, `FragmentSafe`, `AnswerSafe`, `ResumeSafe` | |
| | `StorageSafe` | `HeaderSlack = 0` |
| `FotaImageProofs` | `Inductive`, `AuthenticImages` | |
| | `DownloadSafe` | no resume support, or `HeaderSlack = 0` |
| | `RestartInductive`, `HeaderSafe`, `CandidateSafe`, `LossesTold`, `SuccessTruthful` | no resume support |
| | `VersionInductive`, `NeverBack` | no resume support, no encryption |
| | `VersionSafe` | the same, and a post-install callback for every component but the main one |
| `FotaPagesProofs` | `PagesInductive`, `StorageInOrder` | the lite profile |
| `FotaSemverProofs` | `VersionInductive`, `LossSafe`, `OrderSafe` | numbers up to 999 (the model's) |
| `CertRenewalProofs` | `RequestSafe` | |
| | `IdentitySafe`, `ReportsSafe` | chains of one or two certificates |
| `CoapProofs` | `CoapInductive`, `CoapTypeCorrect`, `DuplicatesSafe`, `UploadSafe`, `AckSafe` | identifiers that are not reused |
| `NotifyProofs` | `Inductive`, `TypeCorrect`, `ObservationsSafe`, `ValuesSafe` | |
| `TDBStoreProofs` | `StoreInductive`, `StoreTyped`, `StoreProgramsErased` | |
| | `StoreDurable`, `StoreGetAgrees` | no record begins with an erase unit (in the properties: `Straddling`) |
| | `StoreImplementsKVStore` | the same, or no power loss (`Reliable`) |

### The firmware update

None of the safety properties is inductive. `CallbackHasContext`, for instance,
needs that `abort_update` only runs where no callback is pending, which needs that
an answer, a question and a callback exclude each other, which needs that the state
of the update matches the point the handler has reached. `ControlInv` says that:

* `PcMatchesState`: the point reached determines the state;
* `ContextHasManifest`: an active update has a manifest, from parsing on an
  authentic one;
* `OneToken`: the engine waits for exactly one of a callback, an answer of the
  application, and the dispatch of one;
* `OneFragment`: a download waits for one fragment, the next one, or for the news
  that it failed;
* `SpaceLeft`: what is still to come fits behind `addr`.

`FotaProofs` proves it action by action (`FlagStep`, `ValueStep`,
`SequencingStep`) and derives its theorems.

`FotaImageProofs` proves `AuthenticImages`. The difficulty is that a resume may
adopt a header or a candidate of another update, so `hdr = man` is *not* invariant
in general. What is invariant (`ImageInv`) is weaker: the first good block of a
download whose hash is right so far is a block of its own manifest (`BlocksAreOwn`).
When the candidate-ready header is written for the component of `man`, a valid image
behind a header `hdr` must begin with a block of `hdr`; as blocks of different
manifests differ, `hdr = man`, and so a candidate that names a component and
validates is an image for that component (`CandidateFits`). The installer and the
bootloader validate, hence only authentic images for the right component run.

`DownloadSafe` needs two invariants. With resume support (`ResumeDownload`) the
slots before `addr` are all used, as many of them good as fragments were counted, and
the erased slots form a suffix (`ErasedSuffix`): so the walk of the resume analysis,
which stops at the first erased slot, stops where the download had stopped. Without
it (`RestartDownload`) block `k` is in slot `k`.

Without resume support nothing of an earlier update is adopted. `RestartInv` says so:
from the erase on, header, key and blocks are those of `man`; between the deletion of
the manifest and the end of `install_component` the candidate names the component of
`man` and is complete. Then the installer's image is that of `man` whatever
`fota_install_verify` returns, which is why ignoring its result (section 3) does no
harm to `TruthfulSuccess`.

`VersionInv` relates three versions: of the accepted manifest, of the candidate and
of the record. A candidate that survives a reset was accepted when it was newer, and a
record only grows to what runs or to what a candidate says (`ManVer[hdr] >=
version[cand]`), so that neither bootloader nor installer goes back. `RecordInv` adds
that another component than the main one runs what is recorded, or is `Pending`: key
present, manifest gone, the candidate the image that runs, before the next
`fota_handle_post_install`.

In the lite profile `PagesInv` says of pages and page buffer together that they are
the payload up to a position that only the phase of the callback determines. The
offset of a request differs from it by the surplus that the callback strips, which is
what the full profile gets wrong.

`FotaSemverProofs` computes the digits of a number below 1000 and what the parser
makes of them, with no induction: three digits are unfolded.

### Certificates, messages, notifications

`CertRenewalProofs`. `RequestInv` has the requests: nothing under way, or exactly one
stage. `StorageInv` has one invariant per function of the renewal: which of originals
and backup is complete, and, for each entry that is being written, either it has its
final value or the list of what is left to do has the operation that gives it
(`Target`, `SetTarget`). A longer chain mixes with the rest of an older one, as
`renewal_shorter_chain` shows. `ReportsSafe` states `Settled` for a storage that does
not fail, as `Recoverable` is stated: with two failing writes the restore gives up.

`CoapProofs`. `IdInv` keeps the identifiers of both sides apart, `ListInv` has one
entry per identifier, which no answer has met; `DupInv` says that the duplicate list is
the end of what was accepted and that an exchange of an entry that has timed out is
over; `UploadInv` follows the upload block by block. The hypothesis `NumberedApart`
says that the client does not come round to an identifier it has used and that the
sides use different ones: a client counts to 65535 before an exchange of 247 s can
still be open. The run satisfies it with a counter that wraps.

`NotifyProofs`. `HandlerInv` says which flag of a report handler carries the current
value, `FlightInv` which notification in flight is the newest and that what the
service received is its value, `PendingInv` that what it may still receive is current
or will be superseded. The attempt to prove `NothingForgotten` with an unbounded
number of notifications in flight showed that the history `unkept` forgot a
notification that a second answer settles; `Unsettled` corrects it.

### The key-value store

`TDBStoreProofs` proves `IInv` of `TDBStoreInductive`, a conjunction of parts that
need each other in this order:

* `CallInv`: the point reached tells which call is under way and whether it has taken
  effect. With it, a step that ends a call returns the result `KVStore` asks for.
* `RangeInv`: the log is full of records that `read_record` accepts, and the RAM table
  has no more entries than the log has records. This is why a garbage collection
  always fits into the other area, including the strict size test.
* `EraseInv`: behind the log, flash is erased up to the end of the erase unit, unless
  the log ends with one; `check_erase_before_write` erases the units that start in the
  range it is given, which keeps that so. It implies `ProgramsErased`.
* `RamInv`: the table is sorted and points, for every key but the one being set, to
  the record of its item, in the area that a garbage collection in progress has
  reached for it.
* `FlashInv`: which area a start would choose, and that its log ends where `free`
  says and holds `kv`. During the switch both areas hold `kv`, so that it does not
  matter which of two valid master records wins, and the wrap of the version is safe.
  `KeepsMore` is the step in which a set takes effect, `CopyHolds` the switch.
* `BootInv`: where power is not lost the device starts once, from an empty flash.

`FlashInv` needs `Straddling`: otherwise the record behind the end of a log may be an
old one. `RamInv` needs only one of `Straddling` and no power loss, and so does the
refinement. `InterfaceStep` is the step simulation: `Finalize` of a record that reads
back, `ReserveTrailer`, and the erase of the active area are `Commit`, the end of a
call is `Return`, everything else but `Begin` and `PowerLoss` stutters.

The assumptions are the types of the constants and that markers of flash contents
(`Erased`, `Torn`) are no versions and no units of records. Facts by induction over
data (a finite set of keys can be sorted, a log has an end) are proved with a least
counterexample in the numbers (`LeastNat`), as the provers cannot instantiate the
library's induction theorems.

### Only model-checked

Liveness (`UpdateConcludes`, `DownloadCompletes`, `NotBusyForever`, `EverySendEnds`,
`SlotIsFreed`, `EventuallyNotified`) is out of reach of the prover. Beyond the hypotheses of
the table, what holds and what fails is shown by the runs and instances of section 3.

## 5. Limits

* Allocation failures, the legacy header without a candidate-ready header, Linux
  installation and the curl download are not modelled.
* `Fota` has the notifications of its two resources without message identifiers; both
  acknowledgements of a notification that a registration update has sent twice reach
  `notification_status`, and the second one may run the callback of a later report.
  `Notify` has the identifiers and no callbacks.
* `FotaInit` assumes NVM reads succeed; a key or version item is written atomically
  (`TDBStore` implements `KVStore`).
* Unregistered clients: a fragment request that is outstanding stays so over a
  reconnection or fails; mbed-client's request list is not modelled beyond that.
* `TDBStore`: iterators, failing programs inside the garbage collection, and
  `SecureStore` above it are left out. A mutex serialises the callers.
* `CertRenewal`: `finalize` during a renewal, the PSA build, the removal of factory
  copies by `storage_chain_delete`, and an EST post without memory, which never ends.
* `Coap`: block-wise sending of the client, non-confirmable requests of the server,
  malformed headers, the configuration calls.
* `Notify`: observation of objects and instances, pmax, gt, lt and st, block-wise
  notifications, auto-observable resources, queue mode, pause and resume, bootstrap;
  a value set by another thread than the event loop's races with the handler, which
  the library leaves to the application.

### Not modelled, and why

Most of the repository's lines are platform ports (`mbed-client-pal`, `ns-hal-pal`),
configuration headers, vendored libraries (tinycbor, mbed-trace, randlib, the
cryptography), parsers and builders of formats (CoAP headers, TLV, ASN.1, CBOR), the
legacy update client and tests. They keep no protocol state, or are pure
conversions without a design to check. `PROJECT.json` lists them with the reason.

## 6. Plan

1. **Event loop and timers** (`event.c`, `ns_timer.c`, `system_timer.c`):
   priorities, static and dynamic events, cancellation.
2. **ConnectorClient and ServiceClient**: bootstrap and registration above `Notify`'s
   `link`.
3. An abstract specification of an update (accepted, stored, installed, reported)
   that `Fota` implements, as a refinement.
