-------------------------------- MODULE Fota --------------------------------
(***************************************************************************)
(* The firmware-update engine of the client (fota/fota.c) together with    *)
(* what it is driven by: the one-slot event queue (fota_event_handler.c),  *)
(* the LwM2M resources it reports through (fota_source_profile_full.cpp),  *)
(* the NVM items (fota_nvm.c), the candidate storage (fota_candidate.c)    *)
(* and the component table (fota_component.c).  The bootloader, the        *)
(* application and the installers are outside the repository: they are     *)
(* modelled from the calls the engine makes and expects.                   *)
(*                                                                         *)
(* Every handler runs to completion on the event-loop thread.  A handler   *)
(* that writes persistent storage more than once is cut at those writes:   *)
(* pc names the point it has reached, no other handler runs until pc is    *)
(* "idle" again, and only a power loss can come in between.                *)
(*                                                                         *)
(* An image of n blocks occupies n good storage slots; one fragment        *)
(* carries one block.  Page assembly is the subject of module FotaPages.   *)
(***************************************************************************)
EXTENDS Integers, FiniteSets

CONSTANTS
  Manifests,      \* the manifests the service may send
  NoManifest,     \* absence of a manifest
  Components,     \* registered components
  Main,           \* the main component, installed by the bootloader
  ManComp,        \* component a manifest addresses
  ManVer,         \* version of the image it describes
  ManBlocks,      \* number of payload blocks
  ManAuthentic,   \* manifests that fota_manifest_parse accepts
  ManDelta,       \* manifests whose payload is a patch
  ManBase,        \* image a patch applies to
  FactoryVer,     \* version each component left the factory with
  Reprinted,      \* what a version of the boot header becomes when it is registered
  Factory, Broken,\* the factory image; a half-installed image
  NeedReboot,     \* components whose installation ends in a reboot
  PostInstallCb,  \* components that registered a post-install callback
  Encryption,     \* MBED_CLOUD_CLIENT_FOTA_ENCRYPTION_SUPPORT
  ResumeSupport,  \* MBED_CLOUD_CLIENT_FOTA_RESUME_SUPPORT
  Slots,          \* block slots behind the headers in the candidate area
  HeaderSlack,    \* slots that the headers take when counted in blocks
  Blank, Torn,    \* content of an erased and of a half-written slot
  Faults,         \* kinds of fault the environment may inject
  MaxFaults       \* bound on the number of faults in a behaviour

FaultKinds == {"crash", "nvm", "storage", "installer", "app", "defer", "notify", "fragment",
               "network", "update", "reregister", "verify", "version"}

ASSUME ComponentAssumption ==
  /\ IsFiniteSet(Components)
  /\ Main \in Components
  /\ Main \in NeedReboot
  /\ NeedReboot \subseteq Components
  /\ PostInstallCb \subseteq Components \ {Main}
  /\ FactoryVer \in [Components -> Nat]

ASSUME ManifestAssumption ==
  /\ NoManifest \notin Manifests
  /\ ManComp \in [Manifests -> Components]
  /\ ManVer \in [Manifests -> Nat]
  /\ ManBlocks \in [Manifests -> Nat \ {0}]
  /\ ManAuthentic \subseteq Manifests
  /\ ManDelta \subseteq Manifests
  /\ ManBase \in [Manifests -> Manifests \cup {Factory}]
  /\ Factory \notin Manifests
  /\ Broken \notin Manifests \cup {Factory}

\* fota_component_version_int_to_semver and back: FotaSemver tells what is lost.
Versions == {ManVer[m] : m \in Manifests} \cup {FactoryVer[c] : c \in Components}
ASSUME VersionAssumption ==
  /\ Reprinted \in [Versions -> Nat]
  /\ \A v \in Versions : Reprinted[v] <= v

ASSUME StorageAssumption ==
  /\ Slots \in Nat \ {0}
  /\ HeaderSlack \in Nat
  /\ Blank # Torn
  /\ {Blank, Torn} \cap (Manifests \X Nat) = {}
  /\ {Blank, Torn} \cap Manifests = {}
  /\ {Blank, Torn} \cap Components = {}

ASSUME ConfigAssumption ==
  /\ Encryption \in BOOLEAN
  /\ ResumeSupport \in {"unsupported", "restart", "resume"}
  /\ Faults \subseteq FaultKinds
  /\ MaxFaults \in Nat

VARIABLES
  \* Persistent state
  nvManifest,     \* FOTA_MANIFEST_KEY item
  nvKey,          \* whether the FOTA_ENCRYPT_KEY item is present
  cand,           \* candidate-ready header: Blank, Torn or a component name
  footer,         \* whether the footer magic of that header is written
  hdr,            \* firmware header: Blank or the manifest it was made from
  slot,           \* the block slots
  image,          \* image each component runs
  nvVersion,      \* version recorded for each component; that of Main is never read
  \* The update context, fota_ctx
  state, resume, man, off, addr, hashOk,
  \* The rest of the volatile state
  version,        \* version of each component in the component table
  pc,             \* point the running handler has reached
  incoming,       \* block being programmed
  src,            \* LwM2M state and result resources and their notifications
  callback,       \* callback of the latest report
  event,          \* the event slot
  asked,          \* authorization the application has been asked for
  reqs,           \* outstanding fragment requests
  registered,     \* whether the client is registered
  halt,           \* the FOTA_ASSERT that stopped the device, if any
  unrecorded,     \* history: components whose version fota_install_verify failed to record
  budget          \* faults the environment may still inject

nvm   == <<nvManifest, nvKey>>
store == <<cand, footer, hdr, slot>>
records == <<version, nvVersion, unrecorded>>
comps == <<image, records>>
ctx   == <<state, resume, man, off, addr, hashOk>>
reports == <<src, callback>>
io    == <<reports, event, asked, reqs, registered>>
vars  == <<nvm, store, comps, ctx, pc, incoming, io, halt, budget>>

-----------------------------------------------------------------------------
(***************************************************************************)
(* Candidate storage                                                       *)
(***************************************************************************)

\* Slots the resume analysis believes it has: the size of the whole candidate
\* area, headers included, divided by the block size.
Cap == Slots + HeaderSlack

Block == Manifests \X Nat

\* A slot whose tag or checksum is right.
Good(k) == slot[k] \notin {Blank, Torn}

GoodUpTo(k) == Cardinality({j \in 1..k : Good(j)})

\* fota_candidate_iterate_image: the blocks that can be read back, bad ones
\* skipped when the header carries the resume flag, are the image of m.
ImageValid(m) ==
  /\ m # Blank
  /\ Encryption => nvKey
  /\ GoodUpTo(Slots) >= ManBlocks[m]
  /\ \A k \in 1..Slots :
       Good(k) /\ GoodUpTo(k) <= ManBlocks[m] => slot[k] = <<m, GoodUpTo(k)>>
  /\ ResumeSupport # "resume" => \A k \in 1..ManBlocks[m] : Good(k)

\* Blocks written under another key can no longer be decrypted.
Rekeyed ==
  IF Encryption THEN [k \in 1..Cap |-> IF slot[k] = Blank THEN Blank ELSE Torn] ELSE slot

\* The erase of the first sector takes both headers with it.
EraseHeadersLate ==
  hdr' = Blank /\ UNCHANGED <<cand, footer>>
EraseHeaders ==
  cand' = Blank /\ footer' = FALSE /\ hdr' = Blank

\* Version of image x of component c.
VersionOf(c, x) == IF x \in Manifests THEN ManVer[x] ELSE FactoryVer[c]

\* component_post_install_cb: does component c now run version v?
PostInstallOk(c, v) ==
  c \in PostInstallCb => image[c] # Broken /\ VersionOf(c, image[c]) = v

-----------------------------------------------------------------------------
(***************************************************************************)
(* LwM2M resources                                                         *)
(***************************************************************************)

SourceStates == {"UNSET", "IDLE", "PROCESSING_MANIFEST", "AWAITING_DOWNLOAD_APPROVAL",
                 "DOWNLOADING", "AWAITING_APPLICATION_APPROVAL", "UPDATING", "REBOOTING"}
Results      == {"NO_RESULT", "OK", "FAILED"}
Callbacks    == {"none", "request_download_auth", "on_approve_state_delivered",
                 "install_component", "on_reboot"}

\* The two resources, the value that is being notified and those that wait.
Source == [state : SourceStates, result : Results,
           flight : SourceStates \cup Results \cup {"none"},
           queued : SUBSET {"state", "result"}]

ResourceOf(v) == IF v \in Results THEN "result" ELSE "state"

\* M2MResourceBase::set_value: a changed value is notified at once when no
\* notification is in flight, otherwise the resource is queued.
SetValue(s, v) ==
  LET now == s.flight = "none" /\ registered
  IN  IF v \in {s.state, s.result} THEN s
      ELSE [state  |-> IF v \in SourceStates THEN v ELSE s.state,
            result |-> IF v \in Results THEN v ELSE s.result,
            flight |-> IF now THEN v ELSE s.flight,
            queued |-> IF now THEN s.queued ELSE s.queued \cup {ResourceOf(v)}]

\* report_int: the value is set, then the callbacks of the latest report are kept.
ReportKeeping(s, v, cb) ==
  src' = SetValue(s, v) /\ callback' = IF cb = "none" THEN callback ELSE cb
Report(s, v, cb) ==
  src' = SetValue(s, v) /\ callback' = cb

-----------------------------------------------------------------------------
(***************************************************************************)
(* Helpers shared by the handlers                                          *)
(***************************************************************************)

Running == halt = "none"
Idle    == Running /\ pc = "idle"
Active  == state # "none"

\* The environment injects a fault of the given kind.
Fault(kind) ==
  /\ kind \in Faults
  /\ budget > 0
  /\ budget' = budget - 1

Halt(reason) == halt' = reason

\* fota_install_verify: the version goes to the component table and to the NVM, which
\* may fail without anybody noticing.
VerifyOnly(c, v) == PostInstallOk(c, v) /\ UNCHANGED <<records, budget>>
InstallVerified(c, v) ==
  /\ PostInstallOk(c, v)
  /\ version' = [version EXCEPT ![c] = v]
  /\ \/ /\ nvVersion' = [nvVersion EXCEPT ![c] = v]
        /\ unrecorded' = unrecorded \ {c}
        /\ UNCHANGED budget
     \/ /\ Fault("version")
        /\ unrecorded' = unrecorded \cup {c}
        /\ UNCHANGED nvVersion

\* The callback objects, for a reason or without one.
InstallRefused(c, v) ==
  /\ \/ ~PostInstallOk(c, v) /\ UNCHANGED <<unrecorded, budget>>
     \/ /\ c \in PostInstallCb /\ Fault("verify")
        /\ unrecorded' = unrecorded \cup {c}
  /\ UNCHANGED <<version, nvVersion>>

\* update_cleanup
ClearContext ==
  /\ state' = "none" /\ resume' = "inactive" /\ man' = NoManifest
  /\ off' = 0 /\ addr' = 1 /\ hashOk' = TRUE

\* A recoverable error keeps the manifest for a later resume.
NoManifestAfterAbort(terminate) == NoManifest
ManifestAfterAbort(terminate) == IF terminate THEN NoManifest ELSE nvManifest

\* abort_update up to manifest_delete; AbortKey is the rest.
BeginAbort(terminate) ==
  /\ IF terminate THEN Report(SetValue(src, "FAILED"), "IDLE", "none")
                  ELSE Report(src, "PROCESSING_MANIFEST", "none")
  /\ nvManifest' = ManifestAfterAbort(terminate)
  /\ pc' = "abort"

\* fota_nvm_fw_encryption_key_delete, fota_app_on_complete, update_cleanup
AbortKey ==
  /\ Running /\ pc = "abort"
  /\ nvKey' = FALSE
  /\ asked' = "none"
  /\ ClearContext
  /\ pc' = "idle"
  /\ UNCHANGED <<nvManifest, store, comps, incoming, reports, event, reqs, registered, halt, budget>>

\* fota_event_handler_defer_with_result
Defer(e) ==
  IF event = "none" THEN event' = e /\ UNCHANGED halt
                    ELSE Halt("event") /\ UNCHANGED event

\* fota_source_firmware_request_fragment: an unregistered client gets the error
\* callback at once.
Request(m, i) ==
  IF registered
  THEN reqs' = reqs \cup {<<m, i>>} /\ UNCHANGED <<event, halt>>
  ELSE Defer("fragment_failure") /\ UNCHANGED reqs

-----------------------------------------------------------------------------
(***************************************************************************)
(* Boot: bootloader, fota_init, fota_handle_post_install                   *)
(***************************************************************************)

\* The bootloader installs a candidate that is marked ready for the main
\* component and whose image it can validate.
Bootloader ==
  /\ Running /\ pc = "boot"
  /\ image' = IF cand = Main /\ hdr # Blank /\ ImageValid(hdr)
              THEN [image EXCEPT ![Main] = hdr] ELSE image
  /\ pc' = "init"
  /\ UNCHANGED <<nvm, store, records, ctx, incoming, io, halt, budget>>

\* The version that a start registers for component c.
BootVersion(c) == IF c = Main THEN Reprinted[VersionOf(Main, image[Main])] ELSE nvVersion[c]

\* fota_init: a key without a manifest is taken as the trace of an upgrade.
FotaInit ==
  /\ Running /\ pc = "init"
  /\ version' = [c \in Components |-> BootVersion(c)]
  /\ src' = [state  |-> IF nvManifest # NoManifest THEN "PROCESSING_MANIFEST" ELSE "IDLE",
             result |-> "NO_RESULT", flight |-> "none", queued |-> {}]
  /\ callback' = "none"
  /\ pc' = IF nvManifest = NoManifest /\ nvKey THEN "post_install" ELSE "idle"
  /\ UNCHANGED <<nvm, store, image, nvVersion, unrecorded, ctx, incoming, event, asked, reqs,
                 registered, halt, budget>>

\* fota_handle_post_install with fota_install_verify, up to the recorded version.
PostInstallVerify ==
  /\ Running /\ pc = "post_install"
  /\ LET next(ok) == IF ~Encryption THEN "post_erase" ELSE IF ok THEN "post_key" ELSE "post_key_failed"
     IN  \/ /\ Cardinality(Components) = 1
            /\ pc' = next(TRUE)
            /\ UNCHANGED <<records, budget>>
         \/ /\ Cardinality(Components) > 1
            /\ cand \notin Components \/ hdr = Blank
            /\ pc' = next(FALSE)
            /\ UNCHANGED <<records, budget>>
         \/ /\ Cardinality(Components) > 1
            /\ cand \in Components /\ hdr # Blank
            /\ \/ InstallVerified(cand, ManVer[hdr]) /\ pc' = next(TRUE)
               \/ InstallRefused(cand, ManVer[hdr]) /\ pc' = next(FALSE)
  /\ UNCHANGED <<nvm, store, image, ctx, incoming, io, halt>>

\* fota_candidate_erase: the sector that holds the headers.  Its result replaces
\* the one of the verification.
PostInstallErase ==
  /\ Running /\ pc = "post_erase"
  /\ \/ /\ EraseHeaders
        /\ pc' = "post_key"
        /\ UNCHANGED budget
     \/ /\ Fault("storage")
        /\ pc' = "post_key_failed"
        /\ UNCHANGED <<cand, footer, hdr>>
  /\ UNCHANGED <<nvm, slot, comps, ctx, incoming, io, halt>>

\* The key is removed and a failure is reported; fota_init takes the versions of all
\* other components from the NVM again.
PostInstallKey ==
  /\ Running /\ pc \in {"post_key", "post_key_failed"}
  /\ nvKey' = FALSE
  /\ IF pc = "post_key_failed" THEN Report(src, "FAILED", "none") ELSE UNCHANGED reports
  /\ version' = [nvVersion EXCEPT ![Main] = version[Main]]
  /\ pc' = "idle"
  /\ UNCHANGED <<nvManifest, store, image, nvVersion, unrecorded, ctx, incoming, event, asked, reqs,
                 registered, halt, budget>>

-----------------------------------------------------------------------------
(***************************************************************************)
(* Manifest                                                                *)
(***************************************************************************)

\* handle_manifest up to the persisted manifest; Parse is the rest.
HandleManifest(m, isResume, s) ==
  /\ state' = "idle"
  /\ man' = m
  /\ resume' = IF isResume THEN "started" ELSE "inactive"
  /\ pc' = "parse"
  /\ src' = s
  /\ UNCHANGED <<off, addr, hashOk, callback>>

\* fota_is_ready looks at the persisted manifest only.
AlwaysReady == TRUE
IsReady == nvManifest = NoManifest

\* got_manifest_callback; a manifest that comes while another one is kept is refused.
GotManifest(m) ==
  /\ Idle /\ registered
  /\ IsReady
  /\ LET s == SetValue(SetValue(src, "UNSET"), "NO_RESULT")
     IN  IF Active
         THEN /\ Halt("manifest")
              /\ src' = s
              /\ UNCHANGED <<nvManifest, ctx, pc, budget, callback>>
         ELSE /\ \/ /\ nvManifest' = IF ResumeSupport = "unsupported" THEN NoManifest ELSE m
                    /\ UNCHANGED budget
                 \/ Fault("nvm") /\ UNCHANGED nvManifest
              /\ HandleManifest(m, FALSE, s)
              /\ UNCHANGED halt
  /\ UNCHANGED <<nvKey, store, comps, incoming, event, asked, reqs, registered>>

\* The checks of handle_manifest: signature and syntax, version, precursor.
AcceptableAnyVersion(m) ==
  /\ m \in ManAuthentic
  /\ m \in ManDelta => ManComp[m] = Main /\ ManBase[m] = image[Main]
Acceptable(m) ==
  /\ m \in ManAuthentic
  /\ ManVer[m] > version[ManComp[m]]
  /\ m \in ManDelta => ManComp[m] = Main /\ ManBase[m] = image[Main]

\* handle_manifest from fota_manifest_parse on
Parse ==
  /\ Running /\ pc = "parse"
  /\ IF Acceptable(man)
     THEN /\ state' = "await_download"
          /\ Report(src, "AWAITING_DOWNLOAD_APPROVAL", "request_download_auth")
          /\ pc' = "idle"
          /\ UNCHANGED nvManifest
     ELSE BeginAbort(TRUE) /\ UNCHANGED state
  /\ UNCHANGED <<nvKey, store, comps, resume, man, off, addr, hashOk, incoming,
                 event, asked, reqs, registered, halt, budget>>

\* fota_on_resume
OnResumeAnyway ==
  IF nvManifest = NoManifest
  THEN UNCHANGED <<ctx, pc, reports>>
  ELSE HandleManifest(nvManifest, TRUE, src)
OnResume ==
  IF Active \/ nvManifest = NoManifest
  THEN UNCHANGED <<ctx, pc, reports>>
  ELSE HandleManifest(nvManifest, TRUE, src)

-----------------------------------------------------------------------------
(***************************************************************************)
(* Download                                                                *)
(***************************************************************************)

\* finalize_update: a candidate that was found ready is not verified again.
Finalize(verified) ==
  IF verified
  THEN /\ state' = "await_install"
       /\ Report(src, "AWAITING_APPLICATION_APPROVAL", "on_approve_state_delivered")
       /\ pc' = "idle"
       /\ UNCHANGED nvManifest
  ELSE BeginAbort(TRUE) /\ UNCHANGED state

\* init_encryption reloads the key of a resumed update, or makes a new one.
Reload == ResumeSupport = "resume" /\ resume = "started" /\ nvKey

\* fota_on_download_authorize up to init_encryption
OnDownloadAuthorize ==
  /\ nvKey' = TRUE
  /\ slot' = IF Reload THEN slot ELSE Rekeyed
  /\ resume' = IF Reload THEN resume ELSE "inactive"
  /\ pc' = "storage"

\* The walk of analyze_resume_state stands at slot k with so many blocks left.
BlocksLeft(k) == ManBlocks[man] - GoodUpTo(k - 1)

\* "Not enough erased space left for resuming"
AlwaysFits(k) == FALSE
DoesNotFit(k) == BlocksLeft(k) > Cap - (k - 1)

\* The walk ends: nothing is left, too much is left, or the slot is erased.
StopsAtTorn(k) == BlocksLeft(k) = 0 \/ DoesNotFit(k) \/ (k <= Cap /\ ~Good(k))
StopsAt(k)     == BlocksLeft(k) = 0 \/ DoesNotFit(k) \/ (k <= Cap /\ slot[k] = Blank)

\* Are the good slots before k the first blocks of m, in order?
PrefixOf(m, k) == \A j \in 1..(k - 1) : Good(j) => slot[j] = <<m, GoodUpTo(j)>>

\* fota_on_download_authorize: the size check
InsufficientStorage ==
  /\ Running /\ pc = "storage"
  /\ \/ ManBlocks[man] > Slots /\ UNCHANGED budget
     \/ Fault("storage")
  /\ BeginAbort(TRUE)
  /\ UNCHANGED <<nvKey, store, comps, ctx, incoming, event, asked, reqs, registered, halt>>

StorageUnchecked == Running /\ pc = "storage"
StorageFits == Running /\ pc = "storage" /\ ManBlocks[man] <= Slots

\* analyze_resume_state when it cannot, or need not, resume
NoResume ==
  /\ StorageFits
  /\ \/ resume = "inactive"
     \/ man \in ManDelta
     \/ cand = Torn
     \/ cand \in Components /\ ~footer
     \/ cand = Blank /\ hdr = Blank
     \/ /\ cand = Blank
        /\ \E k \in 1..(Cap + 1) :
             /\ StopsAt(k) /\ \A j \in 1..(k - 1) : ~StopsAt(j)
             /\ DoesNotFit(k)
  /\ resume' = "inactive"
  /\ off' = 0 /\ addr' = 1 /\ hashOk' = TRUE
  /\ pc' = "erase"
  /\ UNCHANGED <<nvm, store, comps, state, man, incoming, io, halt, budget>>

\* analyze_resume_state: the candidate-ready header is complete
ResumeReady ==
  /\ StorageFits
  /\ resume = "started" /\ man \notin ManDelta
  /\ cand \in Components /\ footer
  /\ resume' = "ongoing"
  /\ Finalize(TRUE)
  /\ UNCHANGED <<nvKey, store, comps, man, off, addr, hashOk, incoming,
                 event, asked, reqs, registered, halt, budget>>

\* analyze_resume_state: every block is there, or a blank slot ends the walk
ResumeBlocks ==
  /\ StorageFits
  /\ resume = "started" /\ man \notin ManDelta
  /\ cand = Blank /\ hdr # Blank
  /\ \E k \in 1..(Cap + 1) :
       /\ StopsAt(k) /\ \A j \in 1..(k - 1) : ~StopsAt(j)
       /\ ~DoesNotFit(k)
       /\ off' = GoodUpTo(k - 1)
       /\ addr' = k
       /\ hashOk' = PrefixOf(man, k)
       /\ resume' = "inactive"
       /\ IF BlocksLeft(k) = 0
          THEN Finalize(PrefixOf(man, k)) /\ UNCHANGED <<reqs, event, halt>>
          ELSE /\ state' = "downloading"
               /\ Report(src, "DOWNLOADING", "none")
               /\ Request(man, GoodUpTo(k - 1) + 1)
               /\ pc' = "idle"
               /\ UNCHANGED nvManifest
  /\ UNCHANGED <<nvKey, store, comps, man, incoming, asked, registered, budget>>

\* fota_bd_erase: with resume support the whole candidate area, otherwise what
\* the image needs
Erase ==
  /\ Running /\ pc = "erase"
  /\ \/ /\ EraseHeaders
        /\ slot' = [k \in 1..Cap |->
                      IF k <= (IF ResumeSupport = "resume" THEN Slots ELSE ManBlocks[man])
                      THEN Blank ELSE slot[k]]
        /\ pc' = "header"
        /\ UNCHANGED <<nvManifest, reports, budget>>
     \/ /\ Fault("storage") /\ BeginAbort(TRUE) /\ UNCHANGED store
  /\ UNCHANGED <<nvKey, comps, ctx, incoming, event, asked, reqs, registered, halt>>

\* prepare_and_program_header, then the download starts
ProgramHeaderPersisted ==
  /\ Running /\ pc = "header"
  /\ hdr' = nvManifest
  /\ state' = "downloading"
  /\ Report(src, "DOWNLOADING", "none")
  /\ Request(man, 1)
  /\ pc' = "idle"
  /\ UNCHANGED <<nvm, cand, footer, slot, comps, resume, man, off, addr, hashOk, incoming,
                 asked, registered, budget>>
ProgramHeader ==
  /\ Running /\ pc = "header"
  /\ hdr' = man
  /\ state' = "downloading"
  /\ Report(src, "DOWNLOADING", "none")
  /\ Request(man, 1)
  /\ pc' = "idle"
  /\ UNCHANGED <<nvm, cand, footer, slot, comps, resume, man, off, addr, hashOk, incoming,
                 asked, registered, budget>>

\* data_req_callback and fota_on_fragment up to the programming of the block
OnFragment(r) ==
  /\ Idle /\ registered
  /\ r \in reqs
  /\ reqs' = reqs \ {r}
  /\ IF state # "downloading"
     THEN UNCHANGED <<slot, incoming, pc, nvManifest, reports, budget>>
     ELSE \/ /\ slot' = [slot EXCEPT ![addr] = Torn]
             /\ incoming' = r
             /\ pc' = "program"
             /\ UNCHANGED <<nvManifest, reports, budget>>
          \/ Fault("storage") /\ BeginAbort(TRUE) /\ UNCHANGED <<slot, incoming>>
  /\ UNCHANGED <<nvKey, cand, footer, hdr, comps, ctx, event, asked, registered, halt>>

\* program_to_storage has finished: the rest of fota_on_fragment
ProgramDone ==
  /\ Running /\ pc = "program"
  /\ slot' = [slot EXCEPT ![addr] = incoming]
  /\ addr' = addr + 1
  /\ off' = off + 1
  /\ hashOk' = (hashOk /\ incoming = <<man, off + 1>>)
  /\ incoming' = <<NoManifest, 0>>
  /\ IF off + 1 = ManBlocks[man]
     THEN Finalize(hashOk') /\ UNCHANGED <<reqs, event, halt>>
     ELSE /\ Request(man, off + 2)
          /\ pc' = "idle"
          /\ UNCHANGED <<state, reports, nvManifest>>
  /\ UNCHANGED <<nvKey, cand, footer, hdr, comps, resume, man, asked, registered, budget>>

\* fota_bd_program fails in the middle of the header, of a block or of the
\* candidate-ready header.
ProgramFails ==
  /\ Running /\ pc \in {"header", "program", "ready", "ready_defer"}
  /\ Fault("storage")
  /\ BeginAbort(TRUE)
  /\ incoming' = <<NoManifest, 0>>
  /\ UNCHANGED <<nvKey, store, comps, ctx, event, asked, reqs, registered, halt>>

\* data_req_error_callback
FragmentError(r) ==
  /\ Idle
  /\ r \in reqs
  /\ Fault("fragment")
  /\ reqs' = reqs \ {r}
  /\ IF Active THEN Defer("fragment_failure") ELSE UNCHANGED <<event, halt>>
  /\ UNCHANGED <<nvm, store, comps, ctx, pc, incoming, reports, asked, registered>>

-----------------------------------------------------------------------------
(***************************************************************************)
(* Installation                                                            *)
(***************************************************************************)

\* fota_on_install_authorize once the candidate-ready header is written
AfterReady(defer) ==
  IF defer /\ (ManComp[man] = Main \/ ResumeSupport = "resume")
  THEN /\ nvManifest' = IF ManComp[man] = Main THEN NoManifest ELSE nvManifest
       /\ ClearContext
       /\ pc' = "idle"
       /\ UNCHANGED reports
  ELSE IF defer
       THEN BeginAbort(TRUE) /\ UNCHANGED ctx
       ELSE /\ Report(src, "UPDATING", "install_component")
            /\ pc' = "idle"
            /\ resume' = "inactive"
            /\ UNCHANGED <<nvManifest, state, man, off, addr, hashOk>>

\* fota_on_install_authorize with write_candidate_ready
OnInstallAuthorize(defer) ==
  \/ /\ resume = "ongoing"
     /\ AfterReady(defer)
     /\ UNCHANGED <<cand, footer, budget>>
  \/ /\ resume # "ongoing"
     /\ cand' \in {Torn, ManComp[man]}
     /\ footer' = FALSE
     /\ pc' = IF defer THEN "ready_defer" ELSE "ready"
     /\ UNCHANGED <<nvManifest, ctx, reports, budget>>
  \/ /\ Fault("storage")
     /\ BeginAbort(TRUE)
     /\ UNCHANGED <<cand, footer, ctx>>

\* The candidate-ready header is complete.
ReadyDone ==
  /\ Running /\ pc \in {"ready", "ready_defer"}
  /\ cand' = ManComp[man]
  /\ footer' = TRUE
  /\ AfterReady(pc = "ready_defer")
  /\ UNCHANGED <<nvKey, hdr, slot, comps, incoming, event, asked, reqs, registered, halt, budget>>

\* install_component: the manifest is deleted before anything is installed.
InstallComponent(s) ==
  /\ nvManifest' = NoManifest
  /\ IF ManComp[man] = Main
     THEN Report(s, "REBOOTING", "on_reboot") /\ UNCHANGED pc
     ELSE src' = s /\ callback' = "none" /\ pc' = "install"

\* fota_candidate_iterate_image: the candidate is for this component and valid.
InstallableAnywhere == cand \in Components /\ hdr # Blank /\ ImageValid(hdr)
Installable == cand = ManComp[man] /\ hdr # Blank /\ ImageValid(hdr)

\* The candidate is validated, then the installer starts to write.
Iterate ==
  /\ Running /\ pc = "install"
  /\ IF Installable
     THEN /\ image' = [image EXCEPT ![ManComp[man]] = Broken]
          /\ pc' = "installing"
          /\ UNCHANGED <<nvManifest, reports>>
     ELSE BeginAbort(TRUE) /\ UNCHANGED image
  /\ UNCHANGED <<nvKey, store, records, ctx, incoming, event, asked, reqs, registered, halt, budget>>

\* The installer has failed half-way.
InstallerIgnored ==
  Fault("installer") /\ pc' = "verify" /\ UNCHANGED <<image, nvManifest, reports>>
InstallerFails ==
  Fault("installer") /\ BeginAbort(TRUE) /\ UNCHANGED image

\* The installer has finished, or has failed.
Installed ==
  /\ Running /\ pc = "installing"
  /\ \/ /\ image' = [image EXCEPT ![ManComp[man]] = hdr]
        /\ IF ManComp[man] \in NeedReboot
           THEN Report(src, "REBOOTING", "on_reboot") /\ pc' = "idle"
           ELSE pc' = "verify" /\ UNCHANGED reports
        /\ UNCHANGED <<nvManifest, budget>>
     \/ InstallerFails
  /\ UNCHANGED <<nvKey, store, records, ctx, incoming, event, asked, reqs, registered, halt>>

\* fota_install_verify of a component that needs no reboot
InstallVerify ==
  /\ Running /\ pc = "verify"
  /\ \/ InstallVerified(ManComp[man], ManVer[man])
     \/ InstallRefused(ManComp[man], ManVer[man])
  /\ pc' = "install_key"
  /\ UNCHANGED <<nvm, store, image, ctx, incoming, io, halt>>

\* The end of install_component: success is reported whatever fota_install_verify
\* returned, which only the application is told.
InstallFinish ==
  /\ Running /\ pc = "install_key"
  /\ nvKey' = FALSE
  /\ Report(SetValue(src, "OK"), "IDLE", "none")
  /\ asked' = "none"
  /\ ClearContext
  /\ pc' = "idle"
  /\ UNCHANGED <<nvManifest, store, comps, incoming, event, reqs, registered, halt, budget>>

-----------------------------------------------------------------------------
(***************************************************************************)
(* Event slot and application                                              *)
(***************************************************************************)

\* event_handler: the slot is freed, then the callback runs.
Dispatch ==
  /\ Idle /\ event # "none"
  /\ event' = "none"
  /\ \/ /\ event = "resume"
        /\ OnResume
        /\ UNCHANGED <<nvm, cand, footer, slot, halt, budget>>
     \/ /\ event \in {"authorize", "reject"}
        /\ \/ ~Active
           \/ event = "authorize" /\ state \notin {"await_download", "await_install"}
        /\ Halt(event)
        /\ UNCHANGED <<nvm, cand, footer, slot, ctx, pc, reports, budget>>
     \/ /\ event = "authorize" /\ state = "await_download"
        /\ OnDownloadAuthorize
        /\ UNCHANGED <<nvManifest, cand, footer, state, man, off, addr, hashOk, reports, halt, budget>>
     \/ /\ event \in {"authorize", "defer"} /\ state = "await_install"
        /\ OnInstallAuthorize(event = "defer")
        /\ UNCHANGED <<nvKey, slot, halt>>
     \/ /\ event = "defer" /\ state # "await_install"
        /\ IF Active THEN BeginAbort(FALSE) ELSE UNCHANGED <<nvManifest, reports, pc>>
        /\ UNCHANGED <<nvKey, cand, footer, slot, ctx, halt, budget>>
     \/ /\ event = "reject" /\ Active
        /\ BeginAbort(TRUE)
        /\ UNCHANGED <<nvKey, cand, footer, slot, ctx, halt, budget>>
     \/ /\ event = "fragment_failure"
        /\ IF Active THEN BeginAbort(TRUE) ELSE UNCHANGED <<nvManifest, reports, pc>>
        /\ UNCHANGED <<nvKey, cand, footer, slot, ctx, halt, budget>>
  /\ UNCHANGED <<hdr, comps, incoming, asked, reqs, registered>>

\* fota_app_authorize_update, fota_app_reject_update, fota_app_defer_update
AppAnswer(e) ==
  /\ Running /\ asked # "none"
  /\ asked' = "none"
  /\ Defer(e)
  /\ IF e = "defer" THEN Fault("defer") ELSE UNCHANGED budget
  /\ UNCHANGED <<nvm, store, comps, ctx, pc, incoming, reports, reqs, registered>>

-----------------------------------------------------------------------------
(***************************************************************************)
(* Notifications and registration                                          *)
(***************************************************************************)

\* The acknowledgement of the notification in flight arrives; socket events have
\* a higher priority than those of the update, so a queued event may wait behind it.
Acknowledged == Idle /\ registered /\ src.flight # "none"

\* A callback runs once.
KeepCallback == UNCHANGED callback
ForgetCallback == callback' = "none"

\* notification_status, delivered: the callback of the latest report runs.
Delivered ==
  /\ Acknowledged
  /\ LET s == [src EXCEPT !.flight = "none"]
     IN  \/ /\ callback = "none"
            /\ src' = s
            /\ UNCHANGED callback
            /\ UNCHANGED <<nvManifest, pc, asked, budget>>
         \/ /\ callback \in {"request_download_auth", "on_approve_state_delivered"}
            /\ asked' = IF callback = "request_download_auth" THEN "download" ELSE "install"
            /\ src' = s
            /\ ForgetCallback
            /\ UNCHANGED <<nvManifest, pc, budget>>
         \/ /\ callback = "install_component"
            /\ InstallComponent(s)
            /\ UNCHANGED <<asked, budget>>
  /\ UNCHANGED <<nvKey, store, comps, ctx, incoming, event, reqs, registered, halt>>

\* request_download_auth, on_approve_state_delivered: the application refuses the call.
AppCallbackFails ==
  /\ Acknowledged
  /\ callback \in {"request_download_auth", "on_approve_state_delivered"}
  /\ Fault("app")
  /\ Report(SetValue([src EXCEPT !.flight = "none"], "FAILED"), "IDLE", "none")
  /\ nvManifest' = NoManifest
  /\ pc' = "abort"
  /\ UNCHANGED <<nvKey, store, comps, ctx, incoming, event, asked, reqs, registered, halt>>

\* A failed delivery aborts the update whose report it was.
DeliveryAborts == callback # "none"

\* notification_status, send failed: M2MNsdlInterface keeps the notification for
\* the time after the reconnection it starts.
DeliveryFailed ==
  /\ Idle /\ src.flight # "none" /\ callback # "on_reboot"
  /\ Fault("notify")
  /\ LET aborted == DeliveryAborts
         s == IF aborted THEN SetValue(src, "PROCESSING_MANIFEST") ELSE src
     IN  /\ src' = [s EXCEPT !.flight = "none", !.queued = @ \cup {ResourceOf(src.flight)}]
         /\ pc' = IF aborted THEN "abort" ELSE pc
         /\ callback' = "none"
  /\ registered' = FALSE
  /\ UNCHANGED <<nvm, store, comps, ctx, incoming, event, asked, reqs, halt>>

\* M2MNsdlInterface::send_next_notification(false)
SendNext ==
  /\ Idle /\ registered /\ src.flight = "none"
  /\ \E r \in src.queued :
       src' = [src EXCEPT !.flight = IF r = "state" THEN src.state ELSE src.result,
                          !.queued = @ \ {r}]
  /\ UNCHANGED <<callback, nvm, store, comps, ctx, pc, incoming, event, asked, reqs, registered, halt, budget>>

\* fota_app_resume: dropped when the slot is taken
NoResumeEvent == UNCHANGED event
ResumeEvent == event' = IF event = "none" THEN "resume" ELSE event

Disconnect ==
  /\ Idle /\ registered
  /\ Fault("network")
  /\ registered' = FALSE
  /\ UNCHANGED <<nvm, store, comps, ctx, pc, incoming, reports, event, asked, reqs, halt>>

\* The registration, its update after a reconnection, or a periodic update; only
\* the updates that come while an update is active are counted.
RegistrationUpdated ==
  /\ Idle
  /\ registered' = TRUE
  /\ ResumeEvent
  /\ IF registered /\ Active THEN Fault("update") ELSE UNCHANGED budget
  /\ UNCHANGED <<nvm, store, comps, ctx, pc, incoming, reports, asked, reqs, halt>>

\* A full registration carries the state resource in its message, so
\* send_next_notification(true) forgets its notification without any status.
Registered ==
  /\ Idle /\ ~registered /\ "reregister" \in Faults
  /\ registered' = TRUE
  /\ src' = [src EXCEPT !.flight = "none",
                        !.queued = IF src.flight \in Results \/ "result" \in @
                                   THEN {"result"} ELSE {}]
  /\ ResumeEvent
  /\ UNCHANGED <<callback, nvm, store, comps, ctx, pc, incoming, asked, reqs, halt, budget>>

-----------------------------------------------------------------------------
(***************************************************************************)
(* Reset                                                                   *)
(***************************************************************************)

\* Everything volatile is lost; FotaInit fills the component table anew.
Restart ==
  /\ ClearContext
  /\ pc' = "boot"
  /\ incoming' = <<NoManifest, 0>>
  /\ src' = [state |-> "UNSET", result |-> "NO_RESULT", flight |-> "none", queued |-> {}]
  /\ callback' = "none"
  /\ event' = "none" /\ asked' = "none" /\ reqs' = {} /\ registered' = FALSE
  /\ halt' = "none"
  /\ UNCHANGED <<nvm, store, comps>>

\* on_reboot, the callback of both outcomes of the REBOOTING report
OnReboot ==
  /\ Idle /\ src.flight # "none" /\ callback = "on_reboot"
  /\ Restart
  /\ UNCHANGED budget

PowerLoss == Running /\ Fault("crash") /\ Restart

\* A halted device stays so until somebody cycles its power.
PowerCycle == ~Running /\ Restart /\ UNCHANGED budget

-----------------------------------------------------------------------------
Init ==
  /\ nvManifest = NoManifest /\ nvKey = FALSE
  /\ cand = Blank /\ footer = FALSE /\ hdr = Blank
  /\ slot = [k \in 1..Cap |-> Blank]
  /\ image = [c \in Components |-> Factory]
  /\ version = FactoryVer /\ nvVersion = FactoryVer /\ unrecorded = {}
  /\ state = "none" /\ resume = "inactive" /\ man = NoManifest
  /\ off = 0 /\ addr = 1 /\ hashOk = TRUE
  /\ pc = "boot"
  /\ incoming = <<NoManifest, 0>>
  /\ src = [state |-> "UNSET", result |-> "NO_RESULT", flight |-> "none", queued |-> {}]
  /\ callback = "none"
  /\ event = "none" /\ asked = "none" /\ reqs = {} /\ registered = FALSE
  /\ halt = "none"
  /\ budget = MaxFaults

Next ==
  \/ Bootloader \/ FotaInit \/ PostInstallVerify \/ PostInstallErase \/ PostInstallKey
  \/ \E m \in Manifests : GotManifest(m)
  \/ Parse \/ AbortKey
  \/ InsufficientStorage \/ NoResume \/ ResumeReady \/ ResumeBlocks
  \/ Erase \/ ProgramHeader
  \/ \E r \in reqs : OnFragment(r) \/ FragmentError(r)
  \/ ProgramDone \/ ProgramFails
  \/ ReadyDone \/ Iterate \/ Installed \/ InstallVerify \/ InstallFinish
  \/ Dispatch
  \/ \E e \in {"authorize", "reject", "defer"} : AppAnswer(e)
  \/ Delivered \/ AppCallbackFails \/ DeliveryFailed \/ SendNext
  \/ Disconnect \/ RegistrationUpdated \/ Registered
  \/ OnReboot \/ PowerLoss \/ PowerCycle

Spec == Init /\ [][Next]_vars

-----------------------------------------------------------------------------
States == {"none", "idle", "await_download", "downloading", "await_install"}
PCs == {"idle", "boot", "init", "post_install", "post_erase", "post_key", "post_key_failed",
        "parse", "abort", "storage", "erase", "header", "program", "ready", "ready_defer",
        "install", "installing", "verify", "install_key"}

FlagTypes ==
  /\ nvKey \in BOOLEAN
  /\ footer \in BOOLEAN
  /\ hashOk \in BOOLEAN
  /\ registered \in BOOLEAN

ValueTypes ==
  /\ nvManifest \in Manifests \cup {NoManifest}
  /\ cand \in Components \cup {Blank, Torn}
  /\ hdr \in Manifests \cup {Blank}
  /\ slot \in [1..Cap -> Block \cup {Blank, Torn}]
  /\ image \in [Components -> Manifests \cup {Factory, Broken}]
  /\ version \in [Components -> Nat]
  /\ nvVersion \in [Components -> Nat]
  /\ unrecorded \subseteq Components
  /\ state \in States
  /\ resume \in {"inactive", "started", "ongoing"}
  /\ man \in Manifests \cup {NoManifest}
  /\ off \in Nat /\ addr \in 1..(Cap + 1)
  /\ pc \in PCs
  /\ incoming \in (Manifests \cup {NoManifest}) \X Nat
  /\ src \in Source
  /\ callback \in Callbacks
  /\ event \in {"none", "resume", "authorize", "reject", "defer", "fragment_failure"}
  /\ asked \in {"none", "download", "install"}
  /\ reqs \subseteq Manifests \X Nat
  /\ halt \in {"none", "event", "manifest", "authorize", "reject"}
  /\ budget \in Nat

\* Types of all variables; in particular storage_addr never leaves the candidate area.
TypeOK == FlagTypes /\ ValueTypes

-----------------------------------------------------------------------------
(***************************************************************************)
(* Properties                                                              *)
(***************************************************************************)

\* Whatever is lost, torn or resumed, the image a component runs comes from a
\* manifest that fota_manifest_parse accepted and that addresses this component:
\* the checks of the candidate make up for a resume that adopts a foreign one.
InstalledIsAuthentic ==
  \A c \in Components :
    image[c] \in Manifests => image[c] \in ManAuthentic /\ ManComp[image[c]] = c

\* request_download_auth, on_approve_state_delivered, install_component and
\* on_reboot dereference fota_ctx: none is left registered with fota_source when
\* abort_update or update_cleanup has freed the context.
CallbackHasContext == callback # "none" => Active

\* A report is made only when no callback of an earlier one is pending, which
\* report_int asserts (FOTA_DBG_ASSERT(!g_on_sent_callback)) and never checks in a
\* release build: a callback overwritten would leave its update waiting for ever.
ReportSlotFree ==
  pc # "idle" \/ event \in {"authorize", "reject", "defer", "fragment_failure"} => callback = "none"

\* The fragment that is outstanding is the next one of the running download, so
\* fota_on_fragment never appends a block that belongs to another offset, or to
\* an update that has been aborted.
RequestIsNext == reqs # {} => state = "downloading" /\ reqs = {<<man, off + 1>>}

\* An authorization the application still owes is the one the engine waits for.
QuestionFitsState ==
  asked # "none" => state = IF asked = "download" THEN "await_download" ELSE "await_install"

\* The answer of the application finds its update: FOTA_ASSERT(fota_ctx) and the
\* state check of fota_on_authorize and fota_on_reject do not stop the device.
AnswerHasContext == halt \notin {"authorize", "reject"}

\* The download position and the storage agree, resumed or not: as many good
\* blocks lie before storage_addr as have been received, and the slots that the
\* rest will take are erased.
DownloadConsistent ==
  state = "downloading" /\ pc = "idle" =>
    /\ off = GoodUpTo(addr - 1)
    /\ \A k \in addr..(addr + ManBlocks[man] - off - 1) : k <= Cap => slot[k] = Blank

\* Fragments are programmed inside the candidate storage area.
WithinStorage == pc = "program" => addr <= Slots

\* The persisted manifest is the one being processed, so that after a reset
\* fota_on_resume takes up the interrupted update and no other.
OneUpdate == Active /\ pc # "abort" => nvManifest \in {NoManifest, man}

\* The firmware header that the bootloader and the installer will read describes
\* the update that is being downloaded or installed.
HeaderMatchesUpdate == state \in {"downloading", "await_install"} => hdr = man

\* A complete candidate-ready header names the component of the image behind it.
ReadyNamesHeader == cand \in Components /\ footer => hdr # Blank /\ ManComp[hdr] = cand

\* With no update under way the version that the next manifest is compared with is not
\* above the one that runs.  Only where fota_install_verify has failed may it be below,
\* and for the main component where the printed form of the version loses digits.
VersionRecorded ==
  pc = "idle" /\ ~Active /\ ~nvKey =>
    \A c \in Components : image[c] # Broken =>
      LET running == VersionOf(c, image[c])
      IN  /\ version[c] <= running
          /\ c # Main /\ c \notin unrecorded => version[c] = running /\ nvVersion[c] = running
          /\ c = Main => version[c] \in {running, Reprinted[running]}

\* An image that is put in place, by the bootloader or by an installer, is newer than
\* the version that a start would register for its component, however old the update
\* is, and the recorded version of a component never goes back.
NoRollback ==
  [][\A c \in Components :
       /\ image'[c] \notin {image[c], Broken} => VersionOf(c, image'[c]) > BootVersion(c)
       /\ c # Main => nvVersion'[c] >= nvVersion[c]]_vars

\* A manifest is removed from the NVM only by a step that sets the result to failed, or
\* when its image is complete and marked ready to install.  The result is volatile: a
\* power loss, or the next manifest, may wipe it out before the service has seen it.
RemovalSettled ==
  [][nvManifest # NoManifest /\ nvManifest' = NoManifest =>
       \/ src'.result = "FAILED"
       \/ cand' = ManComp[nvManifest] /\ footer' /\ hdr' = nvManifest /\ ImageValid(hdr)']_vars

\* FW_UPDATE_OK is reported only when the component runs the image of the manifest.  Its
\* version need not be recorded, if fota_install_verify has failed.
TruthfulSuccess ==
  [][src.result # "OK" /\ src'.result = "OK" =>
       /\ image'[ManComp[man]] = man
       /\ ManComp[man] \in unrecorded' \/ nvVersion'[ManComp[man]] = ManVer[man]]_vars

\* The image of the main component is not replaced by an older one.
NeverOlder ==
  [][image'[Main] # image[Main] => VersionOf(Main, image'[Main]) > VersionOf(Main, image[Main])]_vars

\* FW_UPDATE_OK is reported only when the version of the update is recorded.
SuccessRecorded ==
  [][src.result # "OK" /\ src'.result = "OK" =>
       nvVersion'[ManComp[man]] = ManVer[man]]_vars

\* fota_event_handler_defer_with_result never finds its slot taken.
EventSlotFree == halt # "event"

\* The manifest callback verifies that no update is active.
ManifestFindsIdle == halt # "manifest"

\* Every update comes to an end, whatever faults hit it: the manifest is removed
\* and the engine is ready for the next one.
UpdateConcludes ==
  (Active \/ nvManifest # NoManifest) ~> (~Active /\ nvManifest = NoManifest)

-----------------------------------------------------------------------------
(***************************************************************************)
(* Fairness.  The event loop runs every handler that is due, the service   *)
(* acknowledges notifications and delivers fragments while the client is   *)
(* registered, the client registers again after a disconnection and        *)
(* renews its registration, the application answers what it is asked and   *)
(* somebody resets a halted device.                                        *)
(***************************************************************************)
Handlers ==
  \/ Bootloader \/ FotaInit \/ PostInstallVerify \/ PostInstallErase \/ PostInstallKey
  \/ Parse \/ AbortKey
  \/ InsufficientStorage \/ NoResume \/ ResumeReady \/ ResumeBlocks
  \/ Erase \/ ProgramHeader \/ ProgramDone \/ ProgramFails
  \/ ReadyDone \/ Iterate \/ Installed \/ InstallVerify \/ InstallFinish

Fairness ==
  /\ WF_vars(Handlers)
  /\ WF_vars(Dispatch)
  /\ WF_vars(AppAnswer("authorize") \/ AppAnswer("reject"))
  /\ WF_vars(Delivered \/ OnReboot)
  /\ WF_vars(SendNext)
  /\ WF_vars(\E r \in reqs : OnFragment(r))
  /\ WF_vars(RegistrationUpdated \/ Registered)
  /\ WF_vars(PowerCycle)

FairSpec == Spec /\ Fairness
=============================================================================
