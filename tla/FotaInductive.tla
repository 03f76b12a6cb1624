--------------------------- MODULE FotaInductive ---------------------------
(***************************************************************************)
(* The inductive invariant of module Fota from which FotaProofs derives    *)
(* its safety properties.  None of those properties is inductive by        *)
(* itself; this module says what else is true of every reachable state.    *)
(***************************************************************************)
EXTENDS Fota

\* The answers of the application.
Answers == {"authorize", "reject", "defer"}

\* The point that the running handler has reached determines the update state.
PcMatchesState ==
  /\ pc \in {"boot", "init", "post_install", "post_erase", "post_key", "post_key_failed"} =>
       state = "none"
  /\ pc = "parse" => state = "idle"
  /\ pc \in {"storage", "erase", "header"} => state = "await_download"
  /\ pc = "program" => state = "downloading"
  /\ pc \in {"ready", "ready_defer", "install", "installing", "verify", "install_key"} =>
       state = "await_install"
  /\ pc \in {"ready", "ready_defer"} => resume # "ongoing"
  /\ pc = "abort" => state # "none"
  /\ pc = "idle" => state # "idle"

\* The context has a manifest, from Parse on an authentic one, and the installer
\* has a header.
ContextHasManifest ==
  /\ state # "none" => man \in Manifests
  /\ pc = "installing" => hdr # Blank
  /\ state \in {"await_download", "downloading", "await_install"} => man \in ManAuthentic

\* While the engine waits for the service or the application there is exactly one
\* thing it waits for: a pending callback, an unanswered question or an answer
\* that has not been dispatched.
OneToken ==
  /\ callback # "none" =>
       /\ pc = "idle"
       /\ state = IF callback = "request_download_auth" THEN "await_download" ELSE "await_install"
  /\ asked # "none" =>
       /\ pc = "idle" /\ callback = "none"
       /\ state = IF asked = "download" THEN "await_download" ELSE "await_install"
  /\ event \in Answers =>
       /\ pc = "idle" /\ callback = "none" /\ asked = "none"
       /\ state \in {"await_download", "await_install"}

\* A running download waits for one fragment or for the news that it failed.
OneFragment ==
  /\ reqs # {} => state = "downloading" /\ pc = "idle" /\ reqs = {<<man, off + 1>>}
  /\ event = "fragment_failure" => state = "downloading" /\ pc = "idle" /\ reqs = {}
  /\ pc = "program" => incoming = <<man, off + 1>>

\* The blocks that are still to come fit behind the storage address.
SpaceLeft ==
  /\ state \in {"none", "idle", "await_download"} /\ pc # "abort" => off = 0 /\ addr = 1
  /\ pc \in {"erase", "header"} => ManBlocks[man] <= Slots
  /\ state = "downloading" /\ pc # "abort" =>
       /\ off < ManBlocks[man]
       /\ addr + (ManBlocks[man] - off) <= Cap + 1

Sequencing ==
  /\ PcMatchesState
  /\ ContextHasManifest
  /\ OneToken
  /\ OneFragment
  /\ SpaceLeft
  /\ AnswerHasContext
  /\ OneUpdate

ControlInv == TypeOK /\ Sequencing

\* The first good slot up to n holds a block of m.
FirstBlockOf(m, n) ==
  \E k \in 1..n : Good(k) /\ slot[k][1] = m /\ \A j \in 1..(k - 1) : ~Good(j)

\* A download whose hash is right so far.
Storing == state = "downloading" /\ pc # "abort" /\ hashOk

\* A downloaded and verified candidate that is not yet marked ready.
Verified ==
  /\ state = "await_install" /\ resume # "ongoing"
  /\ \/ pc \in {"ready", "ready_defer"}
     \/ asked = "install" \/ event \in Answers \/ callback = "on_approve_state_delivered"

\* What has been stored of a download begins with its own blocks, though the
\* header in front of them may be that of another update.
BlocksAreOwn ==
  /\ Storing => (\A j \in 1..(addr - 1) : ~Good(j)) \/ FirstBlockOf(man, addr - 1)
  /\ Verified => FirstBlockOf(man, Cap)

\* A candidate that names a component and whose image is valid is an image for
\* that component.
CandidateFits == cand \in Components /\ hdr # Blank /\ ImageValid(hdr) => ManComp[hdr] = cand

HeaderInv ==
  /\ hdr # Blank => hdr \in ManAuthentic
  /\ state = "downloading" \/ pc = "header" => cand = Blank
  /\ pc = "installing" => ManComp[hdr] = ManComp[man]

ImageInv == BlocksAreOwn /\ CandidateFits /\ HeaderInv /\ InstalledIsAuthentic

IInv == ControlInv /\ ImageInv

-----------------------------------------------------------------------------
(***************************************************************************)
(* What is stored of a download.                                           *)
(***************************************************************************)

\* The slot that is being programmed, or the first one that is not yet.
Unwritten == IF pc = "program" THEN addr + 1 ELSE addr

\* Blocks are programmed one behind the other, so an erased slot is followed by
\* erased ones only.
ErasedSuffix == \A j, k \in 1..Cap : j < k /\ slot[j] = Blank => slot[k] = Blank

\* With resume support the slots before storage_addr are all used, good or torn,
\* and as many are good as fragments have been counted; those behind are erased.
ResumeDownload ==
  /\ ErasedSuffix
  /\ pc = "header" => \A k \in 1..Cap : slot[k] = Blank
  /\ state = "downloading" /\ pc # "abort" =>
       /\ off = GoodUpTo(addr - 1)
       /\ \A k \in 1..(addr - 1) : slot[k] # Blank
       /\ \A k \in Unwritten..Cap : slot[k] = Blank

\* The image of m is stored in the first slots, without gaps.
Stored(m) == ManBlocks[m] <= Slots /\ \A k \in 1..ManBlocks[m] : slot[k] = <<m, k>>

\* Without it every download starts at the first slot of an erased area, and what
\* waits for its installation is stored there.
RestartDownload ==
  /\ pc = "header" => \A k \in 1..ManBlocks[man] : slot[k] = Blank
  /\ state = "downloading" /\ pc # "abort" =>
       /\ addr = off + 1 /\ ManBlocks[man] <= Slots
       /\ \A k \in 1..off : slot[k] = <<man, k>>
       /\ \A k \in Unwritten..ManBlocks[man] : slot[k] = Blank
  /\ state = "await_install" => Stored(man)

\* The points of install_component behind the deletion of the manifest.
Installing == {"install", "installing", "verify", "install_key"}

\* Without resume support nothing of an earlier update is adopted: the header, the
\* candidate and the key are those of the update being processed.
RestartControl ==
  /\ resume # "ongoing"
  /\ pc \in {"storage", "erase", "header"} => resume = "inactive"
  /\ pc \in {"storage", "erase", "header"} \/ state \in {"downloading", "await_install"} => nvKey
  /\ HeaderMatchesUpdate
  /\ ReadyNamesHeader
  /\ callback \in {"install_component", "on_reboot"} \/ pc \in Installing =>
       cand = ManComp[man] /\ footer
  /\ callback = "on_reboot" \/ pc \in Installing => nvManifest = NoManifest

\* What has been installed is what was downloaded, and is then recorded unless
\* fota_install_verify fails.
RestartInstall ==
  /\ pc \in {"verify", "install_key"} => image[ManComp[man]] = man
  /\ pc = "install_key" =>
       ManComp[man] \in unrecorded \/ nvVersion[ManComp[man]] = ManVer[man]

RestartInv == RestartControl /\ RestartDownload /\ RestartInstall

\* Component c runs an image whose version the next boot, or fota_install_verify,
\* is going to record.
Pending(c) ==
  /\ nvKey /\ nvManifest = NoManifest
  /\ cand = c /\ hdr = image[c]
  /\ pc \in {"boot", "init", "post_install", "verify"} \/ callback = "on_reboot"

\* A candidate names the component of a complete image that is not older than what a
\* start registers; the bootloader has installed that of the main component, or will
\* install it, and then it is newer.
CandidateInv ==
  /\ cand \in Components =>
       hdr # Blank /\ ManComp[hdr] = cand /\ Stored(hdr) /\ ManVer[hdr] >= BootVersion(cand)
  /\ cand = Main => image[Main] = hdr \/ ManVer[hdr] > BootVersion(Main)
  /\ cand = Main /\ pc \in {"init", "post_install"} => image[Main] = hdr

\* An accepted update is newer than the version of its component in the table, which is
\* not below the recorded one; that of the main component is right, or printed wrong,
\* once fota_init has run.
NewerInv ==
  /\ state \in {"await_download", "downloading", "await_install"} /\ pc # "install_key" =>
       ManVer[man] > version[ManComp[man]]
  /\ pc \in Installing => ManComp[man] # Main
  /\ image[Main] # Broken
  /\ \A c \in Components \ {Main} : version[c] >= nvVersion[c]
  /\ pc \notin {"boot", "init"} =>
       version[Main] \in {VersionOf(Main, image[Main]), BootVersion(Main)}

VersionInv == CandidateInv /\ NewerInv

\* What another component runs is recorded or about to be, unless fota_install_verify
\* has failed, and is never older than what is recorded.
RecordInv ==
  \A c \in Components \ {Main} :
    image[c] # Broken =>
      /\ version[c] <= VersionOf(c, image[c])
      /\ c \in unrecorded \/ nvVersion[c] = VersionOf(c, image[c]) \/ Pending(c)
=============================================================================
