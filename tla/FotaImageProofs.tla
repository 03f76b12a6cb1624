--------------------------- MODULE FotaImageProofs ---------------------------
(***************************************************************************)
(* Machine-checked proof that a component never runs an image that no      *)
(* accepted manifest describes for it.  The argument rests on the first    *)
(* block of the candidate: a header that another update has left in front  *)
(* of the blocks fails the digest, because the first block it finds is not *)
(* its own.                                                                *)
(*                                                                         *)
(* The second half is about what is stored of a download, for builds with  *)
(* and without resume support, and, for builds without, about what is      *)
(* reported of an update and which versions are recorded and installed.    *)
(***************************************************************************)
EXTENDS FotaProofs

-----------------------------------------------------------------------------
(***************************************************************************)
(* The first block                                                         *)
(***************************************************************************)

\* Good slots are counted only where there are some.
LEMMA SomeGood ==
  ASSUME NEW n \in Int, GoodUpTo(n) # 0
  PROVE  \E j \in 1..n : Good(j)
<1>1. SUFFICES ASSUME \A j \in 1..n : ~Good(j) PROVE FALSE
  OBVIOUS
<1>2. {j \in 1..n : Good(j)} = {}
  BY <1>1
<1> QED BY <1>2, FS_EmptySet DEF GoodUpTo

\* The first good slot is the first block.
LEMMA FirstGood ==
  ASSUME NEW k \in Nat \ {0}, Good(k), \A j \in 1..(k - 1) : ~Good(j)
  PROVE  GoodUpTo(k) = 1
<1>1. {j \in 1..k : Good(j)} = {k}
  OBVIOUS
<1> QED BY <1>1, FS_Singleton DEF GoodUpTo

\* Where there is a good slot there is a first one.
LEMMA LeastGood ==
  ASSUME NEW n \in Int, \E j \in 1..n : Good(j)
  PROVE  \E k \in 1..n : Good(k) /\ \A j \in 1..(k - 1) : ~Good(j)
<1> DEFINE T == {j \in 1..n : Good(j)}
<1>1. PICK k \in T : \A y \in T : k <= y
  <2>1. T \subseteq Nat /\ T # {}
    OBVIOUS
  <2> QED BY <2>1, LeastNat
<1> QED BY <1>1

\* The blocks of a valid image begin with a block of this image.
LEMMA ValidImageIsOwn ==
  ASSUME NEW m, NEW h \in Manifests, FirstBlockOf(m, Cap), ImageValid(h)
  PROVE  h = m
<1>1. PICK k \in 1..Cap : Good(k) /\ slot[k][1] = m /\ \A j \in 1..(k - 1) : ~Good(j)
  BY DEF FirstBlockOf
<1>2. Slots \in Nat /\ ManBlocks[h] \in Nat /\ ManBlocks[h] >= 1 /\ k \in Nat \ {0}
  BY StorageAssumption, ManifestAssumption DEF Cap
<1>3. GoodUpTo(Slots) # 0
  BY <1>2, GoodUpToType DEF ImageValid
<1>4. PICK j \in 1..Slots : Good(j)
  BY <1>2, <1>3, SomeGood
<1>5. k \in 1..Slots
  BY <1>1, <1>2, <1>4
<1>6. GoodUpTo(k) = 1
  BY <1>1, <1>2, FirstGood
<1>7. slot[k] = <<h, 1>>
  BY <1>1, <1>2, <1>5, <1>6 DEF ImageValid
<1> QED BY <1>1, <1>7

\* The blocks that analyze_resume_state has hashed begin with a block of m.
LEMMA PrefixIsOwn ==
  ASSUME NEW m, NEW k \in Nat \ {0}, PrefixOf(m, k), \E j \in 1..(k - 1) : Good(j)
  PROVE  FirstBlockOf(m, k - 1)
<1>1. PICK j \in 1..(k - 1) : Good(j) /\ \A i \in 1..(j - 1) : ~Good(i)
  BY LeastGood
<1>2. GoodUpTo(j) = 1
  BY <1>1, FirstGood
<1>3. slot[j] = <<m, 1>>
  BY <1>1, <1>2 DEF PrefixOf
<1> QED BY <1>1, <1>3 DEF FirstBlockOf

\* More slots behind do not change the first block.
LEMMA FirstBlockWiden ==
  ASSUME NEW m, NEW n \in Int, NEW p \in Int, n <= p, FirstBlockOf(m, n)
  PROVE  FirstBlockOf(m, p)
BY DEF FirstBlockOf

-----------------------------------------------------------------------------
(***************************************************************************)
(* Installed images                                                        *)
(***************************************************************************)

\* A step that leaves the slots alone and makes no key makes no image valid.
LEMMA ImageKept ==
  ASSUME slot' = slot, nvKey' => nvKey, NEW h, ImageValid(h)'
  PROVE  ImageValid(h)
<1>1. \A k : Good(k)' = Good(k)
  BY DEF Good
<1>2. \A k : GoodUpTo(k)' = GoodUpTo(k)
  BY <1>1 DEF GoodUpTo
<1>3. Encryption => nvKey
  BY DEF ImageValid
<1> QED BY <1>1, <1>2, <1>3 DEF ImageValid

\* A step that leaves the storage alone and starts no download or installation.
Quiet ==
  /\ UNCHANGED <<cand, hdr, slot>>
  /\ nvKey' => nvKey
  /\ Storing' => Storing /\ UNCHANGED <<man, addr>>
  /\ Verified' => Verified /\ UNCHANGED man
  /\ state' = "downloading" => state = "downloading"
  /\ pc' = "header" => pc = "header"
  /\ pc' = "installing" => pc = "installing" /\ UNCHANGED man

\* Such a step keeps the invariant of the storage.
LEMMA StorageKept ==
  ASSUME ImageInv, Quiet
  PROVE  BlocksAreOwn' /\ CandidateFits' /\ HeaderInv'
<1> USE DEF Quiet
<1>1. \A k : Good(k)' = Good(k)
  BY DEF Good
<1>2. \A m, n : FirstBlockOf(m, n)' = FirstBlockOf(m, n)
  BY <1>1 DEF FirstBlockOf
<1>3. BlocksAreOwn'
  BY <1>1, <1>2 DEF ImageInv, BlocksAreOwn
<1>4. CandidateFits'
  BY ImageKept DEF ImageInv, CandidateFits
<1>5. HeaderInv'
  BY DEF ImageInv, HeaderInv
<1> QED BY <1>3, <1>4, <1>5

\* If it leaves the images alone, too, it keeps the whole invariant.
LEMMA Frame ==
  ASSUME ImageInv, Quiet, UNCHANGED image
  PROVE  ImageInv'
<1>1. InstalledIsAuthentic'
  BY DEF ImageInv, InstalledIsAuthentic
<1> QED BY <1>1, StorageKept DEF ImageInv

\* Blocks written behind storage_addr do not change what is stored before it.
LEMMA SlotsBelow ==
  ASSUME NEW n \in Int, \A j \in 1..n : slot'[j] = slot[j]
  PROVE  /\ \A j \in 1..n : Good(j)' = Good(j)
         /\ \A m : FirstBlockOf(m, n) =>
              \E k \in 1..n : /\ Good(k)' /\ slot'[k][1] = m
                              /\ \A j \in 1..(k - 1) : ~Good(j)'
<1>1. \A j \in 1..n : Good(j)' = Good(j)
  BY DEF Good
<1> QED BY <1>1 DEF FirstBlockOf

\* write_candidate_ready names the component of the image behind the header: if that
\* image is valid it is the one that was downloaded.
LEMMA ReadyFits ==
  ASSUME ImageInv, ControlInv, UNCHANGED <<hdr, slot, nvKey>>, cand' = ManComp[man],
         Verified, man \in Manifests
  PROVE  CandidateFits'
<1>1. SUFFICES ASSUME hdr # Blank, ImageValid(hdr)' PROVE ManComp[hdr] = ManComp[man]
  BY DEF CandidateFits
<1>2. ImageValid(hdr)
  BY <1>1, ImageKept
<1>3. hdr \in Manifests /\ FirstBlockOf(man, Cap)
  BY <1>1 DEF ImageInv, BlocksAreOwn, ControlInv, TypeOK, ValueTypes
<1> QED BY <1>2, <1>3, ValidImageIsOwn

\* A new key makes no image valid: with encryption no block can be read any more,
\* without it the key plays no part.
LEMMA RekeyFits ==
  ASSUME ControlInv, CandidateFits, OnDownloadAuthorize, UNCHANGED <<cand, hdr>>
  PROVE  CandidateFits'
<1>1. SUFFICES ASSUME cand \in Components, hdr # Blank, ImageValid(hdr)'
               PROVE  ManComp[hdr] = cand
  BY DEF CandidateFits
<1>2. CASE Encryption /\ ~Reload
  <2>1. \A k \in 1..Cap : ~Good(k)'
    BY <1>2 DEF OnDownloadAuthorize, Rekeyed, Good
  <2>2. \A k \in 1..Slots : ~Good(k)'
    BY <2>1, StorageAssumption DEF Cap
  <2>3. {k \in 1..Slots : Good(k)'} = {}
    BY <2>2
  <2>4. GoodUpTo(Slots)' = 0
    BY <2>3, FS_EmptySet DEF GoodUpTo
  <2>5. hdr \in Manifests
    BY <1>1 DEF ControlInv, TypeOK, ValueTypes
  <2>6. ManBlocks[hdr] \in Nat /\ ManBlocks[hdr] > 0
    BY <2>5, ManifestAssumption
  <2> QED BY <1>1, <2>4, <2>6 DEF ImageValid
<1>3. CASE ~Encryption \/ Reload
  <2>1. slot' = slot /\ (Encryption => nvKey)
    BY <1>3 DEF OnDownloadAuthorize, Rekeyed, Reload
  <2>2. \A k : GoodUpTo(k)' = GoodUpTo(k) /\ Good(k)' = Good(k)
    BY <2>1 DEF GoodUpTo, Good
  <2>3. ImageValid(hdr)
    BY <1>1, <2>1, <2>2 DEF ImageValid
  <2> QED BY <1>1, <2>3 DEF CandidateFits
<1> QED BY <1>2, <1>3

\* Every step keeps the invariant of the storage and of the images.
LEMMA ImageStep ==
  ASSUME ControlInv, ImageInv, [Next]_vars
  PROVE  ImageInv'
<1> USE DEF ControlInv, Sequencing, PcMatchesState, ContextHasManifest, OneToken, OneFragment,
            Running, Idle, Active, Halt, Answers, nvm, store, comps, records, ctx, reports, io
<1>q. ASSUME Quiet, UNCHANGED image PROVE ImageInv'
  BY <1>q, Frame
<1> USE DEF Quiet, Storing, Verified
<1>1. CASE Bootloader
  <2>1. cand = Main /\ hdr # Blank /\ ImageValid(hdr) => hdr \in ManAuthentic /\ ManComp[hdr] = Main
    BY ComponentAssumption DEF ImageInv, CandidateFits, HeaderInv
  <2>2. InstalledIsAuthentic'
    BY <1>1, <2>1, ComponentAssumption DEF Bootloader, ImageInv, InstalledIsAuthentic, TypeOK, ValueTypes
  <2>3. BlocksAreOwn' /\ CandidateFits' /\ HeaderInv'
    <3>1. Quiet
      BY <1>1 DEF Bootloader
    <3> QED BY <3>1, StorageKept
  <2> QED BY <2>2, <2>3 DEF ImageInv
<1>2. CASE FotaInit
  BY <1>2, <1>q DEF FotaInit
<1>3. CASE PostInstallVerify
  BY <1>3, <1>q DEF PostInstallVerify
<1>4. CASE PostInstallErase
  <2>1. CandidateFits'
    BY <1>4, StorageAssumption, ImageKept DEF PostInstallErase, EraseHeaders, ImageInv, CandidateFits
  <2>2. HeaderInv' /\ InstalledIsAuthentic'
    BY <1>4 DEF PostInstallErase, EraseHeaders, ImageInv, HeaderInv, InstalledIsAuthentic
  <2>3. BlocksAreOwn'
    BY <1>4 DEF PostInstallErase, BlocksAreOwn
  <2> QED BY <2>1, <2>2, <2>3 DEF ImageInv
<1>5. CASE PostInstallKey
  BY <1>5, <1>q DEF PostInstallKey, Report
<1>6. CASE \E m \in Manifests : GotManifest(m)
  BY <1>6, <1>q DEF GotManifest, HandleManifest
<1>7. CASE Parse
  BY <1>7, <1>q DEF Parse, Report, BeginAbort
<1>8. CASE AbortKey
  BY <1>8, <1>q DEF AbortKey, ClearContext
<1>9. CASE InsufficientStorage
  BY <1>9, <1>q DEF InsufficientStorage, BeginAbort, Report
<1>9a. CASE ProgramFails
  BY <1>9a, <1>q DEF ProgramFails, BeginAbort, Report
<1>10. CASE NoResume
  BY <1>10, <1>q DEF NoResume, StorageFits
<1>11. CASE ResumeReady
  BY <1>11, <1>q DEF ResumeReady, Finalize, StorageFits, Report, BeginAbort
<1>12. CASE ResumeBlocks
  <2> PICK k \in 1..(Cap + 1) :
             /\ StopsAt(k)
             /\ addr' = k
             /\ hashOk' = PrefixOf(man, k)
             /\ BlocksLeft(k) = 0 => Finalize(PrefixOf(man, k))
             /\ BlocksLeft(k) # 0 => state' = "downloading"
    BY <1>12 DEF ResumeBlocks
  <2>1. /\ UNCHANGED <<cand, hdr, slot, image, nvKey, man>> /\ cand = Blank
        /\ pc = "storage" /\ state = "await_download" /\ man \in Manifests
    BY <1>12 DEF ResumeBlocks, StorageFits
  <2>2. k \in Nat \ {0} /\ Cap \in Nat /\ k - 1 <= Cap /\ GoodUpTo(k - 1) \in Nat
    BY StorageAssumption, GoodUpToType DEF Cap
  <2>3. /\ \A j : Good(j)' = Good(j)
        /\ \A m, n : FirstBlockOf(m, n)' = FirstBlockOf(m, n)
    BY <2>1 DEF Good, FirstBlockOf
  <2>4. PrefixOf(man, k) => (\A j \in 1..(k - 1) : ~Good(j)) \/ FirstBlockOf(man, k - 1)
    BY <2>2, PrefixIsOwn
  <2>5. CASE BlocksLeft(k) = 0
    <3>1. GoodUpTo(k - 1) # 0
      BY <2>1, <2>2, <2>5, ManifestAssumption DEF BlocksLeft
    <3>2. \E j \in 1..(k - 1) : Good(j)
      BY <2>2, <3>1, SomeGood
    <3>3. PrefixOf(man, k) => FirstBlockOf(man, Cap)
      BY <2>2, <3>2, PrefixIsOwn, FirstBlockWiden
    <3>4. /\ state' # "downloading" /\ pc' \notin {"header", "installing"}
          /\ state' = "await_install" => PrefixOf(man, k)
      BY <2>1, <2>5 DEF Finalize, BeginAbort
    <3>5. BlocksAreOwn'
      BY <2>1, <2>3, <3>3, <3>4 DEF BlocksAreOwn
    <3>6. HeaderInv' /\ InstalledIsAuthentic'
      BY <2>1, <3>4 DEF ImageInv, HeaderInv, InstalledIsAuthentic
    <3>7. CandidateFits'
      BY <2>1, StorageAssumption DEF CandidateFits
    <3> QED BY <3>5, <3>6, <3>7 DEF ImageInv
  <2>6. CASE BlocksLeft(k) # 0
    <3>1. state' = "downloading" /\ pc' = "idle"
      BY <1>12, <2>6 DEF ResumeBlocks
    <3>2. BlocksAreOwn'
      BY <2>1, <2>3, <2>4, <3>1 DEF BlocksAreOwn
    <3>3. HeaderInv' /\ InstalledIsAuthentic'
      BY <2>1, <3>1 DEF ImageInv, HeaderInv, InstalledIsAuthentic
    <3>4. CandidateFits'
      BY <2>1, StorageAssumption DEF CandidateFits
    <3> QED BY <3>2, <3>3, <3>4 DEF ImageInv
  <2> QED BY <2>5, <2>6
<1>13. CASE Erase
  <2>1. CASE BeginAbort(TRUE) /\ UNCHANGED store
    BY <1>13, <2>1, <1>q DEF Erase, BeginAbort
  <2>2. CASE EraseHeaders /\ pc' = "header"
    <3>1. CandidateFits'
      BY <2>2, StorageAssumption DEF EraseHeaders, CandidateFits
    <3>2. HeaderInv' /\ InstalledIsAuthentic'
      BY <1>13, <2>2 DEF Erase, EraseHeaders, ImageInv, HeaderInv, InstalledIsAuthentic
    <3>3. BlocksAreOwn'
      BY <1>13, <2>2 DEF Erase, BlocksAreOwn
    <3> QED BY <3>1, <3>2, <3>3 DEF ImageInv
  <2> QED BY <1>13, <2>1, <2>2 DEF Erase
<1>14. CASE ProgramHeader
  <2>1. cand = Blank /\ cand' = Blank /\ man \in ManAuthentic /\ addr' = 1 /\ hdr' = man
    BY <1>14 DEF ProgramHeader, ImageInv, HeaderInv, SpaceLeft
  <2>2. state' = "downloading" /\ pc' = "idle"
    BY <1>14 DEF ProgramHeader
  <2>3. CandidateFits'
    BY <2>1, StorageAssumption DEF CandidateFits
  <2>4. HeaderInv' /\ InstalledIsAuthentic'
    BY <1>14, <2>1, <2>2 DEF ProgramHeader, ImageInv, HeaderInv, InstalledIsAuthentic
  <2>5. BlocksAreOwn'
    BY <2>1, <2>2 DEF BlocksAreOwn
  <2> QED BY <2>3, <2>4, <2>5 DEF ImageInv
<1>15. CASE \E r \in reqs : OnFragment(r)
  <2>1. PICK r \in reqs : OnFragment(r)
    BY <1>15
  <2>2. CASE slot' = slot
    BY <2>1, <2>2, <1>q DEF OnFragment, BeginAbort, TypeOK, ValueTypes
  <2>3. CASE slot' = [slot EXCEPT ![addr] = Torn] /\ pc' = "program" /\ state = "downloading"
    <3>1. UNCHANGED <<cand, hdr, image, nvKey, ctx>> /\ cand = Blank
      BY <2>1, <2>3 DEF OnFragment, ImageInv, HeaderInv
    <3>2. \A j \in 1..(addr - 1) : slot'[j] = slot[j]
      BY <2>3 DEF TypeOK, ValueTypes
    <3>3. BlocksAreOwn'
      <4>1. addr - 1 \in Int
        BY DEF TypeOK, ValueTypes
      <4>2. (\A j \in 1..(addr - 1) : ~Good(j)) => \A j \in 1..(addr - 1) : ~Good(j)'
        BY <3>2 DEF Good
      <4>3. FirstBlockOf(man, addr - 1) => FirstBlockOf(man, addr - 1)'
        <5>1. man' = man /\ addr' = addr
          BY <3>1
        <5>2. ASSUME FirstBlockOf(man, addr - 1)
              PROVE  \E k \in 1..(addr - 1) : /\ Good(k)' /\ slot'[k][1] = man
                                            /\ \A j \in 1..(k - 1) : ~Good(j)'
          BY <3>2, <4>1, <5>2, SlotsBelow
        <5> QED BY <5>1, <5>2 DEF FirstBlockOf
      <4> QED BY <2>3, <3>1, <4>2, <4>3 DEF ImageInv, BlocksAreOwn
    <3>4. CandidateFits'
      BY <3>1, StorageAssumption DEF CandidateFits
    <3>5. HeaderInv' /\ InstalledIsAuthentic'
      BY <2>3, <3>1 DEF ImageInv, HeaderInv, InstalledIsAuthentic
    <3> QED BY <3>3, <3>4, <3>5 DEF ImageInv
  <2> QED BY <2>1, <2>2, <2>3 DEF OnFragment
<1>16. CASE \E r \in reqs : FragmentError(r)
  BY <1>16, <1>q DEF FragmentError, Defer
<1>17. CASE ProgramDone
  <2>1. /\ pc = "program" /\ state = "downloading" /\ man \in Manifests
        /\ incoming = <<man, off + 1>> /\ cand = Blank /\ off \in Nat
        /\ off < ManBlocks[man] /\ addr + (ManBlocks[man] - off) <= Cap + 1
    BY <1>17 DEF ProgramDone, ImageInv, HeaderInv, SpaceLeft, TypeOK, ValueTypes
  <2>2. addr \in Nat \ {0} /\ Cap \in Nat /\ addr <= Cap
    BY <2>1, ManifestAssumption, StorageAssumption DEF TypeOK, ValueTypes, Cap
  <2>3. /\ UNCHANGED <<cand, hdr, image, nvKey, man>> /\ addr' = addr + 1
        /\ slot' = [slot EXCEPT ![addr] = <<man, off + 1>>]
    BY <1>17, <2>1 DEF ProgramDone
  <2>4. slot'[addr] = <<man, off + 1>> /\ \A j \in 1..(addr - 1) : slot'[j] = slot[j]
    <3>1. slot \in [1..Cap -> Block \cup {Blank, Torn}]
      BY DEF TypeOK, ValueTypes
    <3> QED BY <2>2, <2>3, <3>1
  <2>5. slot'[addr] \notin {Blank, Torn}
    <3>1. <<man, off + 1>> \in Manifests \X Nat
      BY <2>1
    <3> QED BY <2>4, <3>1, StorageAssumption
  <2>6. hashOk' =>
          \E k \in 1..addr : /\ Good(k)' /\ slot'[k][1] = man
                            /\ \A j \in 1..(k - 1) : ~Good(j)'
    <3> SUFFICES ASSUME hashOk'
                 PROVE  \E k \in 1..addr : /\ Good(k)' /\ slot'[k][1] = man
                                          /\ \A j \in 1..(k - 1) : ~Good(j)'
      OBVIOUS
    <3>1. Storing
      <4>1. hashOk
        BY <1>17, Zenon DEF ProgramDone
      <4> QED BY <2>1, <4>1
    <3>2. \A j \in 1..(addr - 1) : Good(j)' = Good(j)
      BY <2>4 DEF Good
    <3>3. CASE \A j \in 1..(addr - 1) : ~Good(j)
      <4>1. slot'[addr][1] = man
        BY <2>4
      <4> QED BY <2>2, <2>5, <3>2, <3>3, <4>1 DEF Good
    <3>4. CASE FirstBlockOf(man, addr - 1)
      BY <2>2, <2>4, <3>4, SlotsBelow
    <3> QED BY <3>1, <3>3, <3>4 DEF ImageInv, BlocksAreOwn
  <2>7. pc' \notin {"header", "installing"}
    BY <1>17 DEF ProgramDone, Finalize, BeginAbort
  <2>8. state' = "await_install" /\ pc' # "abort" => hashOk'
    BY <1>17, <2>1 DEF ProgramDone, Finalize, BeginAbort
  <2>9. BlocksAreOwn'
    <3>1. hashOk' => FirstBlockOf(man, addr - 1)'
      <4>1. addr' - 1 = addr /\ man' = man
        BY <2>2, <2>3
      <4> QED BY <2>6, <4>1 DEF FirstBlockOf
    <3>2. hashOk' => FirstBlockOf(man, Cap)'
      <4>1. 1..addr \subseteq 1..Cap /\ man' = man
        BY <2>2, <2>3
      <4> QED BY <2>6, <4>1 DEF FirstBlockOf
    <3>3. Verified' => state' = "await_install" /\ pc' # "abort"
      BY <1>17, <2>1 DEF ProgramDone, Finalize, BeginAbort, Report
    <3> QED BY <2>8, <3>1, <3>2, <3>3 DEF BlocksAreOwn
  <2>10. CandidateFits'
    BY <2>1, <2>3, StorageAssumption DEF CandidateFits
  <2>11. HeaderInv' /\ InstalledIsAuthentic'
    BY <2>1, <2>3, <2>7 DEF ImageInv, HeaderInv, InstalledIsAuthentic
  <2> QED BY <2>9, <2>10, <2>11 DEF ImageInv
<1>18. CASE ReadyDone
  <2>1. /\ UNCHANGED <<hdr, slot, image, nvKey>> /\ cand' = ManComp[man]
        /\ Verified
        /\ state = "await_install" /\ man \in Manifests
    BY <1>18 DEF ReadyDone
  <2>2. state' # "downloading" /\ pc' \notin {"header", "installing"} /\ ~Verified'
    BY <1>18 DEF ReadyDone, AfterReady, BeginAbort, ClearContext, Report
  <2>3. CandidateFits'
    BY <2>1, ReadyFits
  <2>4. BlocksAreOwn'
    BY <2>2 DEF BlocksAreOwn
  <2>5. HeaderInv' /\ InstalledIsAuthentic'
    BY <2>1, <2>2 DEF ImageInv, HeaderInv, InstalledIsAuthentic
  <2> QED BY <2>3, <2>4, <2>5 DEF ImageInv
<1>19. CASE Iterate
  <2>1. UNCHANGED <<cand, hdr, slot, nvKey, ctx, asked, event>> /\ state = "await_install"
    BY <1>19 DEF Iterate
  <2>2. /\ pc' \in {"abort", "installing"} /\ callback' = "none" /\ asked = "none"
        /\ event \notin Answers
    BY <1>19 DEF Iterate, BeginAbort, Report
  <2>3. BlocksAreOwn'
    BY <2>1, <2>2 DEF BlocksAreOwn
  <2>4. CandidateFits'
    BY <2>1, ImageKept DEF ImageInv, CandidateFits
  <2>5. pc' = "installing" => ManComp[hdr] = ManComp[man]
    BY <1>19, <2>1, ManifestAssumption
    DEF Iterate, Installable, ImageInv, CandidateFits, BeginAbort
  <2>6. HeaderInv'
    BY <2>1, <2>2, <2>5 DEF ImageInv, HeaderInv
  <2>7. InstalledIsAuthentic'
    BY <1>19, ManifestAssumption DEF Iterate, ImageInv, InstalledIsAuthentic, TypeOK, ValueTypes
  <2> QED BY <2>3, <2>4, <2>6, <2>7 DEF ImageInv
<1>20. CASE Installed
  <2>1. UNCHANGED <<cand, hdr, slot, nvKey, ctx, asked, event>> /\ state = "await_install"
    BY <1>20 DEF Installed
  <2>2. /\ pc' \in {"abort", "idle", "verify"} /\ callback' \in {"none", "on_reboot"}
        /\ asked = "none" /\ event \notin Answers
    BY <1>20 DEF Installed, InstallerFails, BeginAbort, Report
  <2>3. BlocksAreOwn'
    BY <2>1, <2>2 DEF BlocksAreOwn
  <2>4. CandidateFits'
    BY <2>1, ImageKept DEF ImageInv, CandidateFits
  <2>5. HeaderInv'
    BY <2>1, <2>2 DEF ImageInv, HeaderInv
  <2>6. hdr \in ManAuthentic /\ ManComp[hdr] = ManComp[man] /\ ManComp[man] \in Components
    BY <1>20, ManifestAssumption DEF Installed, ImageInv, HeaderInv
  <2>7. InstalledIsAuthentic'
    BY <1>20, <2>6 DEF Installed, InstallerFails, ImageInv, InstalledIsAuthentic, TypeOK, ValueTypes
  <2> QED BY <2>3, <2>4, <2>5, <2>7 DEF ImageInv
<1>21. CASE InstallVerify
  BY <1>21, <1>q DEF InstallVerify
<1>22. CASE InstallFinish
  BY <1>22, <1>q DEF InstallFinish, Report, ClearContext
<1>23. CASE Dispatch
  <2>1. /\ pc = "idle" /\ event' = "none" /\ UNCHANGED <<hdr, image, asked>>
        /\ event \in Answers => callback = "none" /\ asked = "none"
    BY <1>23 DEF Dispatch
  <2>2. CASE /\ event \in {"resume", "fragment_failure"} \cup Answers
             /\ UNCHANGED <<cand, slot, nvKey, ctx>>
             /\ \/ UNCHANGED <<reports, pc>>
                \/ pc' = "abort" /\ callback' = "none"
    BY <2>1, <2>2, <1>q 
  <2>3. CASE event = "resume" /\ OnResume /\ UNCHANGED <<cand, slot, nvKey>>
    BY <2>1, <2>3, <1>q DEF OnResume, HandleManifest
  <2>4. CASE /\ event = "authorize" /\ state = "await_download" /\ OnDownloadAuthorize
             /\ UNCHANGED <<cand, state>>
    <3>1. state' = "await_download" /\ pc' = "storage"
      BY <2>4 DEF OnDownloadAuthorize
    <3>2. CandidateFits'
      BY <2>1, <2>4, RekeyFits DEF ImageInv
    <3>3. BlocksAreOwn' /\ HeaderInv' /\ InstalledIsAuthentic'
      BY <2>1, <2>4, <3>1
      DEF ImageInv, BlocksAreOwn, HeaderInv, InstalledIsAuthentic
    <3> QED BY <3>2, <3>3 DEF ImageInv
  <2>5. CASE /\ event \in {"authorize", "defer"} /\ state = "await_install"
             /\ OnInstallAuthorize(event = "defer") /\ UNCHANGED <<nvKey, slot>>
    <3>1. CASE UNCHANGED cand
      BY <2>1, <2>5, <3>1, <1>q
      DEF OnInstallAuthorize, AfterReady, BeginAbort, ClearContext, Report
    <3>2. CASE /\ resume # "ongoing" /\ cand' \in {Torn, ManComp[man]}
               /\ pc' \in {"ready", "ready_defer"} /\ UNCHANGED <<ctx, reports>>
      <4>1. Verified /\ man \in Manifests
        BY <2>5, <3>2
      <4>2. CandidateFits'
        <5>1. CASE cand' = Torn
          BY <5>1, StorageAssumption DEF CandidateFits
        <5>2. CASE cand' = ManComp[man]
          BY <2>1, <2>5, <4>1, <5>2, ReadyFits
        <5> QED BY <3>2, <5>1, <5>2
      <4>3. \A m, n : FirstBlockOf(m, n)' = FirstBlockOf(m, n)
        BY <2>5 DEF FirstBlockOf, Good
      <4>4. BlocksAreOwn'
        BY <2>5, <3>2, <4>1, <4>3 DEF ImageInv, BlocksAreOwn
      <4>5. HeaderInv' /\ InstalledIsAuthentic'
        BY <2>1, <2>5, <3>2 DEF ImageInv, HeaderInv, InstalledIsAuthentic
      <4> QED BY <4>2, <4>4, <4>5 DEF ImageInv
    <3> QED BY <2>5, <3>1, <3>2 DEF OnInstallAuthorize
  <2> QED BY <1>23, <2>2, <2>3, <2>4, <2>5 DEF Dispatch, BeginAbort, Report
<1>24. CASE \E e \in {"authorize", "reject", "defer"} : AppAnswer(e)
  <2>1. PICK e \in Answers : AppAnswer(e)
    BY <1>24
  <2>2. /\ UNCHANGED <<cand, hdr, slot, image, nvKey, ctx, pc, callback>>
        /\ Verified' => Verified
    <3>1. asked \in {"none", "download", "install"}
      BY DEF TypeOK, ValueTypes
    <3> QED BY <2>1, <3>1 DEF AppAnswer, Defer
  <2> QED BY <2>2, <1>q
<1>25. CASE Delivered
  BY <1>25, <1>q DEF Delivered, Acknowledged, ForgetCallback, InstallComponent, Report
<1>26. CASE AppCallbackFails
  BY <1>26, <1>q DEF AppCallbackFails, Acknowledged, Report
<1>27. CASE DeliveryFailed
  BY <1>27, <1>q DEF DeliveryFailed, DeliveryAborts
<1>28. CASE SendNext
  BY <1>28, <1>q DEF SendNext
<1>29. CASE Disconnect
  BY <1>29, <1>q DEF Disconnect
<1>30. CASE RegistrationUpdated
  BY <1>30, <1>q DEF RegistrationUpdated, ResumeEvent
<1>31. CASE Registered
  BY <1>31, <1>q DEF Registered, ResumeEvent
<1>32. CASE OnReboot
  BY <1>32, <1>q DEF OnReboot, Restart, ClearContext
<1>33. CASE PowerLoss
  BY <1>33, <1>q DEF PowerLoss, Restart, ClearContext
<1>34. CASE PowerCycle
  BY <1>34, <1>q DEF PowerCycle, Restart, ClearContext
<1>35. CASE UNCHANGED vars
  BY <1>35, <1>q DEF vars
<1> QED BY <1>1, <1>2, <1>3, <1>4, <1>5, <1>6, <1>7, <1>8, <1>9, <1>9a, <1>10, <1>11, <1>12, <1>13,
           <1>14, <1>15, <1>16, <1>17, <1>18, <1>19, <1>20, <1>21, <1>22, <1>23, <1>24,
           <1>25, <1>26, <1>27, <1>28, <1>29, <1>30, <1>31, <1>32, <1>33, <1>34, <1>35 DEF Next

\* The initial state satisfies the invariant of the storage and of the images.
LEMMA ImageInit == Init => ImageInv
<1> SUFFICES ASSUME Init PROVE ImageInv
  OBVIOUS
<1>1. BlocksAreOwn /\ HeaderInv
  BY DEF Init, BlocksAreOwn, HeaderInv, Storing, Verified
<1>2. CandidateFits
  BY DEF Init, CandidateFits
<1>3. InstalledIsAuthentic
  BY ManifestAssumption DEF Init, InstalledIsAuthentic
<1> QED BY <1>1, <1>2, <1>3 DEF ImageInv

\* The whole invariant holds in every reachable state.
THEOREM Inductive == Spec => []IInv
<1>1. Init => IInv
  BY ControlInit, ImageInit DEF IInv
<1>2. IInv /\ [Next]_vars => IInv'
  <2> SUFFICES ASSUME IInv, [Next]_vars PROVE IInv'
    OBVIOUS
  <2>1. ControlInv /\ ImageInv
    BY DEF IInv
  <2>2. FlagTypes'
    BY <2>1, FlagStep DEF ControlInv, TypeOK
  <2>3. ControlInv'
    BY <2>1, <2>2, ValueStep, SequencingStep DEF ControlInv, TypeOK
  <2>4. ImageInv'
    BY <2>1, ImageStep
  <2> QED BY <2>3, <2>4 DEF IInv
<1> QED BY <1>1, <1>2, PTL DEF Spec

\* Whatever resets, write failures, deferrals and resumes happen, a component runs the
\* factory image, a half-installed one, or one that an accepted manifest describes for it.
THEOREM AuthenticImages == Spec => []InstalledIsAuthentic
<1>1. IInv => InstalledIsAuthentic
  BY DEF IInv, ImageInv
<1> QED BY <1>1, Inductive, PTL

-----------------------------------------------------------------------------
(*****************************************************************************)
(* Downloads that start again                                                *)
(*****************************************************************************)

\* Every step keeps header, candidate and key those of the update being processed.
LEMMA RestartControlStep ==
  ASSUME ResumeSupport # "resume", IInv, RestartControl, [Next]_vars
  PROVE  RestartControl'
<1> USE DEF IInv, ControlInv, Sequencing, PcMatchesState, ContextHasManifest, OneToken,
            ImageInv, HeaderInv, RestartControl, HeaderMatchesUpdate, ReadyNamesHeader, Installing,
            Running, Idle, Active, Halt, Answers, nvm, store, comps, records, ctx, reports, io
<1>1. CASE Bootloader
  BY <1>1 DEF Bootloader
<1>2. CASE FotaInit
  BY <1>2 DEF FotaInit
<1>3. CASE PostInstallVerify
  BY <1>3 DEF PostInstallVerify, InstallVerified
<1>4. CASE PostInstallErase
  BY <1>4 DEF PostInstallErase, EraseHeaders
<1>5. CASE PostInstallKey
  BY <1>5 DEF PostInstallKey, Report
<1>6. CASE \E m \in Manifests : GotManifest(m)
  BY <1>6 DEF GotManifest, IsReady, HandleManifest
<1>7. CASE Parse
  BY <1>7 DEF Parse, Report, BeginAbort, ManifestAfterAbort
<1>8. CASE AbortKey
  BY <1>8 DEF AbortKey, ClearContext
<1>9. CASE InsufficientStorage
  BY <1>9 DEF InsufficientStorage, BeginAbort, Report, ManifestAfterAbort
<1>9a. CASE ProgramFails
  BY <1>9a DEF ProgramFails, BeginAbort, Report, ManifestAfterAbort
<1>10. CASE NoResume
  BY <1>10 DEF NoResume, StorageFits
<1>11. CASE ResumeReady
  BY <1>11 DEF ResumeReady, StorageFits
<1>12. CASE ResumeBlocks
  BY <1>12 DEF ResumeBlocks, StorageFits
<1>13. CASE Erase
  BY <1>13 DEF Erase, EraseHeaders, BeginAbort, Report, ManifestAfterAbort
<1>14. CASE ProgramHeader
  BY <1>14, StorageAssumption DEF ProgramHeader, Report
<1>15. CASE \E r \in reqs : OnFragment(r)
  BY <1>15 DEF OnFragment, BeginAbort, Report, ManifestAfterAbort
<1>16. CASE \E r \in reqs : FragmentError(r)
  BY <1>16 DEF FragmentError
<1>17. CASE ProgramDone
  BY <1>17 DEF ProgramDone, Finalize, BeginAbort, Report, ManifestAfterAbort
<1>18. CASE ReadyDone
  BY <1>18, StorageAssumption
  DEF ReadyDone, AfterReady, ClearContext, Report, BeginAbort, ManifestAfterAbort
<1>19. CASE Iterate
  BY <1>19 DEF Iterate, BeginAbort, Report, ManifestAfterAbort
<1>20. CASE Installed
  BY <1>20 DEF Installed, Report, InstallerFails, BeginAbort, ManifestAfterAbort
<1>21. CASE InstallVerify
  BY <1>21 DEF InstallVerify, InstallVerified
<1>22. CASE InstallFinish
  BY <1>22 DEF InstallFinish, Report, ClearContext
<1>23. CASE Dispatch
  BY <1>23
  DEF Dispatch, OnResume, HandleManifest, OnDownloadAuthorize, OnInstallAuthorize, Reload,
      AfterReady, ClearContext, BeginAbort, Report, ManifestAfterAbort
<1>24. CASE \E e \in {"authorize", "reject", "defer"} : AppAnswer(e)
  BY <1>24 DEF AppAnswer
<1>25. CASE Delivered
  BY <1>25 DEF Delivered, ForgetCallback, InstallComponent, Report
<1>26. CASE AppCallbackFails
  BY <1>26 DEF AppCallbackFails, Report
<1>27. CASE DeliveryFailed
  BY <1>27 DEF DeliveryFailed, DeliveryAborts
<1>28. CASE SendNext
  BY <1>28 DEF SendNext
<1>29. CASE Disconnect
  BY <1>29 DEF Disconnect
<1>30. CASE RegistrationUpdated
  BY <1>30 DEF RegistrationUpdated
<1>31. CASE Registered
  BY <1>31 DEF Registered
<1>32. CASE OnReboot
  BY <1>32 DEF OnReboot, Restart, ClearContext
<1>33. CASE PowerLoss
  BY <1>33 DEF PowerLoss, Restart, ClearContext
<1>34. CASE PowerCycle
  BY <1>34 DEF PowerCycle, Restart, ClearContext
<1>35. CASE UNCHANGED vars
  BY <1>35 DEF vars
<1> QED BY <1>1, <1>2, <1>3, <1>4, <1>5, <1>6, <1>7, <1>8, <1>9, <1>9a, <1>10, <1>11,
           <1>12, <1>13, <1>14, <1>15, <1>16, <1>17, <1>18, <1>19, <1>20, <1>21, <1>22,
           <1>23, <1>24, <1>25, <1>26, <1>27, <1>28, <1>29, <1>30, <1>31, <1>32, <1>33,
           <1>34, <1>35 DEF Next

\* A step that neither programs nor erases a slot and leaves the download where it is.
StillDownload ==
  /\ UNCHANGED slot
  /\ pc' = "header" => pc = "header" /\ UNCHANGED man
  /\ state' = "downloading" /\ pc' # "abort" =>
       state = "downloading" /\ UNCHANGED <<pc, man, off, addr>>
  /\ state' = "await_install" => state = "await_install" /\ UNCHANGED man

\* Such a step keeps what is known of the storage.
LEMMA DownloadKept ==
  ASSUME StillDownload
  PROVE  RestartDownload => RestartDownload'
BY DEF StillDownload, RestartDownload, Stored, Unwritten

\* Every step keeps the blocks of a download in the slots of their numbers.
LEMMA RestartDownloadStep ==
  ASSUME ResumeSupport # "resume", IInv, RestartControl, RestartDownload, [Next]_vars
  PROVE  RestartDownload'
<1> USE DEF IInv, ControlInv, Sequencing, PcMatchesState, ContextHasManifest, OneFragment,
            Running, Idle, Active, Halt, nvm, store, comps, records, ctx, reports, io
<1>q. ASSUME StillDownload PROVE RestartDownload'
  BY <1>q, DownloadKept
<1> USE DEF StillDownload
<1>1. CASE Bootloader
  BY <1>1, <1>q DEF Bootloader
<1>2. CASE FotaInit
  BY <1>2, <1>q DEF FotaInit
<1>3. CASE PostInstallVerify
  BY <1>3, <1>q DEF PostInstallVerify, InstallVerified
<1>4. CASE PostInstallErase
  BY <1>4, <1>q DEF PostInstallErase, EraseHeaders
<1>5. CASE PostInstallKey
  BY <1>5, <1>q DEF PostInstallKey, Report
<1>6. CASE \E m \in Manifests : GotManifest(m)
  BY <1>6, <1>q DEF GotManifest, IsReady, HandleManifest
<1>7. CASE Parse
  BY <1>7, <1>q DEF Parse, Report, BeginAbort, ManifestAfterAbort
<1>8. CASE AbortKey
  BY <1>8, <1>q DEF AbortKey, ClearContext
<1>9. CASE InsufficientStorage
  BY <1>9, <1>q DEF InsufficientStorage, BeginAbort, Report, ManifestAfterAbort
<1>9a. CASE ProgramFails
  BY <1>9a, <1>q DEF ProgramFails, BeginAbort, Report, ManifestAfterAbort
<1>10. CASE NoResume
  BY <1>10, <1>q DEF NoResume, StorageFits
<1>11. CASE ResumeReady
  BY <1>11 DEF ResumeReady, StorageFits, RestartControl
<1>12. CASE ResumeBlocks
  BY <1>12 DEF ResumeBlocks, StorageFits, RestartControl
<1>13. CASE Erase
  <2>1. CASE BeginAbort(TRUE) /\ UNCHANGED store
    BY <1>13, <2>1, <1>q DEF Erase, BeginAbort
  <2>2. CASE pc' = "header" /\ UNCHANGED <<man, state>>
             /\ slot' = [k \in 1..Cap |->
                           IF k <= (IF ResumeSupport = "resume" THEN Slots ELSE ManBlocks[man])
                           THEN Blank ELSE slot[k]]
    <3>1. state = "await_download" /\ man \in Manifests /\ ManBlocks[man] <= Slots
      BY <1>13 DEF Erase, SpaceLeft
    <3>2. Slots \in Nat /\ ManBlocks[man] \in Nat /\ Slots <= Cap /\ Cap \in Nat
      BY <3>1, StorageAssumption, ManifestAssumption DEF Cap
    <3>3. \A k \in 1..ManBlocks[man] : slot'[k] = Blank
      BY <2>2, <3>1, <3>2
    <3> QED BY <2>2, <3>1, <3>3 DEF RestartDownload
  <2> QED BY <1>13, <2>1, <2>2 DEF Erase
<1>14. CASE ProgramHeader
  <2>1. /\ state' = "downloading" /\ pc' = "idle" /\ UNCHANGED <<man, off, addr, slot>>
        /\ off = 0 /\ addr = 1 /\ ManBlocks[man] <= Slots
        /\ \A k \in 1..ManBlocks[man] : slot[k] = Blank
    BY <1>14 DEF ProgramHeader, SpaceLeft, RestartDownload
  <2> QED BY <2>1 DEF RestartDownload, Unwritten
<1>15. CASE \E r \in reqs : OnFragment(r)
  <2>1. PICK r \in reqs : OnFragment(r)
    BY <1>15
  <2>2. CASE slot' = slot /\ ((state # "downloading" /\ UNCHANGED pc) \/ BeginAbort(TRUE))
    BY <2>1, <2>2, <1>q DEF OnFragment, BeginAbort
  <2>3. CASE slot' = [slot EXCEPT ![addr] = Torn] /\ pc' = "program" /\ state = "downloading"
    <3>1. UNCHANGED ctx /\ pc = "idle"
      BY <2>1, <2>3 DEF OnFragment
    <3>2. /\ addr = off + 1 /\ ManBlocks[man] <= Slots
          /\ \A k \in 1..off : slot[k] = <<man, k>>
          /\ \A k \in addr..ManBlocks[man] : slot[k] = Blank
      BY <2>3, <3>1 DEF RestartDownload, Unwritten
    <3>3. \A k \in 1..Cap : k # addr => slot'[k] = slot[k]
      BY <2>3 DEF TypeOK, ValueTypes
    <3>4. off \in Nat /\ man \in Manifests /\ off < ManBlocks[man]
      BY <2>3, <3>1 DEF SpaceLeft, TypeOK, ValueTypes
    <3>5. Slots \in Nat /\ Cap \in Nat /\ Slots <= Cap /\ ManBlocks[man] \in Nat
      BY <3>4, StorageAssumption, ManifestAssumption DEF Cap
    <3>6. \A k \in 1..off : slot'[k] = <<man, k>>
      BY <3>2, <3>3, <3>4, <3>5
    <3>7. \A k \in (addr + 1)..ManBlocks[man] : slot'[k] = Blank
      BY <3>2, <3>3, <3>4, <3>5
    <3> QED BY <2>3, <3>1, <3>2, <3>6, <3>7 DEF RestartDownload, Unwritten
  <2> QED BY <2>1, <2>2, <2>3 DEF OnFragment
<1>16. CASE \E r \in reqs : FragmentError(r)
  BY <1>16, <1>q DEF FragmentError
<1>17. CASE ProgramDone
  <2>1. /\ pc = "program" /\ state = "downloading" /\ man \in Manifests
        /\ incoming = <<man, off + 1>> /\ off \in Nat /\ off < ManBlocks[man]
    BY <1>17 DEF ProgramDone, SpaceLeft, TypeOK, ValueTypes
  <2>2. /\ addr = off + 1 /\ ManBlocks[man] <= Slots
        /\ \A k \in 1..off : slot[k] = <<man, k>>
        /\ \A k \in (addr + 1)..ManBlocks[man] : slot[k] = Blank
    BY <2>1 DEF RestartDownload, Unwritten
  <2>3. /\ UNCHANGED man /\ addr' = addr + 1 /\ off' = off + 1
        /\ slot' = [slot EXCEPT ![addr] = <<man, off + 1>>]
        /\ off + 1 = ManBlocks[man] => Finalize(hashOk')
        /\ off + 1 # ManBlocks[man] => pc' = "idle" /\ UNCHANGED state
    BY <1>17, <2>1 DEF ProgramDone
  <2>4. Slots \in Nat /\ Cap \in Nat /\ Slots <= Cap /\ ManBlocks[man] \in Nat
    BY <2>1, StorageAssumption, ManifestAssumption DEF Cap
  <2>5. /\ \A k \in 1..Cap : k # addr => slot'[k] = slot[k]
        /\ slot'[addr] = <<man, off + 1>>
    <3>1. slot \in [1..Cap -> Block \cup {Blank, Torn}]
      BY DEF TypeOK, ValueTypes
    <3> QED BY <2>1, <2>2, <2>3, <2>4, <3>1
  <2>6. \A k \in 1..(off + 1) : slot'[k] = <<man, k>>
    BY <2>1, <2>2, <2>4, <2>5
  <2>7. \A k \in (addr + 1)..ManBlocks[man] : slot'[k] = Blank
    BY <2>1, <2>2, <2>4, <2>5
  <2>8. CASE off + 1 = ManBlocks[man]
    <3>1. /\ pc' # "header" /\ (state' = "downloading" => pc' = "abort")
      BY <2>1, <2>3, <2>8 DEF Finalize, BeginAbort
    <3>2. Stored(man)'
      BY <2>2, <2>3, <2>6, <2>8 DEF Stored
    <3> QED BY <3>1, <3>2 DEF RestartDownload
  <2>9. CASE off + 1 # ManBlocks[man]
    BY <2>1, <2>2, <2>3, <2>6, <2>7, <2>9 DEF RestartDownload, Unwritten
  <2> QED BY <2>8, <2>9
<1>18. CASE ReadyDone
  BY <1>18, <1>q DEF ReadyDone, AfterReady, ClearContext, Report, BeginAbort, ManifestAfterAbort
<1>19. CASE Iterate
  BY <1>19, <1>q DEF Iterate, BeginAbort, Report, ManifestAfterAbort
<1>20. CASE Installed
  BY <1>20, <1>q DEF Installed, Report, InstallerFails, BeginAbort, ManifestAfterAbort
<1>21. CASE InstallVerify
  BY <1>21, <1>q DEF InstallVerify, InstallVerified
<1>22. CASE InstallFinish
  BY <1>22, <1>q DEF InstallFinish, Report, ClearContext
<1>23. CASE Dispatch
  <2>1. CASE event = "authorize" /\ state = "await_download" /\ OnDownloadAuthorize /\ UNCHANGED state
    BY <2>1 DEF OnDownloadAuthorize, RestartDownload
  <2>2. CASE UNCHANGED slot
    BY <1>23, <2>2, <1>q
    DEF Dispatch, OnResume, HandleManifest, OnDownloadAuthorize, OnInstallAuthorize, AfterReady,
        ClearContext, BeginAbort
  <2> QED BY <1>23, <2>1, <2>2 DEF Dispatch
<1>24. CASE \E e \in {"authorize", "reject", "defer"} : AppAnswer(e)
  BY <1>24, <1>q DEF AppAnswer
<1>25. CASE Delivered
  BY <1>25, <1>q DEF Delivered, OneToken, ForgetCallback, InstallComponent
<1>26. CASE AppCallbackFails
  BY <1>26, <1>q DEF AppCallbackFails, Report
<1>27. CASE DeliveryFailed
  BY <1>27, <1>q DEF DeliveryFailed, DeliveryAborts
<1>28. CASE SendNext
  BY <1>28, <1>q DEF SendNext
<1>29. CASE Disconnect
  BY <1>29, <1>q DEF Disconnect
<1>30. CASE RegistrationUpdated
  BY <1>30, <1>q DEF RegistrationUpdated
<1>31. CASE Registered
  BY <1>31, <1>q DEF Registered
<1>32. CASE OnReboot
  BY <1>32, <1>q DEF OnReboot, Restart, ClearContext
<1>33. CASE PowerLoss
  BY <1>33, <1>q DEF PowerLoss, Restart, ClearContext
<1>34. CASE PowerCycle
  BY <1>34, <1>q DEF PowerCycle, Restart, ClearContext
<1>35. CASE UNCHANGED vars
  BY <1>35, <1>q DEF vars
<1> QED BY <1>1, <1>2, <1>3, <1>4, <1>5, <1>6, <1>7, <1>8, <1>9, <1>9a, <1>10, <1>11,
           <1>12, <1>13, <1>14, <1>15, <1>16, <1>17, <1>18, <1>19, <1>20, <1>21, <1>22,
           <1>23, <1>24, <1>25, <1>26, <1>27, <1>28, <1>29, <1>30, <1>31, <1>32, <1>33,
           <1>34, <1>35 DEF Next

\* Every step keeps what is installed what was downloaded.
LEMMA RestartInstallStep ==
  ASSUME IInv, RestartControl, RestartInstall, [Next]_vars
  PROVE  RestartInstall'
<1> USE DEF IInv, ControlInv, Sequencing, PcMatchesState, ContextHasManifest, OneToken,
            RestartInstall, Running, Idle, Active, Halt, Answers, nvm, store, comps, records, ctx, reports, io
<1>1. CASE Bootloader
  BY <1>1 DEF Bootloader
<1>2. CASE FotaInit
  BY <1>2 DEF FotaInit
<1>3. CASE PostInstallVerify
  BY <1>3 DEF PostInstallVerify, InstallVerified
<1>4. CASE PostInstallErase
  BY <1>4 DEF PostInstallErase, EraseHeaders
<1>5. CASE PostInstallKey
  BY <1>5 DEF PostInstallKey, Report
<1>6. CASE \E m \in Manifests : GotManifest(m)
  BY <1>6 DEF GotManifest, IsReady, HandleManifest
<1>7. CASE Parse
  BY <1>7 DEF Parse, Report, BeginAbort, ManifestAfterAbort
<1>8. CASE AbortKey
  BY <1>8 DEF AbortKey, ClearContext
<1>9. CASE InsufficientStorage
  BY <1>9 DEF InsufficientStorage, BeginAbort, Report, ManifestAfterAbort
<1>9a. CASE ProgramFails
  BY <1>9a DEF ProgramFails, BeginAbort, Report, ManifestAfterAbort
<1>10. CASE NoResume
  BY <1>10 DEF NoResume, StorageFits
<1>11. CASE ResumeReady
  BY <1>11 DEF ResumeReady, Finalize, BeginAbort
<1>12. CASE ResumeBlocks
  BY <1>12 DEF ResumeBlocks, Finalize, BeginAbort
<1>13. CASE Erase
  BY <1>13 DEF Erase, EraseHeaders, BeginAbort, Report, ManifestAfterAbort
<1>14. CASE ProgramHeader
  BY <1>14 DEF ProgramHeader, Report
<1>15. CASE \E r \in reqs : OnFragment(r)
  BY <1>15 DEF OnFragment, BeginAbort, Report, ManifestAfterAbort
<1>16. CASE \E r \in reqs : FragmentError(r)
  BY <1>16 DEF FragmentError
<1>17. CASE ProgramDone
  BY <1>17 DEF ProgramDone, Finalize, BeginAbort, Report, ManifestAfterAbort
<1>18. CASE ReadyDone
  BY <1>18 DEF ReadyDone, AfterReady, BeginAbort, ClearContext
<1>19. CASE Iterate
  BY <1>19 DEF Iterate, BeginAbort, Report, ManifestAfterAbort
<1>20. CASE Installed
  <2>1. ManComp[man] \in Components /\ hdr = man
    BY <1>20, ManifestAssumption DEF Installed, RestartControl, HeaderMatchesUpdate
  <2> QED BY <1>20, <2>1 DEF Installed, InstallerFails, BeginAbort, TypeOK, ValueTypes
<1>21. CASE InstallVerify
  <2>1. /\ ManComp[man] \in Components /\ man \in Manifests
        /\ image[ManComp[man]] = man /\ UNCHANGED <<man, image>> /\ pc' = "install_key"
        /\ \/ InstallVerified(ManComp[man], ManVer[man])
           \/ InstallRefused(ManComp[man], ManVer[man])
    BY <1>21, ManifestAssumption DEF InstallVerify
  <2>2. PostInstallOk(ManComp[man], ManVer[man])
    BY <2>1, ManifestAssumption DEF PostInstallOk, VersionOf
  <2>3. ManComp[man] \in unrecorded' \/ nvVersion'[ManComp[man]] = ManVer[man]
    <3>1. CASE InstallVerified(ManComp[man], ManVer[man])
      BY <2>1, <3>1 DEF InstallVerified, TypeOK, ValueTypes
    <3>2. CASE InstallRefused(ManComp[man], ManVer[man])
      BY <2>2, <3>2 DEF InstallRefused
    <3> QED BY <2>1, <3>1, <3>2
  <2> QED BY <2>1, <2>3
<1>22. CASE InstallFinish
  BY <1>22 DEF InstallFinish, Report, ClearContext
<1>23. CASE Dispatch
  BY <1>23
  DEF Dispatch, OnResume, HandleManifest, OnDownloadAuthorize, OnInstallAuthorize, Reload,
      AfterReady, ClearContext, BeginAbort, Report, ManifestAfterAbort
<1>24. CASE \E e \in {"authorize", "reject", "defer"} : AppAnswer(e)
  BY <1>24 DEF AppAnswer
<1>25. CASE Delivered
  BY <1>25 DEF Delivered, ForgetCallback, InstallComponent, Report
<1>26. CASE AppCallbackFails
  BY <1>26 DEF AppCallbackFails, Report
<1>27. CASE DeliveryFailed
  BY <1>27 DEF DeliveryFailed, DeliveryAborts
<1>28. CASE SendNext
  BY <1>28 DEF SendNext
<1>29. CASE Disconnect
  BY <1>29 DEF Disconnect
<1>30. CASE RegistrationUpdated
  BY <1>30 DEF RegistrationUpdated
<1>31. CASE Registered
  BY <1>31 DEF Registered
<1>32. CASE OnReboot
  BY <1>32 DEF OnReboot, Restart, ClearContext
<1>33. CASE PowerLoss
  BY <1>33 DEF PowerLoss, Restart, ClearContext
<1>34. CASE PowerCycle
  BY <1>34 DEF PowerCycle, Restart, ClearContext
<1>35. CASE UNCHANGED vars
  BY <1>35 DEF vars
<1> QED BY <1>1, <1>2, <1>3, <1>4, <1>5, <1>6, <1>7, <1>8, <1>9, <1>9a, <1>10, <1>11,
           <1>12, <1>13, <1>14, <1>15, <1>16, <1>17, <1>18, <1>19, <1>20, <1>21, <1>22,
           <1>23, <1>24, <1>25, <1>26, <1>27, <1>28, <1>29, <1>30, <1>31, <1>32, <1>33,
           <1>34, <1>35 DEF Next

\* The initial state satisfies the invariant of restart mode.
LEMMA RestartInit == Init => RestartInv
BY StorageAssumption
DEF Init, RestartInv, RestartControl, RestartDownload, RestartInstall, HeaderMatchesUpdate,
    ReadyNamesHeader, Installing

\* Where every slot is good all of them are counted.
LEMMA AllGood ==
  ASSUME NEW k \in Nat, \A j \in 1..k : Good(j)
  PROVE  GoodUpTo(k) = k
<1>1. {j \in 1..k : Good(j)} = 1..k
  OBVIOUS
<1>2. Cardinality(1..k) = k
  BY FS_Interval
<1> QED BY <1>1, <1>2 DEF GoodUpTo

\* A stored image passes the checks of fota_candidate_iterate_image: the good slots up
\* to the last of its blocks are all of them, so each is found under its number.
LEMMA StoredIsValid ==
  ASSUME NEW m \in Manifests, Stored(m), Encryption => nvKey
  PROVE  ImageValid(m)
<1> DEFINE n == ManBlocks[m]
<1>1. n \in Nat /\ n > 0 /\ Slots \in Nat /\ n <= Slots
  BY ManifestAssumption, StorageAssumption DEF Stored
<1>2. \A k \in 1..n : Good(k)
  <2> SUFFICES ASSUME NEW k \in 1..n PROVE Good(k)
    OBVIOUS
  <2>1. slot[k] = <<m, k>> /\ <<m, k>> \in Manifests \X Nat
    BY <1>1 DEF Stored
  <2> QED BY <2>1, StorageAssumption DEF Good
<1>3. \A k \in 0..n : GoodUpTo(k) = k
  BY <1>1, <1>2, AllGood
<1>4. \A k \in n..Slots : GoodUpTo(k) >= n
  <2> SUFFICES ASSUME NEW k \in n..Slots PROVE GoodUpTo(k) >= n
    OBVIOUS
  <2>1. IsFiniteSet(1..k)
    BY <1>1, FS_Interval
  <2>2. IsFiniteSet({j \in 1..k : Good(j)})
    BY <2>1, FS_Subset
  <2>3. {j \in 1..n : Good(j)} \subseteq {j \in 1..k : Good(j)}
    BY <1>1
  <2>4. GoodUpTo(n) <= GoodUpTo(k)
    BY <2>2, <2>3, FS_Subset DEF GoodUpTo
  <2>5. GoodUpTo(n) = n
    BY <1>1, <1>3
  <2>6. GoodUpTo(k) \in Nat
    BY <1>1, GoodUpToType
  <2> QED BY <1>1, <2>4, <2>5, <2>6
<1>5. ASSUME NEW k \in 1..Slots, Good(k), GoodUpTo(k) <= n
      PROVE  slot[k] = <<m, GoodUpTo(k)>>
  <2>1. CASE k <= n
    BY <1>1, <1>3, <2>1 DEF Stored
  <2>2. CASE k > n
    <3>1. GoodUpTo(k - 1) >= n /\ GoodUpTo(k - 1) \in Nat
      BY <1>1, <1>4, <2>2, GoodUpToType
    <3>2. GoodUpTo(k) = GoodUpTo(k - 1) + 1
      BY <1>5, GoodUpToNext
    <3> QED BY <1>1, <1>5, <3>1, <3>2
  <2> QED BY <1>1, <2>1, <2>2
<1>6. m # Blank
  BY StorageAssumption
<1>7. GoodUpTo(Slots) >= n
  BY <1>1, <1>4
<1> QED BY <1>2, <1>5, <1>6, <1>7 DEF ImageValid

\* An image stays valid while the slots are left alone and the key is kept.
LEMMA ImageStays ==
  ASSUME UNCHANGED <<hdr, slot, nvKey>>, ImageValid(hdr)
  PROVE  ImageValid(hdr)'
<1>1. \A k : Good(k)' = Good(k)
  BY DEF Good
<1>2. \A k : GoodUpTo(k)' = GoodUpTo(k)
  BY <1>1 DEF GoodUpTo
<1> QED BY <1>1, <1>2 DEF ImageValid

-----------------------------------------------------------------------------
(*****************************************************************************)
(* What is reported of an update                                             *)
(*****************************************************************************)

\* Setting one resource leaves the other one alone.
LEMMA SetValueResult ==
  ASSUME NEW s \in Source
  PROVE  /\ \A v \in SourceStates : SetValue(s, v).result = s.result
         /\ \A v \in Results : SetValue(s, v).result = v
<1>1. s.state \in SourceStates /\ s.result \in Results
  BY SourceFields
<1>2. SourceStates \cap Results = {}
  BY DEF SourceStates, Results
<1>3. ASSUME NEW v \in SourceStates PROVE SetValue(s, v).result = s.result
  BY <1>1, <1>2, <1>3 DEF SetValue
<1>4. ASSUME NEW v \in Results PROVE SetValue(s, v).result = v
  BY <1>1, <1>2, <1>4 DEF SetValue
<1> QED BY <1>3, <1>4

\* abort_update reports a failure and then the idle state.
LEMMA FailureTold ==
  ASSUME NEW s \in Source
  PROVE  SetValue(SetValue(s, "FAILED"), "IDLE").result = "FAILED"
<1>1. "FAILED" \in Results /\ "IDLE" \in SourceStates
  BY DEF Results, SourceStates
<1>2. SetValue(s, "FAILED") \in Source /\ SetValue(s, "FAILED").result = "FAILED"
  BY <1>1, SetValueType, SetValueResult
<1> QED BY <1>1, <1>2, SetValueResult

\* A step that removes the manifest reports a failure or leaves an image that is
\* complete and marked ready.
LEMMA LossStep ==
  ASSUME ResumeSupport # "resume", IInv, RestartInv, [Next]_vars,
         nvManifest # NoManifest, nvManifest' = NoManifest
  PROVE  \/ src'.result = "FAILED"
         \/ cand' = ManComp[nvManifest] /\ footer' /\ hdr' = nvManifest /\ ImageValid(hdr)'
<1> USE DEF IInv, ControlInv, Sequencing, PcMatchesState, ContextHasManifest, OneToken,
            RestartInv, Running, Idle, Active, Installing, Answers, nvm, store, comps, records, ctx, reports, io
<1>t. src \in Source
  BY DEF TypeOK, ValueTypes
<1>a. ASSUME BeginAbort(TRUE) PROVE src'.result = "FAILED"
  BY <1>t, <1>a, FailureTold DEF BeginAbort, Report
<1>b. ASSUME state = "await_install", nvManifest = man, cand' = ManComp[man], footer',
             UNCHANGED <<slot, nvKey, hdr>>
      PROVE  cand' = ManComp[nvManifest] /\ footer' /\ hdr' = nvManifest /\ ImageValid(hdr)'
  <2>1. hdr = man /\ nvKey /\ Stored(man) /\ man \in Manifests
    BY <1>b DEF RestartControl, HeaderMatchesUpdate, RestartDownload
  <2>2. ImageValid(man)
    BY <2>1, StoredIsValid
  <2>3. ImageValid(hdr)'
    BY <1>b, <2>1, <2>2, ImageStays
  <2> QED BY <1>b, <2>1, <2>3
<1>1. CASE Bootloader
  BY <1>1 DEF Bootloader
<1>2. CASE FotaInit
  BY <1>2 DEF FotaInit
<1>3. CASE PostInstallVerify
  BY <1>3 DEF PostInstallVerify
<1>4. CASE PostInstallErase
  BY <1>4 DEF PostInstallErase
<1>5. CASE PostInstallKey
  BY <1>5 DEF PostInstallKey
<1>6. CASE \E m \in Manifests : GotManifest(m)
  BY <1>6 DEF GotManifest, IsReady
<1>7. CASE Parse
  BY <1>7, <1>a DEF Parse, Report
<1>8. CASE AbortKey
  BY <1>8 DEF AbortKey
<1>9. CASE InsufficientStorage
  BY <1>9, <1>a DEF InsufficientStorage
<1>9a. CASE ProgramFails
  BY <1>9a, <1>a DEF ProgramFails
<1>10. CASE NoResume
  BY <1>10 DEF NoResume
<1>11. CASE ResumeReady
  BY <1>11 DEF ResumeReady, Finalize
<1>12. CASE ResumeBlocks
  BY <1>12 DEF ResumeBlocks, StorageFits, RestartControl
<1>13. CASE Erase
  BY <1>13, <1>a DEF Erase
<1>14. CASE ProgramHeader
  BY <1>14 DEF ProgramHeader
<1>15. CASE \E r \in reqs : OnFragment(r)
  BY <1>15, <1>a DEF OnFragment
<1>16. CASE \E r \in reqs : FragmentError(r)
  BY <1>16 DEF FragmentError
<1>17. CASE ProgramDone
  BY <1>17, <1>a DEF ProgramDone, Finalize
<1>18. CASE ReadyDone
  <2>1. CASE BeginAbort(TRUE)
    BY <2>1, <1>a
  <2>2. CASE nvManifest' # nvManifest /\ ~BeginAbort(TRUE)
    <3>1. /\ UNCHANGED <<slot, nvKey, hdr>> /\ cand' = ManComp[man] /\ footer'
          /\ state = "await_install" /\ nvManifest = man
      BY <1>18 DEF ReadyDone, OneUpdate
    <3> QED BY <3>1, <1>b
  <2> QED BY <1>18, <2>1, <2>2 DEF ReadyDone, AfterReady
<1>19. CASE Iterate
  BY <1>19, <1>a DEF Iterate
<1>20. CASE Installed
  BY <1>20, <1>a DEF Installed, InstallerFails
<1>21. CASE InstallVerify
  BY <1>21 DEF InstallVerify
<1>22. CASE InstallFinish
  BY <1>22 DEF InstallFinish
<1>23. CASE Dispatch
  <2>1. CASE BeginAbort(TRUE)
    BY <2>1, <1>a
  <2>2. CASE nvManifest' = nvManifest
    BY <2>2
  <2> QED BY <1>23, <2>1, <2>2
          DEF Dispatch, OnDownloadAuthorize, OnInstallAuthorize, RestartControl, BeginAbort, ManifestAfterAbort
<1>24. CASE \E e \in {"authorize", "reject", "defer"} : AppAnswer(e)
  BY <1>24 DEF AppAnswer
<1>25. CASE Delivered
  <2>1. CASE callback = "install_component"
    <3>1. /\ UNCHANGED <<slot, nvKey, hdr, cand, footer>> /\ cand = ManComp[man] /\ footer
          /\ state = "await_install" /\ nvManifest = man
      BY <1>25, <2>1 DEF Delivered, Acknowledged, RestartControl, OneUpdate
    <3> QED BY <3>1, <1>b
  <2>2. CASE UNCHANGED nvManifest
    BY <2>2
  <2> QED BY <1>25, <2>1, <2>2 DEF Delivered
<1>26. CASE AppCallbackFails
  <2>1. src' = SetValue(SetValue([src EXCEPT !.flight = "none"], "FAILED"), "IDLE")
    BY <1>26 DEF AppCallbackFails, Report
  <2>2. src'.result = "FAILED"
    BY <1>t, <2>1, SourceUpdate, FailureTold
  <2> QED BY <2>2
<1>27. CASE DeliveryFailed
  BY <1>27 DEF DeliveryFailed
<1>28. CASE SendNext
  BY <1>28 DEF SendNext
<1>29. CASE Disconnect
  BY <1>29 DEF Disconnect
<1>30. CASE RegistrationUpdated
  BY <1>30 DEF RegistrationUpdated
<1>31. CASE Registered
  BY <1>31 DEF Registered
<1>32. CASE OnReboot
  BY <1>32 DEF OnReboot, Restart
<1>33. CASE PowerLoss
  BY <1>33 DEF PowerLoss, Restart
<1>34. CASE PowerCycle
  BY <1>34 DEF PowerCycle, Restart
<1>35. CASE UNCHANGED vars
  BY <1>35 DEF vars
<1> QED BY <1>1, <1>2, <1>3, <1>4, <1>5, <1>6, <1>7, <1>8, <1>9, <1>9a, <1>10, <1>11,
           <1>12, <1>13, <1>14, <1>15, <1>16, <1>17, <1>18, <1>19, <1>20, <1>21, <1>22,
           <1>23, <1>24, <1>25, <1>26, <1>27, <1>28, <1>29, <1>30, <1>31, <1>32, <1>33,
           <1>34, <1>35 DEF Next

\* Notifications do not change the result.
LEMMA FlightResult ==
  ASSUME NEW s \in Source, NEW f, NEW q
  PROVE  /\ [s EXCEPT !.flight = f].result = s.result
         /\ [s EXCEPT !.flight = f, !.queued = q].result = s.result
BY DEF Source

\* A step that reports success ends install_component.
LEMMA SuccessStep ==
  ASSUME IInv, RestartInstall, [Next]_vars, src.result # "OK", src'.result = "OK"
  PROVE  /\ image'[ManComp[man]] = man
         /\ ManComp[man] \in unrecorded' \/ nvVersion'[ManComp[man]] = ManVer[man]
<1> USE DEF IInv, ControlInv, Running, Idle, Active, nvm, store, comps, records, ctx, reports, io
<1>t. src \in Source
  BY DEF TypeOK, ValueTypes
<1>s. /\ {"UNSET", "IDLE", "PROCESSING_MANIFEST", "AWAITING_DOWNLOAD_APPROVAL", "DOWNLOADING",
          "AWAITING_APPLICATION_APPROVAL", "UPDATING", "REBOOTING"} \subseteq SourceStates
      /\ "FAILED" \in Results /\ "NO_RESULT" \in Results
  BY DEF SourceStates, Results
<1>v. /\ \A v \in {"AWAITING_DOWNLOAD_APPROVAL", "DOWNLOADING", "AWAITING_APPLICATION_APPROVAL",
                   "UPDATING", "REBOOTING"} : SetValue(src, v).result = src.result
      /\ SetValue(src, "FAILED").result = "FAILED"
  BY <1>t, <1>s, SetValueResult
<1>a. ASSUME NEW t, BeginAbort(t) PROVE src'.result # "OK"
  <2>1. SetValue(src, "PROCESSING_MANIFEST").result = src.result
    BY <1>t, <1>s, SetValueResult
  <2> QED BY <1>t, <1>a, <2>1, FailureTold DEF BeginAbort, Report
<1>1. CASE Bootloader
  BY <1>1 DEF Bootloader
<1>2. CASE FotaInit
  BY <1>2 DEF FotaInit
<1>3. CASE PostInstallVerify
  BY <1>3 DEF PostInstallVerify
<1>4. CASE PostInstallErase
  BY <1>4 DEF PostInstallErase
<1>5. CASE PostInstallKey
  BY <1>5, <1>v DEF PostInstallKey, Report
<1>6. CASE \E m \in Manifests : GotManifest(m)
  <2>1. src' = SetValue(SetValue(src, "UNSET"), "NO_RESULT")
    BY <1>6 DEF GotManifest, HandleManifest
  <2>2. SetValue(src, "UNSET") \in Source
    BY <1>t, <1>s, SetValueType
  <2> QED BY <1>s, <2>1, <2>2, SetValueResult
<1>7. CASE Parse
  BY <1>7, <1>a, <1>v DEF Parse, Report
<1>8. CASE AbortKey
  BY <1>8 DEF AbortKey
<1>9. CASE InsufficientStorage
  BY <1>9, <1>a DEF InsufficientStorage
<1>9a. CASE ProgramFails
  BY <1>9a, <1>a DEF ProgramFails
<1>10. CASE NoResume
  BY <1>10 DEF NoResume
<1>11. CASE ResumeReady
  BY <1>11, <1>a, <1>v DEF ResumeReady, Finalize, Report
<1>12. CASE ResumeBlocks
  BY <1>12, <1>a, <1>v DEF ResumeBlocks, Finalize, Report
<1>13. CASE Erase
  BY <1>13, <1>a DEF Erase
<1>14. CASE ProgramHeader
  BY <1>14, <1>v DEF ProgramHeader, Report
<1>15. CASE \E r \in reqs : OnFragment(r)
  BY <1>15, <1>a DEF OnFragment
<1>16. CASE \E r \in reqs : FragmentError(r)
  BY <1>16 DEF FragmentError
<1>17. CASE ProgramDone
  BY <1>17, <1>a, <1>v DEF ProgramDone, Finalize, Report
<1>18. CASE ReadyDone
  BY <1>18, <1>a, <1>v DEF ReadyDone, AfterReady, Report
<1>19. CASE Iterate
  BY <1>19, <1>a DEF Iterate
<1>20. CASE Installed
  BY <1>20, <1>a, <1>v DEF Installed, InstallerFails, Report
<1>21. CASE InstallVerify
  BY <1>21 DEF InstallVerify
<1>22. CASE InstallFinish
  BY <1>22 DEF InstallFinish, RestartInstall
<1>23. CASE Dispatch
  BY <1>23, <1>a, <1>v
  DEF Dispatch, OnResume, HandleManifest, OnInstallAuthorize, AfterReady, Report
<1>24. CASE \E e \in {"authorize", "reject", "defer"} : AppAnswer(e)
  BY <1>24 DEF AppAnswer
<1>25. CASE Delivered
  <2> DEFINE s == [src EXCEPT !.flight = "none"]
  <2>1. s \in Source /\ s.result = src.result
    BY <1>t, SourceUpdate, FlightResult
  <2>2. src' = s \/ src' = SetValue(s, "REBOOTING")
    BY <1>25 DEF Delivered, InstallComponent, Report
  <2>3. SetValue(s, "REBOOTING").result = s.result
    BY <1>s, <2>1, SetValueResult
  <2> QED BY <2>1, <2>2, <2>3
<1>26. CASE AppCallbackFails
  <2>1. src' = SetValue(SetValue([src EXCEPT !.flight = "none"], "FAILED"), "IDLE")
    BY <1>26 DEF AppCallbackFails, Report
  <2> QED BY <1>t, <2>1, SourceUpdate, FailureTold
<1>27. CASE DeliveryFailed
  <2> DEFINE s == IF DeliveryAborts THEN SetValue(src, "PROCESSING_MANIFEST") ELSE src
  <2>1. s \in Source /\ s.result = src.result
    BY <1>t, <1>s, SetValueType, SetValueResult
  <2>2. PICK q : src' = [s EXCEPT !.flight = "none", !.queued = q]
    BY <1>27 DEF DeliveryFailed
  <2> QED BY <2>1, <2>2, FlightResult
<1>28. CASE SendNext
  <2>1. PICK f, q : src' = [src EXCEPT !.flight = f, !.queued = q]
    BY <1>28 DEF SendNext
  <2> QED BY <1>t, <2>1, FlightResult
<1>29. CASE Disconnect
  BY <1>29 DEF Disconnect
<1>30. CASE RegistrationUpdated
  BY <1>30 DEF RegistrationUpdated
<1>31. CASE Registered
  <2>1. PICK f, q : src' = [src EXCEPT !.flight = f, !.queued = q]
    BY <1>31 DEF Registered
  <2> QED BY <1>t, <2>1, FlightResult
<1>32. CASE OnReboot
  BY <1>32 DEF OnReboot, Restart
<1>33. CASE PowerLoss
  BY <1>33 DEF PowerLoss, Restart
<1>34. CASE PowerCycle
  BY <1>34 DEF PowerCycle, Restart
<1>35. CASE UNCHANGED vars
  BY <1>35 DEF vars
<1> QED BY <1>1, <1>2, <1>3, <1>4, <1>5, <1>6, <1>7, <1>8, <1>9, <1>9a, <1>10, <1>11,
           <1>12, <1>13, <1>14, <1>15, <1>16, <1>17, <1>18, <1>19, <1>20, <1>21, <1>22,
           <1>23, <1>24, <1>25, <1>26, <1>27, <1>28, <1>29, <1>30, <1>31, <1>32, <1>33,
           <1>34, <1>35 DEF Next

-----------------------------------------------------------------------------
(*****************************************************************************)
(* Downloads that are resumed                                                *)
(*****************************************************************************)

\* With resume support, too, such a step keeps what is known of the storage, and so
\* does one that ends or aborts the download.
LEMMA ResumeKept ==
  ASSUME ResumeDownload, UNCHANGED slot,
         \/ StillDownload
         \/ state' # "downloading" /\ pc' # "header"
  PROVE  ResumeDownload'
<1>1. ErasedSuffix'
  BY DEF ResumeDownload, ErasedSuffix
<1>2. CASE state' # "downloading" /\ pc' # "header"
  BY <1>1, <1>2 DEF ResumeDownload
<1>3. CASE StillDownload
  <2>1. UNCHANGED addr => GoodUpTo(addr - 1)' = GoodUpTo(addr - 1)
    BY DEF GoodUpTo, Good
  <2> QED BY <1>1, <1>3, <2>1 DEF StillDownload, ResumeDownload, Unwritten
<1> QED BY <1>2, <1>3

\* Every step keeps the used slots in front of the erased ones.
LEMMA ResumeDownloadStep ==
  ASSUME ResumeSupport = "resume", HeaderSlack = 0, IInv, ResumeDownload, [Next]_vars
  PROVE  ResumeDownload'
<1> USE DEF IInv, ControlInv, Sequencing, PcMatchesState, ContextHasManifest, OneFragment,
            Running, Idle, Active, Halt, nvm, store, comps, records, ctx, reports, io
<1>c. Cap \in Nat /\ Cap = Slots
  BY StorageAssumption DEF Cap
<1>p. state = "downloading" /\ pc # "abort" => addr \in 1..Cap
  BY <1>c, ManifestAssumption DEF SpaceLeft, TypeOK, ValueTypes
<1>e. ASSUME UNCHANGED slot, state' # "downloading", pc' # "header" PROVE ResumeDownload'
  BY <1>e, ResumeKept
<1>q. ASSUME StillDownload PROVE ResumeDownload'
  BY <1>q, ResumeKept DEF StillDownload
<1> USE DEF StillDownload
<1>1. CASE Bootloader
  BY <1>1, <1>q DEF Bootloader
<1>2. CASE FotaInit
  BY <1>2, <1>q DEF FotaInit
<1>3. CASE PostInstallVerify
  BY <1>3, <1>q DEF PostInstallVerify, InstallVerified
<1>4. CASE PostInstallErase
  BY <1>4, <1>q DEF PostInstallErase, EraseHeaders
<1>5. CASE PostInstallKey
  BY <1>5, <1>q DEF PostInstallKey, Report
<1>6. CASE \E m \in Manifests : GotManifest(m)
  BY <1>6, <1>q DEF GotManifest, IsReady, HandleManifest
<1>7. CASE Parse
  BY <1>7, <1>q DEF Parse, Report, BeginAbort, ManifestAfterAbort
<1>8. CASE AbortKey
  BY <1>8, <1>q DEF AbortKey, ClearContext
<1>9. CASE InsufficientStorage
  BY <1>9, <1>q DEF InsufficientStorage, BeginAbort, Report, ManifestAfterAbort
<1>9a. CASE ProgramFails
  BY <1>9a, <1>q DEF ProgramFails, BeginAbort, Report, ManifestAfterAbort
<1>10. CASE NoResume
  BY <1>10, <1>q DEF NoResume, StorageFits
<1>11. CASE ResumeReady
  <2>1. /\ state' \in {"await_install", "await_download"} /\ pc' \in {"idle", "abort"}
        /\ UNCHANGED slot
    BY <1>11 DEF ResumeReady, StorageFits, Finalize, BeginAbort
  <2> QED BY <2>1, <1>e
<1>12. CASE ResumeBlocks
  <2> PICK k \in 1..(Cap + 1) :
             /\ StopsAt(k) /\ ~DoesNotFit(k)
             /\ \A j \in 1..(k - 1) : ~StopsAt(j)
             /\ off' = GoodUpTo(k - 1) /\ addr' = k
             /\ BlocksLeft(k) = 0 => Finalize(PrefixOf(man, k))
             /\ BlocksLeft(k) # 0 => state' = "downloading" /\ pc' = "idle"
    BY <1>12 DEF ResumeBlocks
  <2>1. UNCHANGED slot /\ pc = "storage" /\ state = "await_download"
    BY <1>12 DEF ResumeBlocks, StorageFits
  <2>2. CASE BlocksLeft(k) = 0
    <3>1. state' \in {"await_install", "await_download"} /\ pc' \in {"idle", "abort"}
      BY <2>1, <2>2 DEF Finalize, BeginAbort
    <3> QED BY <2>1, <3>1, <1>e
  <2>3. CASE BlocksLeft(k) # 0
    <3>1. k \in 1..Cap /\ slot[k] = Blank
      BY <2>3, <1>c DEF StopsAt
    <3>2. \A j \in 1..(k - 1) : slot[j] # Blank
      BY <3>1, <1>c DEF StopsAt
    <3>3. \A j \in k..Cap : slot[j] = Blank
      BY <3>1, <1>c DEF ResumeDownload, ErasedSuffix
    <3>4. GoodUpTo(addr - 1)' = GoodUpTo(k - 1)
      BY <2>1 DEF GoodUpTo, Good
    <3> QED BY <2>1, <2>3, <3>2, <3>3, <3>4 DEF ResumeDownload, ErasedSuffix, Unwritten
  <2> QED BY <2>2, <2>3
<1>13. CASE Erase
  <2>1. CASE BeginAbort(TRUE) /\ UNCHANGED store
    BY <1>13, <2>1, <1>q DEF Erase, BeginAbort
  <2>2. CASE pc' = "header" /\ UNCHANGED <<man, state>>
             /\ slot' = [k \in 1..Cap |->
                           IF k <= (IF ResumeSupport = "resume" THEN Slots ELSE ManBlocks[man])
                           THEN Blank ELSE slot[k]]
    <3>1. \A k \in 1..Cap : slot'[k] = Blank
      BY <2>2, <1>c
    <3>2. state' = "await_download"
      BY <1>13, <2>2 DEF Erase
    <3> QED BY <2>2, <3>1, <3>2 DEF ResumeDownload, ErasedSuffix
  <2> QED BY <1>13, <2>1, <2>2 DEF Erase
<1>14. CASE ProgramHeader
  <2>1. /\ state' = "downloading" /\ pc' = "idle" /\ UNCHANGED <<off, addr, slot>>
        /\ off = 0 /\ addr = 1 /\ \A k \in 1..Cap : slot[k] = Blank
    BY <1>14 DEF ProgramHeader, SpaceLeft, ResumeDownload
  <2>2. GoodUpTo(addr - 1)' = GoodUpTo(0)
    BY <2>1 DEF GoodUpTo, Good
  <2> QED BY <2>1, <2>2, GoodUpToZero DEF ResumeDownload, ErasedSuffix, Unwritten
<1>15. CASE \E r \in reqs : OnFragment(r)
  <2>1. PICK r \in reqs : OnFragment(r)
    BY <1>15
  <2>2. CASE slot' = slot /\ ((state # "downloading" /\ UNCHANGED pc) \/ BeginAbort(TRUE))
    BY <2>1, <2>2, <1>q DEF OnFragment, BeginAbort
  <2>3. CASE slot' = [slot EXCEPT ![addr] = Torn] /\ pc' = "program" /\ state = "downloading"
    <3>1. UNCHANGED ctx /\ pc = "idle"
      BY <2>1, <2>3 DEF OnFragment
    <3>2. /\ off = GoodUpTo(addr - 1)
          /\ \A k \in 1..(addr - 1) : slot[k] # Blank
          /\ \A k \in addr..Cap : slot[k] = Blank
      BY <2>3, <3>1 DEF ResumeDownload, Unwritten
    <3>3. addr \in 1..Cap
      BY <2>3, <3>1, <1>p
    <3>4. slot'[addr] = Torn /\ \A k \in 1..Cap : k # addr => slot'[k] = slot[k]
      BY <2>3, <3>3 DEF TypeOK, ValueTypes
    <3>5. \A k \in 1..(addr - 1) : slot'[k] # Blank
      BY <3>2, <3>3, <3>4, <1>c
    <3>6. \A k \in (addr + 1)..Cap : slot'[k] = Blank
      BY <3>2, <3>3, <3>4, <1>c
    <3>7. \A j, k \in 1..Cap : j < k /\ slot'[j] = Blank => slot'[k] = Blank
      BY <3>3, <3>4, <3>5, <3>6, <1>c, StorageAssumption
    <3>8. GoodUpTo(addr - 1)' = GoodUpTo(addr - 1)
      <4>1. \A k \in 1..(addr - 1) : slot'[k] = slot[k]
        BY <3>3, <3>4, <1>c
      <4>2. {k \in 1..(addr - 1) : Good(k)'} = {k \in 1..(addr - 1) : Good(k)}
        BY <4>1 DEF Good
      <4> QED BY <3>1, <4>2 DEF GoodUpTo
    <3> QED BY <2>3, <3>1, <3>2, <3>5, <3>6, <3>7, <3>8
            DEF ResumeDownload, ErasedSuffix, Unwritten
  <2> QED BY <2>1, <2>2, <2>3 DEF OnFragment
<1>16. CASE \E r \in reqs : FragmentError(r)
  BY <1>16, <1>q DEF FragmentError
<1>17. CASE ProgramDone
  <2>1. /\ pc = "program" /\ state = "downloading" /\ man \in Manifests
        /\ incoming = <<man, off + 1>> /\ off \in Nat
    BY <1>17 DEF ProgramDone, TypeOK, ValueTypes
  <2>2. /\ off = GoodUpTo(addr - 1)
        /\ \A k \in 1..(addr - 1) : slot[k] # Blank
        /\ \A k \in (addr + 1)..Cap : slot[k] = Blank
    BY <2>1 DEF ResumeDownload, Unwritten
  <2>3. /\ addr' = addr + 1 /\ off' = off + 1
        /\ slot' = [slot EXCEPT ![addr] = <<man, off + 1>>]
        /\ off + 1 = ManBlocks[man] => Finalize(hashOk')
        /\ off + 1 # ManBlocks[man] => pc' = "idle" /\ UNCHANGED state
    BY <1>17, <2>1 DEF ProgramDone
  <2>4. addr \in 1..Cap /\ addr \in Nat \ {0}
    BY <2>1, <1>p, <1>c
  <2>5. /\ \A k \in 1..Cap : k # addr => slot'[k] = slot[k]
        /\ slot'[addr] = <<man, off + 1>>
    <3>1. slot \in [1..Cap -> Block \cup {Blank, Torn}]
      BY DEF TypeOK, ValueTypes
    <3> QED BY <2>3, <2>4, <3>1
  <2>6. slot'[addr] \notin {Blank, Torn}
    <3>1. <<man, off + 1>> \in Manifests \X Nat
      BY <2>1
    <3> QED BY <2>5, <3>1, StorageAssumption
  <2>7. \A k \in 1..((addr + 1) - 1) : slot'[k] # Blank
    <3>1. \A k \in 1..((addr + 1) - 1) : k = addr \/ (k \in 1..(addr - 1) /\ k \in 1..Cap /\ k # addr)
      BY <2>4, <1>c
    <3>2. \A k \in 1..(addr - 1) : k \in 1..Cap /\ k # addr => slot'[k] # Blank
      BY <2>2, <2>5
    <3>3. slot'[addr] # Blank
      BY <2>6
    <3> QED BY <3>1, <3>2, <3>3
  <2>8. \A k \in (addr + 1)..Cap : slot'[k] = Blank
    BY <2>2, <2>4, <2>5, <1>c
  <2>9. \A j, k \in 1..Cap : j < k /\ slot'[j] = Blank => slot'[k] = Blank
    BY <2>4, <2>7, <2>8, <1>c
  <2>10. off' = GoodUpTo(addr - 1)'
    <3> DEFINE S == {k \in 1..(addr - 1) : Good(k)}
    <3>1. IsFiniteSet(S) /\ Cardinality(S) = off
      <4>1. IsFiniteSet(1..(addr - 1))
        BY <2>4, FS_Interval
      <4> QED BY <2>2, <4>1, FS_Subset DEF GoodUpTo
    <3>2. {k \in 1..((addr + 1) - 1) : Good(k)'} = S \cup {addr}
      <4>1. \A k \in 1..(addr - 1) : Good(k)' = Good(k)
        BY <2>4, <2>5, <1>c DEF Good
      <4>2. \A k : k = addr => (Good(k)' <=> slot'[addr] \notin {Blank, Torn})
        BY DEF Good
      <4> QED BY <2>4, <2>6, <4>1, <4>2
    <3>3. addr \notin S
      BY <2>4
    <3>4. Cardinality(S \cup {addr}) = off + 1
      BY <3>1, <3>3, FS_AddElement
    <3> QED BY <2>3, <3>2, <3>4 DEF GoodUpTo
  <2>11. CASE off + 1 = ManBlocks[man]
    <3>1. pc' # "header" /\ (state' = "downloading" => pc' = "abort")
      BY <2>1, <2>3, <2>11 DEF Finalize, BeginAbort
    <3> QED BY <2>9, <3>1 DEF ResumeDownload, ErasedSuffix
  <2>12. CASE off + 1 # ManBlocks[man]
    <3>1. pc' = "idle" /\ state' = "downloading"
      BY <2>1, <2>3, <2>12
    <3>2. \A k \in 1..(addr' - 1) : slot'[k] # Blank
      BY <2>3, <2>7
    <3>3. \A k \in addr'..Cap : slot'[k] = Blank
      BY <2>3, <2>8
    <3> QED BY <2>9, <2>10, <3>1, <3>2, <3>3 DEF ResumeDownload, ErasedSuffix, Unwritten
  <2> QED BY <2>11, <2>12
<1>18. CASE ReadyDone
  BY <1>18, <1>q DEF ReadyDone, AfterReady, ClearContext, Report, BeginAbort, ManifestAfterAbort
<1>19. CASE Iterate
  BY <1>19, <1>q DEF Iterate, BeginAbort, Report, ManifestAfterAbort
<1>20. CASE Installed
  BY <1>20, <1>q DEF Installed, Report, InstallerFails, BeginAbort, ManifestAfterAbort
<1>21. CASE InstallVerify
  BY <1>21, <1>q DEF InstallVerify, InstallVerified
<1>22. CASE InstallFinish
  BY <1>22, <1>q DEF InstallFinish, Report, ClearContext
<1>23. CASE Dispatch
  <2>1. CASE event = "authorize" /\ state = "await_download" /\ OnDownloadAuthorize /\ UNCHANGED state
    <3>1. pc' = "storage" /\ state' = "await_download"
      BY <2>1 DEF OnDownloadAuthorize
    <3>2. \A k \in 1..Cap : slot'[k] = Blank <=> slot[k] = Blank
      BY <2>1, StorageAssumption DEF OnDownloadAuthorize, Rekeyed
    <3> QED BY <3>1, <3>2 DEF ResumeDownload, ErasedSuffix
  <2>2. CASE UNCHANGED slot /\ ~(event = "authorize" /\ state = "await_download")
    BY <1>23, <2>2, <1>q
    DEF Dispatch, OnResume, HandleManifest, OnInstallAuthorize, AfterReady,
        ClearContext, BeginAbort
  <2> QED BY <1>23, <2>1, <2>2 DEF Dispatch
<1>24. CASE \E e \in {"authorize", "reject", "defer"} : AppAnswer(e)
  BY <1>24, <1>q DEF AppAnswer
<1>25. CASE Delivered
  BY <1>25, <1>q DEF Delivered, OneToken, ForgetCallback, InstallComponent
<1>26. CASE AppCallbackFails
  BY <1>26, <1>q DEF AppCallbackFails, Report
<1>27. CASE DeliveryFailed
  BY <1>27, <1>q DEF DeliveryFailed, DeliveryAborts
<1>28. CASE SendNext
  BY <1>28, <1>q DEF SendNext
<1>29. CASE Disconnect
  BY <1>29, <1>q DEF Disconnect
<1>30. CASE RegistrationUpdated
  BY <1>30, <1>q DEF RegistrationUpdated
<1>31. CASE Registered
  BY <1>31, <1>q DEF Registered
<1>32. CASE OnReboot
  BY <1>32, <1>q DEF OnReboot, Restart, ClearContext
<1>33. CASE PowerLoss
  BY <1>33, <1>q DEF PowerLoss, Restart, ClearContext
<1>34. CASE PowerCycle
  BY <1>34, <1>q DEF PowerCycle, Restart, ClearContext
<1>35. CASE UNCHANGED vars
  BY <1>35, <1>q DEF vars
<1> QED BY <1>1, <1>2, <1>3, <1>4, <1>5, <1>6, <1>7, <1>8, <1>9, <1>9a, <1>10, <1>11,
           <1>12, <1>13, <1>14, <1>15, <1>16, <1>17, <1>18, <1>19, <1>20, <1>21, <1>22,
           <1>23, <1>24, <1>25, <1>26, <1>27, <1>28, <1>29, <1>30, <1>31, <1>32, <1>33,
           <1>34, <1>35 DEF Next

-----------------------------------------------------------------------------
(*****************************************************************************)
(* Versions                                                                  *)
(*****************************************************************************)

\* Every step keeps the candidate complete and newer than what it replaces.
LEMMA CandidateStep ==
  ASSUME ResumeSupport # "resume", ~Encryption, IInv, RestartInv, VersionInv, [Next]_vars
  PROVE  CandidateInv'
<1> USE DEF IInv, ControlInv, Sequencing, PcMatchesState, ContextHasManifest, VersionInv,
            Running, Idle, Active, Halt, nvm, store, comps, records, ctx, reports, io
<1>m. Main \in Components /\ Blank \notin Components /\ Torn \notin Components /\ Blank \notin Manifests
  BY ComponentAssumption, StorageAssumption
<1>v. /\ hdr # Blank => ManVer[hdr] \in Nat
      /\ \A c \in Components : BootVersion(c) \in Nat
  BY ManifestAssumption, BootTypes DEF TypeOK, ValueTypes
<1>b. ASSUME image'[Main] = image[Main]
      PROVE  \A c \in Components :
               c = Main \/ nvVersion'[c] = nvVersion[c] => BootVersion(c)' = BootVersion(c)
  BY <1>b DEF BootVersion, VersionOf
<1>q. ASSUME UNCHANGED <<cand, hdr, slot, image, nvVersion>>,
             pc' \notin {"init", "post_install"} \/ pc' = pc
      PROVE  CandidateInv'
  BY <1>m, <1>b, <1>q DEF CandidateInv, Stored
<1>r. ASSUME state = "await_install", pc # "install_key",
             UNCHANGED <<hdr, slot, image, nvVersion>>, cand' = ManComp[man], pc' \notin {"init", "post_install"}
      PROVE  CandidateInv'
  <2>1. hdr = man /\ Stored(man) /\ man \in Manifests
    BY <1>r DEF RestartInv, RestartControl, HeaderMatchesUpdate, RestartDownload
  <2>2. ManComp[man] \in Components /\ ManVer[man] \in Nat /\ version[ManComp[man]] \in Nat
    BY <2>1, ManifestAssumption DEF TypeOK, ValueTypes
  <2>3. ManVer[man] > BootVersion(ManComp[man])
    <3>1. ManVer[man] > version[ManComp[man]]
      BY <1>r DEF NewerInv
    <3>2. version[ManComp[man]] >= BootVersion(ManComp[man])
      <4>1. CASE ManComp[man] = Main
        <5>1. BootVersion(Main) <= VersionOf(Main, image[Main]) /\ VersionOf(Main, image[Main]) \in Nat
          BY <1>m, BootTypes, VersionAssumption DEF BootVersion, TypeOK
        <5> QED BY <1>r, <1>v, <1>m, <4>1, <5>1 DEF NewerInv
      <4>2. CASE ManComp[man] # Main
        BY <2>2, <4>2 DEF NewerInv, BootVersion
      <4> QED BY <4>1, <4>2
    <3> QED BY <1>v, <2>2, <3>1, <3>2
  <2> QED BY <1>m, <1>b, <1>r, <1>v, <2>1, <2>2, <2>3 DEF CandidateInv, Stored
<1>1. CASE Bootloader
  <2>1. UNCHANGED <<cand, hdr, slot, nvVersion>> /\ pc' = "init"
    BY <1>1 DEF Bootloader
  <2>2. ASSUME cand = Main PROVE image'[Main] = hdr /\ hdr \in Manifests
    <3>1. hdr \in Manifests /\ hdr # Blank /\ Stored(hdr)
      BY <2>2, <1>m DEF CandidateInv, TypeOK, ValueTypes
    <3>2. ImageValid(hdr)
      BY <3>1, StoredIsValid
    <3> QED BY <1>1, <2>2, <3>1, <3>2, <1>m DEF Bootloader, TypeOK, ValueTypes
  <2>3. CASE cand = Main
    <3>1. BootVersion(Main)' <= ManVer[hdr]
      <4>1. BootVersion(Main)' = Reprinted[ManVer[hdr]]
        BY <2>2, <2>3 DEF BootVersion, VersionOf
      <4> QED BY <2>2, <2>3, <4>1, VersionAssumption DEF Versions
    <3> QED BY <1>v, <2>1, <2>2, <2>3, <3>1 DEF CandidateInv, Stored
  <2>4. CASE cand # Main
    BY <1>m, <2>1, <2>4 DEF CandidateInv, Stored, BootVersion
  <2> QED BY <2>3, <2>4
<1>2. CASE FotaInit
  <2>1. UNCHANGED <<cand, hdr, slot, image, nvVersion>> /\ pc = "init"
    BY <1>2 DEF FotaInit
  <2> QED BY <1>m, <1>b, <2>1 DEF CandidateInv, Stored
<1>3. CASE PostInstallVerify
  <2>1. UNCHANGED <<cand, hdr, slot, image>> /\ pc = "post_install" /\ pc' \notin {"init", "post_install"}
    BY <1>3 DEF PostInstallVerify
  <2>2. CASE UNCHANGED nvVersion
    BY <2>1, <2>2, <1>q
  <2>3. CASE cand \in Components /\ nvVersion' = [nvVersion EXCEPT ![cand] = ManVer[hdr]]
    <3>1. nvVersion'[cand] = ManVer[hdr]
      BY <2>3 DEF TypeOK, ValueTypes
    <3>2. cand # Main => BootVersion(cand)' = ManVer[hdr]
      BY <3>1, <2>1 DEF BootVersion
    <3>3. BootVersion(Main)' = BootVersion(Main)
      BY <1>m, <1>b, <2>1
    <3> QED BY <2>1, <2>3, <3>2, <3>3, <1>v DEF CandidateInv, Stored
  <2> QED BY <1>3, <2>2, <2>3 DEF PostInstallVerify, InstallVerified, InstallRefused
<1>4. CASE PostInstallErase
  <2>1. UNCHANGED <<slot, image, nvVersion>> /\ pc' \notin {"init", "post_install"}
    BY <1>4 DEF PostInstallErase
  <2>2. CASE UNCHANGED <<cand, hdr>>
    BY <2>1, <2>2, <1>q
  <2>3. CASE cand' = Blank
    BY <2>3, <1>m DEF CandidateInv
  <2> QED BY <1>4, <2>2, <2>3 DEF PostInstallErase, EraseHeaders
<1>5. CASE PostInstallKey
  BY <1>5, <1>q DEF PostInstallKey, Report
<1>6. CASE \E m \in Manifests : GotManifest(m)
  BY <1>6, <1>q DEF GotManifest, IsReady, HandleManifest
<1>7. CASE Parse
  BY <1>7, <1>q DEF Parse, Report, BeginAbort, ManifestAfterAbort
<1>8. CASE AbortKey
  BY <1>8, <1>q DEF AbortKey, ClearContext
<1>9. CASE InsufficientStorage
  BY <1>9, <1>q DEF InsufficientStorage, BeginAbort, Report, ManifestAfterAbort
<1>9a. CASE ProgramFails
  BY <1>9a, <1>q DEF ProgramFails, BeginAbort, Report, ManifestAfterAbort
<1>10. CASE NoResume
  BY <1>10, <1>q DEF NoResume, StorageFits
<1>11. CASE ResumeReady
  BY <1>11, <1>q DEF ResumeReady, Finalize, BeginAbort
<1>12. CASE ResumeBlocks
  BY <1>12, <1>q DEF ResumeBlocks, Finalize, BeginAbort
<1>13. CASE Erase
  <2>1. CASE UNCHANGED store
    BY <1>13, <2>1, <1>q DEF Erase, BeginAbort
  <2>2. CASE cand' = Blank
    BY <2>2, <1>m DEF CandidateInv
  <2> QED BY <1>13, <2>1, <2>2 DEF Erase, EraseHeaders
<1>14. CASE ProgramHeader
  <2>1. cand' = Blank
    BY <1>14 DEF ProgramHeader, ImageInv, HeaderInv
  <2> QED BY <2>1, <1>m DEF CandidateInv
<1>15. CASE \E r \in reqs : OnFragment(r)
  <2>1. CASE state # "downloading"
    BY <1>15, <2>1, <1>q DEF OnFragment
  <2>2. CASE state = "downloading"
    <3>1. cand' = Blank
      BY <1>15, <2>2 DEF OnFragment, ImageInv, HeaderInv
    <3> QED BY <3>1, <1>m DEF CandidateInv
  <2> QED BY <2>1, <2>2
<1>16. CASE \E r \in reqs : FragmentError(r)
  BY <1>16, <1>q DEF FragmentError
<1>17. CASE ProgramDone
  <2>1. cand' = Blank
    BY <1>17 DEF ProgramDone, ImageInv, HeaderInv
  <2> QED BY <2>1, <1>m DEF CandidateInv
<1>18. CASE ReadyDone
  <2>1. /\ state = "await_install" /\ pc \notin Installing /\ pc # "install_key"
        /\ UNCHANGED <<hdr, slot, image, nvVersion>> /\ cand' = ManComp[man]
        /\ pc' \notin {"init", "post_install"}
    BY <1>18 DEF ReadyDone, AfterReady, BeginAbort, Installing
  <2> QED BY <2>1, <1>r
<1>19. CASE Iterate
  <2>1. UNCHANGED <<cand, hdr, slot, nvVersion>> /\ pc' \notin {"init", "post_install"}
    BY <1>19 DEF Iterate, BeginAbort
  <2>2. image'[Main] = image[Main]
    BY <1>19, <1>m DEF Iterate, NewerInv, Installing, TypeOK, ValueTypes
  <2> QED BY <1>m, <1>b, <2>1, <2>2 DEF CandidateInv, Stored
<1>20. CASE Installed
  <2>1. UNCHANGED <<cand, hdr, slot, nvVersion>> /\ pc' \notin {"init", "post_install"}
    BY <1>20 DEF Installed, InstallerFails, BeginAbort
  <2>2. image'[Main] = image[Main]
    BY <1>20, <1>m DEF Installed, InstallerFails, NewerInv, Installing, TypeOK, ValueTypes
  <2> QED BY <1>m, <1>b, <2>1, <2>2 DEF CandidateInv, Stored
<1>21. CASE InstallVerify
  <2>1. /\ UNCHANGED <<cand, hdr, slot, image>> /\ pc' \notin {"init", "post_install"}
        /\ cand = ManComp[man] /\ hdr = man /\ man \in Manifests /\ ManComp[man] # Main
        /\ \/ InstallVerified(ManComp[man], ManVer[man])
           \/ InstallRefused(ManComp[man], ManVer[man])
    BY <1>21
    DEF InstallVerify, RestartInv, RestartControl, HeaderMatchesUpdate, NewerInv, Installing
  <2>2. ManComp[man] \in Components /\ ManVer[man] \in Nat
    BY <2>1, ManifestAssumption
  <2>3. nvVersion' \in {nvVersion, [nvVersion EXCEPT ![cand] = ManVer[hdr]]}
    BY <2>1, <2>2, VerifyEffect DEF TypeOK
  <2>4. nvVersion'[cand] \in {ManVer[hdr], nvVersion[cand]}
    BY <2>1, <2>2, <2>3 DEF TypeOK, ValueTypes
  <2>5. BootVersion(cand)' \in {ManVer[hdr], BootVersion(cand)}
    BY <2>1, <2>4 DEF BootVersion
  <2> QED BY <2>1, <2>2, <2>5, <1>v DEF CandidateInv, Stored
<1>22. CASE InstallFinish
  BY <1>22, <1>q DEF InstallFinish, Report, ClearContext
<1>23. CASE Dispatch
  <2>1. UNCHANGED <<hdr, image, nvVersion>> /\ pc = "idle" /\ pc' \notin {"init", "post_install"}
    BY <1>23
    DEF Dispatch, OnResume, HandleManifest, OnDownloadAuthorize, OnInstallAuthorize, AfterReady, BeginAbort
  <2>2. CASE UNCHANGED <<cand, slot>>
    BY <2>1, <2>2, <1>q
  <2>3. CASE OnDownloadAuthorize /\ UNCHANGED cand
    BY <2>1, <2>3, <1>q DEF OnDownloadAuthorize, Rekeyed
  <2>4. CASE state = "await_install" /\ cand' \in {Torn, ManComp[man]} /\ UNCHANGED slot
    <3>1. CASE cand' = Torn
      BY <3>1, <1>m DEF CandidateInv
    <3>2. CASE cand' = ManComp[man]
      BY <2>1, <2>4, <3>2, <1>r DEF Installing
    <3> QED BY <2>4, <3>1, <3>2
  <2> QED BY <1>23, <2>2, <2>3, <2>4 DEF Dispatch, OnInstallAuthorize
<1>24. CASE \E e \in {"authorize", "reject", "defer"} : AppAnswer(e)
  BY <1>24, <1>q DEF AppAnswer
<1>25. CASE Delivered
  BY <1>25, <1>q DEF Delivered, ForgetCallback, InstallComponent, Report
<1>26. CASE AppCallbackFails
  BY <1>26, <1>q DEF AppCallbackFails, Report
<1>27. CASE DeliveryFailed
  BY <1>27, <1>q DEF DeliveryFailed, DeliveryAborts
<1>28. CASE SendNext
  BY <1>28, <1>q DEF SendNext
<1>29. CASE Disconnect
  BY <1>29, <1>q DEF Disconnect
<1>30. CASE RegistrationUpdated
  BY <1>30, <1>q DEF RegistrationUpdated
<1>31. CASE Registered
  BY <1>31, <1>q DEF Registered
<1>32. CASE OnReboot
  BY <1>32, <1>q DEF OnReboot, Restart
<1>33. CASE PowerLoss
  BY <1>33, <1>q DEF PowerLoss, Restart
<1>34. CASE PowerCycle
  BY <1>34, <1>q DEF PowerCycle, Restart
<1>35. CASE UNCHANGED vars
  BY <1>35, <1>q DEF vars
<1> QED BY <1>1, <1>2, <1>3, <1>4, <1>5, <1>6, <1>7, <1>8, <1>9, <1>9a, <1>10, <1>11,
           <1>12, <1>13, <1>14, <1>15, <1>16, <1>17, <1>18, <1>19, <1>20, <1>21, <1>22,
           <1>23, <1>24, <1>25, <1>26, <1>27, <1>28, <1>29, <1>30, <1>31, <1>32, <1>33,
           <1>34, <1>35 DEF Next

\* Where there is another component there are two.
LEMMA TwoComponents ==
  ASSUME NEW c \in Components, c # Main
  PROVE  Cardinality(Components) > 1
<1>1. IsFiniteSet(Components) /\ {c, Main} \subseteq Components
  BY ComponentAssumption
<1>2. Cardinality({c} \cup {Main}) = 2
  <2>1. IsFiniteSet({c}) /\ Cardinality({c}) = 1
    BY FS_Singleton
  <2> QED BY <2>1, FS_AddElement
<1>3. Cardinality({c} \cup {Main}) <= Cardinality(Components)
  BY <1>1, FS_Subset
<1>4. Cardinality(Components) \in Nat
  BY <1>1, FS_CardinalityType
<1> QED BY <1>2, <1>3, <1>4

\* What fota_install_verify leaves in the component table is not below the record.
LEMMA VerifiedNewer ==
  ASSUME ValueTypes, NEW c \in Components, NEW v \in Nat, InstallVerified(c, v),
         c # Main => v >= nvVersion[c],
         \A d \in Components \ {Main} : version[d] >= nvVersion[d]
  PROVE  \A d \in Components \ {Main} : version'[d] >= nvVersion'[d]
<1>1. /\ version' = [version EXCEPT ![c] = v]
      /\ nvVersion' \in {nvVersion, [nvVersion EXCEPT ![c] = v]}
  BY DEF InstallVerified
<1>2. version \in [Components -> Nat] /\ nvVersion \in [Components -> Nat]
  BY DEF ValueTypes
<1> QED BY <1>1, <1>2

\* Every step keeps accepted updates newer than the component table, and the entry of the
\* main component right or printed wrong.
LEMMA NewerStep ==
  ASSUME ResumeSupport # "resume", ~Encryption, IInv, RestartInv, VersionInv, [Next]_vars
  PROVE  NewerInv'
<1> USE DEF IInv, ControlInv, Sequencing, PcMatchesState, ContextHasManifest, VersionInv, Installing,
            Running, Idle, Active, Halt, nvm, store, comps, records, ctx, reports, io
<1>m. Main \in Components
  BY ComponentAssumption
<1>v. \A c \in Components : version[c] \in Nat /\ nvVersion[c] \in Nat
  BY DEF TypeOK, ValueTypes
<1>b. ASSUME image'[Main] = image[Main]
      PROVE  /\ VersionOf(Main, image[Main])' = VersionOf(Main, image[Main])
             /\ BootVersion(Main)' = BootVersion(Main)
  BY <1>b DEF BootVersion, VersionOf
<1>q. ASSUME UNCHANGED <<image, version, nvVersion>>,
             /\ state' \in {"await_download", "downloading", "await_install"}
             /\ pc' # "install_key"
             => /\ state \in {"await_download", "downloading", "await_install"}
                /\ pc # "install_key" /\ UNCHANGED man,
             pc' \in Installing => pc \in Installing /\ UNCHANGED man,
             pc' \notin {"boot", "init"} => pc \notin {"boot", "init"}
      PROVE  NewerInv'
  BY <1>b, <1>q DEF NewerInv
<1>n. pc = "storage" => resume # "started"
  BY DEF RestartInv, RestartControl
<1>1. CASE Bootloader
  <2>1. UNCHANGED <<version, nvVersion, state, man>> /\ pc = "boot" /\ pc' = "init"
    BY <1>1 DEF Bootloader
  <2>2. image'[Main] = image[Main] \/ (cand = Main /\ hdr \in Manifests /\ image'[Main] = hdr)
    BY <1>1, <1>m DEF Bootloader, TypeOK, ValueTypes
  <2>3. image'[Main] # Broken
    BY <2>2, ManifestAssumption DEF NewerInv
  <2> QED BY <2>1, <2>3 DEF NewerInv
<1>2. CASE FotaInit
  <2>1. /\ UNCHANGED <<image, state, nvVersion>> /\ state = "none" /\ pc' \in {"post_install", "idle"}
        /\ version' = [c \in Components |-> BootVersion(c)]
    BY <1>2 DEF FotaInit
  <2>2. /\ version'[Main] = BootVersion(Main)'
        /\ \A c \in Components \ {Main} : version'[c] >= nvVersion'[c]
    BY <1>m, <1>b, <1>v, <2>1 DEF BootVersion
  <2> QED BY <2>1, <2>2 DEF NewerInv
<1>3. CASE PostInstallVerify
  <2>1. /\ UNCHANGED <<image, state>> /\ pc = "post_install" /\ state = "none"
        /\ pc' \in {"post_key", "post_key_failed", "post_erase"}
    BY <1>3 DEF PostInstallVerify
  <2>2. CASE UNCHANGED <<version, nvVersion>>
    BY <1>b, <2>1, <2>2 DEF NewerInv
  <2>3. CASE cand \in Components /\ hdr # Blank /\ InstallVerified(cand, ManVer[hdr])
    <3>1. hdr \in Manifests /\ ManVer[hdr] \in Nat
      BY <2>3, ManifestAssumption DEF TypeOK, ValueTypes
    <3>2. version'[Main] \in {version[Main], VersionOf(Main, image[Main])}
      <4>1. version' = [version EXCEPT ![cand] = ManVer[hdr]]
        BY <2>3 DEF InstallVerified
      <4>2. cand = Main => ManVer[hdr] = VersionOf(Main, image[Main])
        BY <2>1, <2>3, <3>1 DEF CandidateInv, VersionOf
      <4> QED BY <1>m, <2>3, <4>1, <4>2 DEF TypeOK, ValueTypes
    <3>3. \A c \in Components \ {Main} : version'[c] >= nvVersion'[c]
      <4>1. cand # Main => ManVer[hdr] >= nvVersion[cand]
        BY <2>3 DEF CandidateInv, BootVersion
      <4>2. \A c \in Components \ {Main} : version[c] >= nvVersion[c]
        BY DEF NewerInv
      <4> QED BY <2>3, <3>1, <4>1, <4>2, VerifiedNewer DEF TypeOK
    <3> QED BY <1>b, <2>1, <3>2, <3>3 DEF NewerInv
  <2> QED BY <1>3, <2>2, <2>3 DEF PostInstallVerify, InstallRefused
<1>4. CASE PostInstallErase
  BY <1>4, <1>q DEF PostInstallErase, EraseHeaders
<1>5. CASE PostInstallKey
  <2>1. /\ UNCHANGED <<image, nvVersion, state>> /\ pc \in {"post_key", "post_key_failed"}
        /\ pc' = "idle" /\ version' = [nvVersion EXCEPT ![Main] = version[Main]]
    BY <1>5 DEF PostInstallKey
  <2>2. /\ version'[Main] = version[Main]
        /\ \A c \in Components \ {Main} : version'[c] >= nvVersion'[c]
    BY <1>m, <1>v, <2>1 DEF TypeOK, ValueTypes
  <2> QED BY <1>b, <2>1, <2>2 DEF NewerInv
<1>6. CASE \E m \in Manifests : GotManifest(m)
  BY <1>6, <1>q DEF GotManifest, IsReady, HandleManifest
<1>7. CASE Parse
  <2>1. /\ UNCHANGED <<comps, man>> /\ pc = "parse" /\ pc' \in {"idle", "abort"} /\ state = "idle"
        /\ state' # "idle" => ManVer[man] > version[ManComp[man]]
    BY <1>7 DEF Parse, BeginAbort, Acceptable
  <2> QED BY <1>b, <2>1 DEF NewerInv
<1>8. CASE AbortKey
  BY <1>8, <1>q DEF AbortKey, ClearContext
<1>9. CASE InsufficientStorage
  BY <1>9, <1>q DEF InsufficientStorage, BeginAbort, Report, ManifestAfterAbort
<1>9a. CASE ProgramFails
  BY <1>9a, <1>q DEF ProgramFails, BeginAbort, Report, ManifestAfterAbort
<1>10. CASE NoResume
  BY <1>10, <1>q DEF NoResume, StorageFits
<1>11. CASE ResumeReady
  BY <1>11, <1>n, <1>q DEF ResumeReady, StorageFits
<1>12. CASE ResumeBlocks
  BY <1>12, <1>n, <1>q DEF ResumeBlocks, StorageFits
<1>13. CASE Erase
  BY <1>13, <1>q DEF Erase, EraseHeaders, BeginAbort, Report, ManifestAfterAbort
<1>14. CASE ProgramHeader
  BY <1>14, <1>q DEF ProgramHeader, Report
<1>15. CASE \E r \in reqs : OnFragment(r)
  BY <1>15, <1>q DEF OnFragment, BeginAbort, Report, ManifestAfterAbort
<1>16. CASE \E r \in reqs : FragmentError(r)
  BY <1>16, <1>q DEF FragmentError
<1>17. CASE ProgramDone
  <2>1. state' \in {"downloading", "await_install"} /\ pc' \in {"idle", "abort"}
    BY <1>17 DEF ProgramDone, Finalize, BeginAbort
  <2> QED BY <1>17, <2>1, <1>q DEF ProgramDone
<1>18. CASE ReadyDone
  BY <1>18, <1>q DEF ReadyDone, AfterReady, ClearContext, Report, BeginAbort, ManifestAfterAbort
<1>19. CASE Iterate
  <2>1. UNCHANGED <<version, nvVersion, man, state>> /\ pc = "install" /\ pc' \in {"installing", "abort"}
    BY <1>19 DEF Iterate, BeginAbort
  <2>2. image'[Main] = image[Main]
    BY <1>19, <1>m DEF Iterate, NewerInv, TypeOK, ValueTypes
  <2> QED BY <1>b, <2>1, <2>2 DEF NewerInv
<1>20. CASE Installed
  <2>1. UNCHANGED <<version, nvVersion, man, state>> /\ pc = "installing" /\ pc' \in {"idle", "verify", "abort"}
    BY <1>20 DEF Installed, InstallerFails, BeginAbort
  <2>2. image'[Main] = image[Main]
    BY <1>20, <1>m DEF Installed, InstallerFails, NewerInv, TypeOK, ValueTypes
  <2> QED BY <1>b, <2>1, <2>2 DEF NewerInv
<1>21. CASE InstallVerify
  <2>1. /\ UNCHANGED <<image, man, state>> /\ pc = "verify" /\ pc' = "install_key"
        /\ ManComp[man] \in Components \ {Main} /\ ManVer[man] \in Nat
    BY <1>21, ManifestAssumption DEF InstallVerify, NewerInv
  <2>2. CASE InstallVerified(ManComp[man], ManVer[man])
    <3>1. version'[Main] = version[Main]
      BY <1>m, <2>1, <2>2 DEF InstallVerified, TypeOK, ValueTypes
    <3>2. \A c \in Components \ {Main} : version'[c] >= nvVersion'[c]
      <4>1. \A c \in Components \ {Main} : version[c] >= nvVersion[c]
        BY DEF NewerInv
      <4>2. ManVer[man] >= nvVersion[ManComp[man]]
        BY <1>v, <2>1, <4>1 DEF NewerInv
      <4> QED BY <2>1, <2>2, <4>1, <4>2, VerifiedNewer DEF TypeOK
    <3> QED BY <1>b, <2>1, <3>1, <3>2 DEF NewerInv
  <2>3. CASE UNCHANGED <<version, nvVersion>>
    BY <1>b, <2>1, <2>3 DEF NewerInv
  <2> QED BY <1>21, <2>2, <2>3 DEF InstallVerify, InstallRefused
<1>22. CASE InstallFinish
  BY <1>22, <1>q DEF InstallFinish, Report, ClearContext
<1>23. CASE Dispatch
  <2>1. /\ UNCHANGED comps /\ pc = "idle"
        /\ pc' \in {"idle", "parse", "storage", "abort", "ready", "ready_defer"}
        /\ state' \notin {"none", "idle"} => UNCHANGED <<state, man>>
    BY <1>23
    DEF Dispatch, OnResume, HandleManifest, OnDownloadAuthorize, OnInstallAuthorize, AfterReady,
        ClearContext, BeginAbort
  <2> QED BY <2>1, <1>q
<1>24. CASE \E e \in {"authorize", "reject", "defer"} : AppAnswer(e)
  BY <1>24, <1>q DEF AppAnswer
<1>25. CASE Delivered
  <2>1. /\ UNCHANGED <<comps, man, state>> /\ pc = "idle"
        /\ UNCHANGED pc \/ (ManComp[man] # Main /\ pc' = "install")
    BY <1>25 DEF Delivered, Acknowledged, InstallComponent
  <2> QED BY <1>b, <2>1 DEF NewerInv
<1>26. CASE AppCallbackFails
  BY <1>26, <1>q DEF AppCallbackFails, Acknowledged, Report
<1>27. CASE DeliveryFailed
  BY <1>27, <1>q DEF DeliveryFailed, DeliveryAborts
<1>28. CASE SendNext
  BY <1>28, <1>q DEF SendNext
<1>29. CASE Disconnect
  BY <1>29, <1>q DEF Disconnect
<1>30. CASE RegistrationUpdated
  BY <1>30, <1>q DEF RegistrationUpdated
<1>31. CASE Registered
  BY <1>31, <1>q DEF Registered
<1>32. CASE OnReboot
  BY <1>32, <1>q DEF OnReboot, Restart, ClearContext
<1>33. CASE PowerLoss
  BY <1>33, <1>q DEF PowerLoss, Restart, ClearContext
<1>34. CASE PowerCycle
  BY <1>34, <1>q DEF PowerCycle, Restart, ClearContext
<1>35. CASE UNCHANGED vars
  BY <1>35, <1>q DEF vars
<1> QED BY <1>1, <1>2, <1>3, <1>4, <1>5, <1>6, <1>7, <1>8, <1>9, <1>9a, <1>10, <1>11,
           <1>12, <1>13, <1>14, <1>15, <1>16, <1>17, <1>18, <1>19, <1>20, <1>21, <1>22,
           <1>23, <1>24, <1>25, <1>26, <1>27, <1>28, <1>29, <1>30, <1>31, <1>32, <1>33,
           <1>34, <1>35 DEF Next

\* Every step keeps the records of the other components right, or about to be put right.
LEMMA RecordStep ==
  ASSUME ResumeSupport # "resume", PostInstallCb = Components \ {Main},
         IInv, RestartInv, VersionInv, RecordInv, [Next]_vars
  PROVE  RecordInv'
<1> USE DEF IInv, ControlInv, Sequencing, PcMatchesState, ContextHasManifest, OneToken, VersionInv,
            Installing, Running, Idle, Active, Halt, Answers, nvm, store, comps, records, ctx, reports, io
<1>m. Main \in Components
  BY ComponentAssumption
<1>v. \A c \in Components : /\ version[c] \in Nat /\ nvVersion[c] \in Nat
                           /\ VersionOf(c, image[c]) \in Nat
  BY BootTypes DEF TypeOK, ValueTypes
<1>w. \A c \in Components \ {Main} :
        image[c] # Broken => nvVersion[c] <= VersionOf(c, image[c])
  BY <1>v DEF RecordInv, NewerInv
<1>q. ASSUME UNCHANGED <<image, version, nvVersion, unrecorded>>,
             \/ pc \notin {"boot", "init", "post_install", "verify"} /\ callback # "on_reboot"
             \/ UNCHANGED <<nvm, cand, hdr, pc, callback>>
      PROVE  RecordInv'
  <2>1. \A c \in Components : Pending(c) => Pending(c)'
    BY <1>q DEF Pending
  <2> QED BY <1>q, <2>1 DEF RecordInv
<1>b. ASSUME Restart PROVE RecordInv'
  <2>1. UNCHANGED <<image, version, nvVersion, unrecorded, nvm, cand, hdr>> /\ pc' = "boot"
    BY <1>b DEF Restart
  <2>2. \A c \in Components : Pending(c) => Pending(c)'
    BY <2>1 DEF Pending
  <2> QED BY <2>1, <2>2 DEF RecordInv
<1>n. pc = "storage" => resume # "started"
  BY DEF RestartInv, RestartControl
<1>1. CASE Bootloader
  <2>1. /\ UNCHANGED <<nvm, cand, hdr, version, nvVersion, unrecorded>>
        /\ pc = "boot" /\ pc' = "init"
    BY <1>1 DEF Bootloader
  <2>2. \A c \in Components \ {Main} : image'[c] = image[c]
    BY <1>1, <1>m DEF Bootloader, TypeOK, ValueTypes
  <2>3. \A c \in Components \ {Main} : Pending(c) => Pending(c)'
    BY <2>1, <2>2 DEF Pending
  <2> QED BY <2>1, <2>2, <2>3 DEF RecordInv
<1>2. CASE FotaInit
  <2>1. /\ UNCHANGED <<nvm, cand, hdr, image, nvVersion, unrecorded>> /\ pc = "init"
        /\ pc' = IF nvManifest = NoManifest /\ nvKey THEN "post_install" ELSE "idle"
        /\ version' = [c \in Components |-> BootVersion(c)]
    BY <1>2 DEF FotaInit
  <2>2. \A c \in Components \ {Main} : version'[c] = nvVersion[c]
    BY <2>1 DEF BootVersion
  <2>3. \A c \in Components : Pending(c) => Pending(c)'
    BY <2>1 DEF Pending
  <2> QED BY <1>w, <2>1, <2>2, <2>3 DEF RecordInv
<1>3. CASE PostInstallVerify
  <2> DEFINE multi == Cardinality(Components) > 1
             named == cand \in Components /\ hdr # Blank
  <2>1. /\ UNCHANGED image
        /\ \/ ~(multi /\ named) /\ UNCHANGED records
           \/ multi /\ named /\ InstallVerified(cand, ManVer[hdr])
           \/ multi /\ named /\ InstallRefused(cand, ManVer[hdr])
    BY <1>3 DEF PostInstallVerify
  <2>2. ASSUME NEW c \in Components \ {Main}, Pending(c), image[c] # Broken
        PROVE  multi /\ named /\ c = cand /\ PostInstallOk(cand, ManVer[hdr])
    <3>1. cand = c /\ hdr = image[c]
      BY <2>2 DEF Pending
    <3>2. hdr # Blank /\ hdr \in Manifests
      BY <3>1 DEF CandidateInv, TypeOK, ValueTypes
    <3>3. PostInstallOk(cand, ManVer[hdr])
      BY <2>2, <3>1, <3>2 DEF PostInstallOk, VersionOf
    <3>4. multi
      BY <1>m, TwoComponents
    <3> QED BY <3>1, <3>2, <3>3, <3>4
  <2>3. CASE ~(multi /\ named) /\ UNCHANGED records
    BY <2>1, <2>2, <2>3 DEF RecordInv
  <2>4. CASE multi /\ named /\ InstallVerified(cand, ManVer[hdr])
    <3>1. PostInstallOk(cand, ManVer[hdr])
      BY <2>4 DEF InstallVerified
    <3>2. /\ version' = [version EXCEPT ![cand] = ManVer[hdr]]
          /\ \/ nvVersion' = [nvVersion EXCEPT ![cand] = ManVer[hdr]] /\ unrecorded' = unrecorded \ {cand}
             \/ UNCHANGED nvVersion /\ unrecorded' = unrecorded \cup {cand}
      BY <2>4 DEF InstallVerified
    <3>3. ASSUME NEW c \in Components \ {Main}, image[c] # Broken, c = cand
          PROVE  /\ version'[c] = VersionOf(c, image[c])
                 /\ c \in unrecorded' \/ nvVersion'[c] = VersionOf(c, image[c])
      <4>1. VersionOf(c, image[c]) = ManVer[hdr]
        BY <3>1, <3>3 DEF PostInstallOk
      <4> QED BY <3>2, <3>3, <4>1 DEF TypeOK, ValueTypes
    <3>4. ASSUME NEW c \in Components \ {Main}, c # cand
          PROVE  version'[c] = version[c] /\ nvVersion'[c] = nvVersion[c] /\ (c \in unrecorded => c \in unrecorded')
      BY <3>2, <3>4 DEF TypeOK, ValueTypes
    <3>5. ASSUME NEW c \in Components \ {Main}, image'[c] # Broken
          PROVE  /\ version'[c] <= VersionOf(c, image'[c])
                 /\ c \in unrecorded' \/ nvVersion'[c] = VersionOf(c, image'[c])
      <4>1. CASE c = cand
        BY <1>v, <2>1, <3>3, <3>5, <4>1
      <4>2. CASE c # cand
        BY <2>1, <2>2, <3>4, <3>5, <4>2 DEF RecordInv
      <4> QED BY <4>1, <4>2
    <3> QED BY <3>5 DEF RecordInv
  <2>5. CASE multi /\ named /\ InstallRefused(cand, ManVer[hdr])
    <3>1. /\ UNCHANGED <<version, nvVersion>> /\ unrecorded \subseteq unrecorded'
          /\ ~PostInstallOk(cand, ManVer[hdr]) \/ cand \in unrecorded'
      BY <2>5 DEF InstallRefused
    <3> QED BY <2>1, <2>2, <3>1 DEF RecordInv
  <2> QED BY <2>1, <2>3, <2>4, <2>5
<1>4. CASE PostInstallErase
  BY <1>4, <1>q DEF PostInstallErase
<1>5. CASE PostInstallKey
  <2>1. /\ UNCHANGED <<image, nvVersion, unrecorded>> /\ pc \in {"post_key", "post_key_failed"}
        /\ version' = [nvVersion EXCEPT ![Main] = version[Main]]
    BY <1>5 DEF PostInstallKey
  <2>2. \A c \in Components \ {Main} : version'[c] = nvVersion[c]
    BY <2>1 DEF TypeOK, ValueTypes
  <2>3. callback = "none"
    BY <2>1
  <2>4. \A c \in Components : ~Pending(c)
    BY <2>1, <2>3 DEF Pending
  <2> QED BY <1>w, <2>1, <2>2, <2>4 DEF RecordInv
<1>6. CASE \E m \in Manifests : GotManifest(m)
  BY <1>6, <1>q DEF GotManifest
<1>7. CASE Parse
  BY <1>7, <1>q DEF Parse
<1>8. CASE AbortKey
  BY <1>8, <1>q DEF AbortKey
<1>9. CASE InsufficientStorage
  BY <1>9, <1>q DEF InsufficientStorage
<1>9a. CASE ProgramFails
  BY <1>9a, <1>q DEF ProgramFails
<1>10. CASE NoResume
  BY <1>10, <1>q DEF NoResume, StorageFits
<1>11. CASE ResumeReady
  BY <1>11, <1>n, <1>q DEF ResumeReady, StorageFits
<1>12. CASE ResumeBlocks
  BY <1>12, <1>n, <1>q DEF ResumeBlocks, StorageFits
<1>13. CASE Erase
  BY <1>13, <1>q DEF Erase
<1>14. CASE ProgramHeader
  BY <1>14, <1>q DEF ProgramHeader
<1>15. CASE \E r \in reqs : OnFragment(r)
  BY <1>15, <1>q DEF OnFragment
<1>16. CASE \E r \in reqs : FragmentError(r)
  BY <1>16, <1>q DEF FragmentError
<1>17. CASE ProgramDone
  BY <1>17, <1>q DEF ProgramDone
<1>18. CASE ReadyDone
  BY <1>18, <1>q DEF ReadyDone
<1>19. CASE Iterate
  <2>1. /\ UNCHANGED records
        /\ \A c \in Components : image'[c] # Broken => image'[c] = image[c]
        /\ \A c \in Components : ~Pending(c)
    BY <1>19 DEF Iterate, Pending, TypeOK, ValueTypes
  <2> QED BY <2>1 DEF RecordInv
<1>20. CASE Installed
  <2> DEFINE d == ManComp[man]
  <2>1. /\ UNCHANGED <<records, cand, hdr, nvKey>> /\ pc = "installing" /\ state = "await_install"
        /\ man \in Manifests
        /\ \A c \in Components : ~Pending(c)
    BY <1>20 DEF Installed, Pending
  <2>2. CASE InstallerFails
    BY <2>1, <2>2 DEF InstallerFails, RecordInv
  <2>3. CASE /\ image' = [image EXCEPT ![d] = hdr] /\ UNCHANGED nvManifest
             /\ pc' = "verify" \/ callback' = "on_reboot"
    <3>1. hdr = man /\ nvKey /\ cand = d /\ nvManifest = NoManifest
      BY <2>1 DEF RestartInv, RestartControl, HeaderMatchesUpdate
    <3>2. \A c \in Components : image'[c] = IF c = d THEN hdr ELSE image[c]
      BY <2>3 DEF TypeOK, ValueTypes
    <3>3. ASSUME NEW c \in Components \ {Main}, image'[c] # Broken
          PROVE  /\ version'[c] <= VersionOf(c, image'[c])
                 /\ \/ c \in unrecorded' \/ nvVersion'[c] = VersionOf(c, image'[c])
                    \/ Pending(c)'
      <4>1. CASE c = d
        <5>1. Pending(c)' /\ VersionOf(c, image'[c]) = ManVer[man]
          BY <2>1, <2>3, <3>1, <3>2, <4>1 DEF Pending, VersionOf
        <5>2. version[c] <= ManVer[man]
          BY <1>v, <2>1, <4>1, ManifestAssumption DEF NewerInv
        <5> QED BY <2>1, <5>1, <5>2
      <4>2. CASE c # d
        BY <2>1, <3>2, <3>3, <4>2 DEF RecordInv
      <4> QED BY <4>1, <4>2
    <3> QED BY <3>3 DEF RecordInv
  <2> QED BY <1>20, <2>2, <2>3 DEF Installed, Report
<1>21. CASE InstallVerify
  <2> DEFINE d == ManComp[man]
  <2>1. /\ UNCHANGED image /\ man \in Manifests /\ d \in Components
        /\ image[d] = man /\ cand = d
        /\ InstallVerified(d, ManVer[man]) \/ InstallRefused(d, ManVer[man])
    BY <1>21, ManifestAssumption
    DEF InstallVerify, RestartInv, RestartInstall, RestartControl
  <2>2. PostInstallOk(d, ManVer[man]) /\ VersionOf(d, image[d]) = ManVer[man]
    BY <2>1, ManifestAssumption DEF PostInstallOk, VersionOf
  <2>3. /\ version' \in {version, [version EXCEPT ![d] = ManVer[man]]}
        /\ nvVersion' \in {nvVersion, [nvVersion EXCEPT ![d] = ManVer[man]]}
        /\ d \in unrecorded' \/ nvVersion' = [nvVersion EXCEPT ![d] = ManVer[man]]
        /\ \A c \in unrecorded : c = d \/ c \in unrecorded'
    <3>1. CASE InstallVerified(d, ManVer[man])
      BY <3>1 DEF InstallVerified
    <3>2. CASE InstallRefused(d, ManVer[man])
      BY <2>2, <3>2 DEF InstallRefused
    <3> QED BY <2>1, <3>1, <3>2
  <2>4. ASSUME NEW c \in Components \ {d}
        PROVE  /\ ~Pending(c) /\ version'[c] = version[c] /\ nvVersion'[c] = nvVersion[c]
               /\ c \in unrecorded => c \in unrecorded'
    BY <2>1, <2>3 DEF Pending, TypeOK, ValueTypes
  <2>5. /\ version'[d] \in {version[d], ManVer[man]}
        /\ d \in unrecorded' \/ nvVersion'[d] = ManVer[man]
    BY <2>1, <2>3 DEF TypeOK, ValueTypes
  <2>6. ASSUME NEW c \in Components \ {Main}, image'[c] # Broken
        PROVE  /\ version'[c] <= VersionOf(c, image'[c])
               /\ c \in unrecorded' \/ nvVersion'[c] = VersionOf(c, image'[c])
    <3>1. CASE c = d
      BY <1>v, <2>1, <2>2, <2>5, <2>6, <3>1 DEF RecordInv
    <3>2. CASE c # d
      BY <2>1, <2>4, <2>6, <3>2 DEF RecordInv
    <3> QED BY <3>1, <3>2
  <2> QED BY <2>6 DEF RecordInv
<1>22. CASE InstallFinish
  BY <1>22, <1>q DEF InstallFinish
<1>23. CASE Dispatch
  <2>1. UNCHANGED <<image, records, hdr>> /\ pc = "idle"
    BY <1>23 DEF Dispatch
  <2>2. CASE callback = "on_reboot"
    <3>1. event \notin Answers \cup {"fragment_failure"} /\ state # "none" /\ event # "none"
      BY <1>23, <2>2 DEF Dispatch, OneFragment
    <3> QED BY <1>23, <2>2, <3>1, <1>q DEF Dispatch, OnResume
  <2>3. CASE callback # "on_reboot"
    BY <2>1, <2>3, <1>q
  <2> QED BY <2>2, <2>3
<1>24. CASE \E e \in {"authorize", "reject", "defer"} : AppAnswer(e)
  BY <1>24, <1>q DEF AppAnswer
<1>25. CASE Delivered
  <2>1. UNCHANGED <<image, records>> /\ pc = "idle" /\ callback # "on_reboot"
    BY <1>25 DEF Delivered, Acknowledged
  <2> QED BY <2>1, <1>q
<1>26. CASE AppCallbackFails
  BY <1>26, <1>q DEF AppCallbackFails, Acknowledged
<1>27. CASE DeliveryFailed
  BY <1>27, <1>q DEF DeliveryFailed
<1>28. CASE SendNext
  BY <1>28, <1>q DEF SendNext
<1>29. CASE Disconnect
  BY <1>29, <1>q DEF Disconnect
<1>30. CASE RegistrationUpdated
  BY <1>30, <1>q DEF RegistrationUpdated
<1>31. CASE Registered
  BY <1>31, <1>q DEF Registered
<1>32. CASE OnReboot
  BY <1>32, <1>b DEF OnReboot
<1>33. CASE PowerLoss
  BY <1>33, <1>b DEF PowerLoss
<1>34. CASE PowerCycle
  BY <1>34, <1>b DEF PowerCycle
<1>35. CASE UNCHANGED vars
  BY <1>35, <1>q DEF vars
<1> QED BY <1>1, <1>2, <1>3, <1>4, <1>5, <1>6, <1>7, <1>8, <1>9, <1>9a, <1>10, <1>11,
           <1>12, <1>13, <1>14, <1>15, <1>16, <1>17, <1>18, <1>19, <1>20, <1>21, <1>22,
           <1>23, <1>24, <1>25, <1>26, <1>27, <1>28, <1>29, <1>30, <1>31, <1>32, <1>33,
           <1>34, <1>35 DEF Next

\* No step puts an older image in place or lowers a record.
LEMMA RollbackStep ==
  ASSUME ResumeSupport # "resume", ~Encryption, IInv, RestartInv, VersionInv, [Next]_vars
  PROVE  \A c \in Components :
           /\ image'[c] \notin {image[c], Broken} => VersionOf(c, image'[c]) > BootVersion(c)
           /\ c # Main => nvVersion'[c] >= nvVersion[c]
<1> USE DEF IInv, ControlInv, Sequencing, PcMatchesState, ContextHasManifest, VersionInv,
            Running, Idle, Active, comps, records, ctx, reports, io
<1>m. Main \in Components
  BY ComponentAssumption
<1>v. \A c \in Components : /\ version[c] \in Nat /\ nvVersion[c] \in Nat
                           /\ BootVersion(c) \in Nat
  BY BootTypes DEF TypeOK, ValueTypes
<1>q. ASSUME UNCHANGED <<image, nvVersion>>
      PROVE  \A c \in Components :
               /\ image'[c] \notin {image[c], Broken} => VersionOf(c, image'[c]) > BootVersion(c)
               /\ c # Main => nvVersion'[c] >= nvVersion[c]
  BY <1>q, <1>v
<1>1. CASE Bootloader
  <2>1. UNCHANGED nvVersion /\ \A c \in Components \ {Main} : image'[c] = image[c]
    BY <1>1, <1>m DEF Bootloader, TypeOK, ValueTypes
  <2>2. image'[Main] = image[Main] \/ (cand = Main /\ hdr \in Manifests /\ image'[Main] = hdr)
    BY <1>1, <1>m DEF Bootloader, TypeOK, ValueTypes
  <2>3. image'[Main] # image[Main] => VersionOf(Main, image'[Main]) > BootVersion(Main)
    BY <2>2 DEF CandidateInv, VersionOf
  <2> QED BY <1>v, <2>1, <2>3
<1>2. CASE FotaInit
  BY <1>2, <1>q DEF FotaInit
<1>3. CASE PostInstallVerify
  <2>1. UNCHANGED image
    BY <1>3 DEF PostInstallVerify
  <2>2. CASE UNCHANGED nvVersion
    BY <2>1, <2>2, <1>q
  <2>3. CASE cand \in Components /\ nvVersion' = [nvVersion EXCEPT ![cand] = ManVer[hdr]]
    <3>1. cand # Main => ManVer[hdr] >= nvVersion[cand]
      BY <2>3 DEF CandidateInv, BootVersion
    <3>2. \A c \in Components : nvVersion'[c] = IF c = cand THEN ManVer[hdr] ELSE nvVersion[c]
      BY <2>3 DEF TypeOK, ValueTypes
    <3> QED BY <1>v, <2>1, <3>1, <3>2
  <2> QED BY <1>3, <2>2, <2>3 DEF PostInstallVerify, InstallVerified, InstallRefused
<1>4. CASE PostInstallErase
  BY <1>4, <1>q DEF PostInstallErase
<1>5. CASE PostInstallKey
  BY <1>5, <1>q DEF PostInstallKey
<1>6. CASE \E m \in Manifests : GotManifest(m)
  BY <1>6, <1>q DEF GotManifest
<1>7. CASE Parse
  BY <1>7, <1>q DEF Parse
<1>8. CASE AbortKey
  BY <1>8, <1>q DEF AbortKey
<1>9. CASE InsufficientStorage
  BY <1>9, <1>q DEF InsufficientStorage
<1>9a. CASE ProgramFails
  BY <1>9a, <1>q DEF ProgramFails
<1>10. CASE NoResume
  BY <1>10, <1>q DEF NoResume
<1>11. CASE ResumeReady
  BY <1>11, <1>q DEF ResumeReady
<1>12. CASE ResumeBlocks
  BY <1>12, <1>q DEF ResumeBlocks
<1>13. CASE Erase
  BY <1>13, <1>q DEF Erase
<1>14. CASE ProgramHeader
  BY <1>14, <1>q DEF ProgramHeader
<1>15. CASE \E r \in reqs : OnFragment(r)
  BY <1>15, <1>q DEF OnFragment
<1>16. CASE \E r \in reqs : FragmentError(r)
  BY <1>16, <1>q DEF FragmentError
<1>17. CASE ProgramDone
  BY <1>17, <1>q DEF ProgramDone
<1>18. CASE ReadyDone
  BY <1>18, <1>q DEF ReadyDone
<1>19. CASE Iterate
  <2>1. UNCHANGED nvVersion /\ \A c \in Components : image'[c] \in {image[c], Broken}
    BY <1>19, ManifestAssumption DEF Iterate, TypeOK, ValueTypes
  <2> QED BY <1>v, <2>1
<1>20. CASE Installed
  <2>1. /\ UNCHANGED nvVersion /\ pc = "installing" /\ state = "await_install"
        /\ man \in Manifests /\ ManComp[man] \in Components \ {Main} /\ ManVer[man] \in Nat
    BY <1>20, ManifestAssumption DEF Installed, NewerInv, Installing
  <2>2. hdr = man /\ ManVer[man] > BootVersion(ManComp[man])
    <3>1. ManVer[man] > version[ManComp[man]] /\ version[ManComp[man]] >= nvVersion[ManComp[man]]
      BY <2>1 DEF NewerInv
    <3> QED BY <1>v, <2>1, <3>1 DEF RestartInv, RestartControl, HeaderMatchesUpdate, BootVersion
  <2>3. \A c \in Components : image'[c] = image[c] \/ (c = ManComp[man] /\ image'[c] = man)
    BY <1>20, <2>2, ManifestAssumption DEF Installed, InstallerFails, TypeOK, ValueTypes
  <2> QED BY <1>v, <2>1, <2>2, <2>3 DEF VersionOf
<1>21. CASE InstallVerify
  <2>1. /\ UNCHANGED image /\ pc = "verify" /\ state = "await_install"
        /\ man \in Manifests /\ ManComp[man] \in Components \ {Main} /\ ManVer[man] \in Nat
        /\ \/ InstallVerified(ManComp[man], ManVer[man])
           \/ InstallRefused(ManComp[man], ManVer[man])
    BY <1>21, ManifestAssumption DEF InstallVerify, NewerInv, Installing
  <2>2. ManVer[man] >= nvVersion[ManComp[man]]
    BY <1>v, <2>1 DEF NewerInv
  <2>3. nvVersion' \in {nvVersion, [nvVersion EXCEPT ![ManComp[man]] = ManVer[man]]}
    BY <2>1, VerifyEffect DEF TypeOK
  <2>4. \A c \in Components :
          nvVersion'[c] = nvVersion[c] \/ (c = ManComp[man] /\ nvVersion'[c] = ManVer[man])
    BY <2>3 DEF TypeOK, ValueTypes
  <2> QED BY <1>v, <2>1, <2>2, <2>4
<1>22. CASE InstallFinish
  BY <1>22, <1>q DEF InstallFinish
<1>23. CASE Dispatch
  BY <1>23, <1>q DEF Dispatch
<1>24. CASE \E e \in {"authorize", "reject", "defer"} : AppAnswer(e)
  BY <1>24, <1>q DEF AppAnswer
<1>25. CASE Delivered
  BY <1>25, <1>q DEF Delivered
<1>26. CASE AppCallbackFails
  BY <1>26, <1>q DEF AppCallbackFails
<1>27. CASE DeliveryFailed
  BY <1>27, <1>q DEF DeliveryFailed
<1>28. CASE SendNext
  BY <1>28, <1>q DEF SendNext
<1>29. CASE Disconnect
  BY <1>29, <1>q DEF Disconnect
<1>30. CASE RegistrationUpdated
  BY <1>30, <1>q DEF RegistrationUpdated
<1>31. CASE Registered
  BY <1>31, <1>q DEF Registered
<1>32. CASE OnReboot
  BY <1>32, <1>q DEF OnReboot, Restart
<1>33. CASE PowerLoss
  BY <1>33, <1>q DEF PowerLoss, Restart
<1>34. CASE PowerCycle
  BY <1>34, <1>q DEF PowerCycle, Restart
<1>35. CASE UNCHANGED vars
  BY <1>35, <1>q DEF vars
<1> QED BY <1>1, <1>2, <1>3, <1>4, <1>5, <1>6, <1>7, <1>8, <1>9, <1>9a, <1>10, <1>11,
           <1>12, <1>13, <1>14, <1>15, <1>16, <1>17, <1>18, <1>19, <1>20, <1>21, <1>22,
           <1>23, <1>24, <1>25, <1>26, <1>27, <1>28, <1>29, <1>30, <1>31, <1>32, <1>33,
           <1>34, <1>35 DEF Next

-----------------------------------------------------------------------------
(***************************************************************************)
(* Theorems about downloads                                                *)
(***************************************************************************)

\* Without resume support, after any resets and failures, header, blocks, candidate
\* and installed image are those of the update being processed.
THEOREM RestartInductive ==
  ASSUME ResumeSupport # "resume"
  PROVE  Spec => [](IInv /\ RestartInv)
<1>1. IInv /\ RestartInv /\ [Next]_vars => RestartInv'
  BY RestartControlStep, RestartDownloadStep, RestartInstallStep DEF RestartInv
<1> QED BY <1>1, RestartInit, Inductive, PTL DEF Spec

\* What is stored agrees with the position of the download.
LEMMA RestartConsistent ==
  ASSUME IInv, RestartInv
  PROVE  DownloadConsistent
<1> SUFFICES ASSUME state = "downloading", pc = "idle"
             PROVE  /\ off = GoodUpTo(addr - 1)
                    /\ \A k \in addr..(addr + ManBlocks[man] - off - 1) : k <= Cap => slot[k] = Blank
  BY DEF DownloadConsistent
<1>1. /\ addr = off + 1
      /\ \A k \in 1..off : slot[k] = <<man, k>>
      /\ \A k \in addr..ManBlocks[man] : slot[k] = Blank
  BY DEF RestartInv, RestartDownload, Unwritten
<1>2. off \in Nat /\ man \in Manifests /\ ManBlocks[man] \in Nat
  BY ManifestAssumption
  DEF IInv, ControlInv, TypeOK, ValueTypes, Sequencing, ContextHasManifest
<1>3. \A k \in 1..off : Good(k)
  <2> SUFFICES ASSUME NEW k \in 1..off PROVE Good(k)
    OBVIOUS
  <2>1. slot[k] = <<man, k>> /\ <<man, k>> \in Manifests \X Nat
    BY <1>1, <1>2
  <2> QED BY <2>1, StorageAssumption DEF Good
<1>4. GoodUpTo(off) = off
  BY <1>2, <1>3, AllGood
<1>5. addr - 1 = off /\ addr + ManBlocks[man] - off - 1 = ManBlocks[man]
  BY <1>1, <1>2
<1> QED BY <1>1, <1>4, <1>5

\* fota_on_fragment never programs a slot that is not erased and never skips or repeats
\* a block, whether the download was resumed after a reset or started again.  Where the
\* headers take the room of a block a resumed download may run into used slots.
THEOREM DownloadSafe ==
  ASSUME ResumeSupport # "resume" \/ HeaderSlack = 0
  PROVE  Spec => []DownloadConsistent
<1>1. CASE ResumeSupport # "resume"
  <2>1. IInv /\ RestartInv => DownloadConsistent
    BY RestartConsistent
  <2>2. Spec => [](IInv /\ RestartInv)
    BY <1>1, RestartInductive
  <2> QED BY <2>1, <2>2, PTL
<1>2. CASE ResumeSupport = "resume" /\ HeaderSlack = 0
  <2>1. Init => ResumeDownload
    BY DEF Init, ResumeDownload, ErasedSuffix
  <2>2. IInv /\ ResumeDownload /\ [Next]_vars => ResumeDownload'
    BY <1>2, ResumeDownloadStep
  <2>3. IInv /\ ResumeDownload => DownloadConsistent
    <3> SUFFICES ASSUME IInv, ResumeDownload PROVE DownloadConsistent
      OBVIOUS
    <3>1. /\ addr \in 1..(Cap + 1) /\ Cap \in Nat
      BY StorageAssumption DEF IInv, ControlInv, TypeOK, ValueTypes, Cap
    <3> QED BY <3>1 DEF ResumeDownload, DownloadConsistent, Unwritten
  <2> QED BY <2>1, <2>2, <2>3, Inductive, PTL DEF Spec
<1> QED BY <1>1, <1>2

\* The firmware header is that of the running update: without resume support no header
\* of an earlier one is adopted.
THEOREM HeaderSafe ==
  ASSUME ResumeSupport # "resume"
  PROVE  Spec => []HeaderMatchesUpdate
<1>1. IInv /\ RestartInv => HeaderMatchesUpdate
  BY DEF RestartInv, RestartControl
<1> QED BY <1>1, RestartInductive, PTL

\* write_candidate_ready names the component of the image behind the header, and an
\* erase takes both headers.
THEOREM CandidateSafe ==
  ASSUME ResumeSupport # "resume"
  PROVE  Spec => []ReadyNamesHeader
<1>1. IInv /\ RestartInv => ReadyNamesHeader
  BY DEF RestartInv, RestartControl
<1> QED BY <1>1, RestartInductive, PTL

\* The persisted manifest is deleted only together with a failed result, which is volatile,
\* or when a complete image is marked ready.  What was never persisted, because
\* fota_nvm_manifest_set failed, is not spoken of.
THEOREM RemovalsSettled ==
  ASSUME ResumeSupport # "resume"
  PROVE  Spec => RemovalSettled
<1>1. IInv /\ RestartInv /\ [Next]_vars =>
        [nvManifest # NoManifest /\ nvManifest' = NoManifest =>
           \/ src'.result = "FAILED"
           \/ cand' = ManComp[nvManifest] /\ footer' /\ hdr' = nvManifest /\ ImageValid(hdr)']_vars
  BY LossStep
<1> QED BY <1>1, RestartInductive, PTL DEF Spec, RemovalSettled

\* install_component ignores what fota_install_verify returns, and yet reports FW_UPDATE_OK
\* only when the image of the manifest has been installed; its version is recorded, or
\* fota_install_verify has failed.
THEOREM SuccessTruthful ==
  ASSUME ResumeSupport # "resume"
  PROVE  Spec => TruthfulSuccess
<1>1. IInv /\ RestartInv /\ [Next]_vars =>
        [src.result # "OK" /\ src'.result = "OK" =>
           /\ image'[ManComp[man]] = man
           /\ ManComp[man] \in unrecorded' \/ nvVersion'[ManComp[man]] = ManVer[man]]_vars
  BY SuccessStep DEF RestartInv
<1> QED BY <1>1, RestartInductive, PTL DEF Spec, TruthfulSuccess

-----------------------------------------------------------------------------
(***************************************************************************)
(* Theorems about versions                                                 *)
(***************************************************************************)

\* The initial state satisfies the invariants of the versions.
LEMMA VersionInit == Init => VersionInv /\ RecordInv
<1> SUFFICES ASSUME Init PROVE VersionInv /\ RecordInv
  OBVIOUS
<1>1. CandidateInv
  BY ComponentAssumption, StorageAssumption DEF Init, CandidateInv
<1>2. NewerInv
  BY ComponentAssumption, ManifestAssumption DEF Init, NewerInv, Installing
<1>3. RecordInv
  BY ComponentAssumption, ManifestAssumption DEF Init, RecordInv, VersionOf
<1> QED BY <1>1, <1>2, <1>3 DEF VersionInv

\* Without resume and encryption a candidate is complete and not older than the version a
\* start registers for its component, and one for the main component is installed or newer
\* than that.
THEOREM VersionInductive ==
  ASSUME ResumeSupport # "resume", ~Encryption
  PROVE  Spec => [](IInv /\ RestartInv /\ VersionInv)
<1>1. IInv /\ RestartInv /\ VersionInv /\ [Next]_vars => VersionInv'
  BY CandidateStep, NewerStep DEF VersionInv
<1> QED BY <1>1, RestartInductive, VersionInit, PTL DEF Spec

\* Neither the bootloader nor an installer puts an image in place that is not newer than
\* the version a start would register, which for the main component is the printed form of
\* the running one and may be lower, and no recorded version of another one is lowered.
\* With encryption a candidate that was deferred and whose key was replaced is recorded
\* without being installed, and the next start takes the record back.
THEOREM NeverBack ==
  ASSUME ResumeSupport # "resume", ~Encryption
  PROVE  Spec => NoRollback
<1>1. IInv /\ RestartInv /\ VersionInv /\ [Next]_vars =>
        [\A c \in Components :
           /\ image'[c] \notin {image[c], Broken} => VersionOf(c, image'[c]) > BootVersion(c)
           /\ c # Main => nvVersion'[c] >= nvVersion[c]]_vars
  BY RollbackStep
<1> QED BY <1>1, VersionInductive, PTL DEF Spec, NoRollback

\* With no update under way the version that the next manifest is compared with is not
\* above the running one; it is the running one unless fota_install_verify failed or, for the
\* main component, the printed form lost digits.  This is so after any resets, failures and
\* half-way installations if every component but the main one has a post-install callback
\* that says what it runs.
THEOREM VersionSafe ==
  ASSUME ResumeSupport # "resume", ~Encryption, PostInstallCb = Components \ {Main}
  PROVE  Spec => []VersionRecorded
<1>1. IInv /\ RestartInv /\ VersionInv /\ RecordInv /\ [Next]_vars => RecordInv'
  BY RecordStep
<1>2. IInv /\ VersionInv /\ RecordInv => VersionRecorded
  <2> SUFFICES ASSUME IInv, VersionInv, RecordInv, pc = "idle", ~Active, ~nvKey,
                      NEW c \in Components, image[c] # Broken
               PROVE  /\ version[c] <= VersionOf(c, image[c])
                      /\ c # Main /\ c \notin unrecorded =>
                           version[c] = VersionOf(c, image[c]) /\ nvVersion[c] = VersionOf(c, image[c])
                      /\ c = Main =>
                           version[c] \in {VersionOf(c, image[c]), Reprinted[VersionOf(c, image[c])]}
    BY DEF VersionRecorded
  <2>1. /\ VersionOf(c, image[c]) \in Nat /\ version[c] \in Nat /\ nvVersion[c] \in Nat
        /\ Reprinted[VersionOf(Main, image[Main])] <= VersionOf(Main, image[Main])
    BY BootTypes, VersionAssumption DEF IInv, ControlInv, TypeOK, ValueTypes
  <2>2. CASE c = Main
    BY <2>1, <2>2 DEF VersionInv, NewerInv, BootVersion
  <2>3. CASE c # Main
    <3>1. ~Pending(c)
      BY DEF Pending
    <3> QED BY <2>1, <2>3, <3>1 DEF VersionInv, NewerInv, RecordInv
  <2> QED BY <2>2, <2>3
<1> QED BY <1>1, <1>2, VersionInductive, VersionInit, PTL DEF Spec
==============================================================================
