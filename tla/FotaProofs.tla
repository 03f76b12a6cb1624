----------------------------- MODULE FotaProofs -----------------------------
(***************************************************************************)
(* Machine-checked proofs about module Fota, for every set of manifests    *)
(* and components, every configuration of the build and any number of      *)
(* faults: types, and the order in which the handlers, the notifications,  *)
(* the application and the event slot follow each other.                   *)
(***************************************************************************)
EXTENDS FotaInductive, FiniteSetTheorems, WellFoundedInduction, TLAPS

-----------------------------------------------------------------------------
(***************************************************************************)
(* Lemmas about the helpers                                                *)
(***************************************************************************)

\* Setting a resource gives a well-formed source.
LEMMA SetValueType ==
  ASSUME NEW s \in Source, NEW v \in SourceStates \cup Results
  PROVE  SetValue(s, v) \in Source
<1> DEFINE now == s.flight = "none" /\ registered
           n == [state  |-> IF v \in SourceStates THEN v ELSE s.state,
                 result |-> IF v \in Results THEN v ELSE s.result,
                 flight |-> IF now THEN v ELSE s.flight,
                 queued |-> IF now THEN s.queued ELSE s.queued \cup {ResourceOf(v)}]
<1>1. /\ s.state \in SourceStates /\ s.result \in Results
      /\ s.flight \in SourceStates \cup Results \cup {"none"}
      /\ s.queued \in SUBSET {"state", "result"}
  BY DEF Source
<1>2. ResourceOf(v) \in {"state", "result"}
  BY DEF ResourceOf
<1>3. n.queued \in SUBSET {"state", "result"}
  BY <1>1, <1>2
<1>4. n.flight \in SourceStates \cup Results \cup {"none"}
  BY <1>1
<1>5. n.state \in SourceStates /\ n.result \in Results
  BY <1>1
<1>6. n \in Source
  BY <1>3, <1>4, <1>5 DEF Source
<1> QED BY <1>6 DEF SetValue

\* A report leaves a well-formed source.
LEMMA ReportEffect ==
  ASSUME NEW s \in Source, NEW v \in SourceStates \cup Results, NEW cb, Report(s, v, cb)
  PROVE  src' \in Source /\ callback' = cb
BY SetValueType DEF Report

\* What abort_update leaves behind before it removes the key.
LEMMA AbortEffect ==
  ASSUME src \in Source, NEW terminate, BeginAbort(terminate)
  PROVE  /\ src' \in Source /\ callback' = "none" /\ pc' = "abort"
         /\ nvManifest' = nvManifest \/ nvManifest' = NoManifest
<1>1. {"FAILED", "IDLE", "PROCESSING_MANIFEST"} \subseteq SourceStates \cup Results
  BY DEF SourceStates, Results
<1>2. SetValue(src, "FAILED") \in Source
  BY <1>1, SetValueType
<1>3. src' \in Source /\ callback' = "none"
  <2>1. CASE Report(SetValue(src, "FAILED"), "IDLE", "none")
    BY <1>1, <1>2, <2>1, ReportEffect
  <2>2. CASE Report(src, "PROCESSING_MANIFEST", "none")
    BY <1>1, <2>2, ReportEffect
  <2> QED BY <2>1, <2>2 DEF BeginAbort
<1> QED BY <1>3 DEF BeginAbort, ManifestAfterAbort

\* finalize_update waits for the approval of the installation or aborts.
LEMMA FinalizeEffect ==
  ASSUME src \in Source, NEW verified, Finalize(verified)
  PROVE  /\ src' \in Source
         /\ nvManifest' = nvManifest \/ nvManifest' = NoManifest
         /\ \/ /\ state' = "await_install" /\ pc' = "idle"
               /\ callback' = "on_approve_state_delivered"
            \/ state' = state /\ pc' = "abort" /\ callback' = "none"
<1>1. "AWAITING_APPLICATION_APPROVAL" \in SourceStates \cup Results
  BY DEF SourceStates
<1> QED BY <1>1, AbortEffect, ReportEffect DEF Finalize

\* A notification that ends, or one that starts, leaves a well-formed source.
LEMMA SourceUpdate ==
  ASSUME NEW s \in Source, NEW f \in SourceStates \cup Results \cup {"none"},
         NEW q \in SUBSET {"state", "result"}
  PROVE  /\ [s EXCEPT !.flight = f] \in Source
         /\ [s EXCEPT !.flight = f, !.queued = q] \in Source
BY DEF Source

\* The fields of a well-formed source.
LEMMA SourceFields ==
  ASSUME NEW s \in Source
  PROVE  /\ s.state \in SourceStates /\ s.result \in Results
         /\ s.flight \in SourceStates \cup Results \cup {"none"}
         /\ s.queued \in SUBSET {"state", "result"}
BY DEF Source

\* The source after a reset and after fota_init.
LEMMA NewSource ==
  \A v \in SourceStates :
    [state |-> v, result |-> "NO_RESULT", flight |-> "none", queued |-> {}] \in Source
BY DEF Source, Results

\* A set of natural numbers that is not empty has a least element.
LEMMA LeastNat ==
  ASSUME NEW T, T \subseteq Nat, T # {}
  PROVE  \E x \in T : \A y \in T : x <= y
<1>1. PICK x \in T : \A y \in T : <<y, x>> \notin OpToRel(<, Nat)
  BY WFMin, NatLessThanWellFounded
<1>2. \A y \in T : ~(y < x)
  BY <1>1 DEF OpToRel
<1> QED BY <1>2

\* A number of good slots is a natural number.
LEMMA GoodUpToType ==
  ASSUME NEW k \in Int
  PROVE  GoodUpTo(k) \in Nat
<1>1. IsFiniteSet(1..k)
  BY FS_Interval
<1>2. IsFiniteSet({j \in 1..k : Good(j)})
  BY <1>1, FS_Subset
<1> QED BY <1>2, FS_CardinalityType DEF GoodUpTo

\* A slot adds at most one good block.
LEMMA GoodUpToNext ==
  ASSUME NEW k \in Nat \ {0}
  PROVE  GoodUpTo(k) = IF Good(k) THEN GoodUpTo(k - 1) + 1 ELSE GoodUpTo(k - 1)
<1> DEFINE S == {j \in 1..(k - 1) : Good(j)}
<1>1. IsFiniteSet(S)
  <2>1. IsFiniteSet(1..(k - 1))
    BY FS_Interval
  <2> QED BY <2>1, FS_Subset
<1>2. {j \in 1..k : Good(j)} = IF Good(k) THEN S \cup {k} ELSE S
  OBVIOUS
<1>3. k \notin S
  OBVIOUS
<1>4. Cardinality(S \cup {k}) = Cardinality(S) + 1
  BY <1>1, <1>3, FS_AddElement
<1> QED BY <1>2, <1>4 DEF GoodUpTo

\* No slot, no good one.
LEMMA GoodUpToZero == GoodUpTo(0) = 0
<1>1. {j \in 1..0 : Good(j)} = {}
  OBVIOUS
<1> QED BY <1>1, FS_EmptySet DEF GoodUpTo

\* The walk of analyze_resume_state counts blocks one by one, so it cannot pass the
\* point where none is left: where it stands short of it, blocks are missing.
LEMMA WalkStops ==
  ASSUME NEW k \in 1..(Cap + 1), man \in Manifests, BlocksLeft(k) # 0,
         \A j \in 1..(k - 1) : ~StopsAt(j)
  PROVE  GoodUpTo(k - 1) < ManBlocks[man]
<1> DEFINE n == ManBlocks[man]
           T == {j \in 1..k : ~(GoodUpTo(j - 1) < n)}
<1>1. n \in Nat /\ n > 0
  BY ManifestAssumption
<1>2. SUFFICES ASSUME T # {} PROVE FALSE
  BY <1>1
<1>3. PICK j \in T : \A i \in T : j <= i
  <2>1. T \subseteq Nat
    OBVIOUS
  <2> QED BY <1>2, <2>1, LeastNat
<1>4. j \in 1..k /\ j > 1
  BY <1>1, GoodUpToZero
<1>5. j - 1 \in 1..k /\ j - 1 \notin T
  BY <1>3, <1>4
<1>6. GoodUpTo(j - 2) < n /\ GoodUpTo(j - 2) \in Nat
  BY <1>4, <1>5, GoodUpToType
<1>7. GoodUpTo(j - 1) = GoodUpTo(j - 2) \/ GoodUpTo(j - 1) = GoodUpTo(j - 2) + 1
  <2>1. j - 1 \in Nat \ {0} /\ (j - 1) - 1 = j - 2
    BY <1>4
  <2> QED BY <2>1, GoodUpToNext
<1>8. GoodUpTo(j - 1) # n
  BY <1>1, <1>4 DEF StopsAt, DoesNotFit, BlocksLeft
<1> QED BY <1>1, <1>3, <1>6, <1>7, <1>8

-----------------------------------------------------------------------------
(***************************************************************************)
(* Types                                                                   *)
(***************************************************************************)

\* Every step keeps the types of the flags.
LEMMA FlagStep == ASSUME FlagTypes, [Next]_vars PROVE FlagTypes'
<1> USE DEF FlagTypes, nvm, store, ctx, io
<1>1. CASE Bootloader
  BY <1>1, Zenon DEF Bootloader
<1>2. CASE FotaInit
  BY <1>2, Zenon DEF FotaInit
<1>3. CASE PostInstallVerify
  BY <1>3, Zenon DEF PostInstallVerify
<1>4. CASE PostInstallErase
  BY <1>4, Zenon DEF PostInstallErase, EraseHeaders
<1>5. CASE PostInstallKey
  BY <1>5, Zenon DEF PostInstallKey
<1>6. CASE \E m \in Manifests : GotManifest(m)
  BY <1>6, Zenon DEF GotManifest, IsReady, HandleManifest
<1>7. CASE Parse
  BY <1>7, Zenon DEF Parse
<1>8. CASE AbortKey
  BY <1>8, Zenon DEF AbortKey, ClearContext
<1>9. CASE InsufficientStorage
  BY <1>9, Zenon DEF InsufficientStorage
<1>9a. CASE ProgramFails
  BY <1>9a, Zenon DEF ProgramFails
<1>10. CASE NoResume
  BY <1>10, Zenon DEF NoResume
<1>11. CASE ResumeReady
  BY <1>11, Zenon DEF ResumeReady
<1>12. CASE ResumeBlocks
  <2>1. PICK k \in 1..(Cap + 1) : hashOk' = PrefixOf(man, k)
    BY <1>12 DEF ResumeBlocks
  <2>2. hashOk' \in BOOLEAN
    BY <2>1, Zenon DEF PrefixOf
  <2> QED BY <1>12, <2>2, Zenon DEF ResumeBlocks
<1>13. CASE Erase
  BY <1>13, Zenon DEF Erase, EraseHeaders
<1>14. CASE ProgramHeader
  BY <1>14, Zenon DEF ProgramHeader
<1>15. CASE \E r \in reqs : OnFragment(r)
  BY <1>15, Zenon DEF OnFragment
<1>16. CASE \E r \in reqs : FragmentError(r)
  BY <1>16, Zenon DEF FragmentError
<1>17. CASE ProgramDone
  BY <1>17, Zenon DEF ProgramDone
<1>18. CASE ReadyDone
  BY <1>18, Zenon DEF ReadyDone, AfterReady, ClearContext
<1>19. CASE Iterate
  BY <1>19, Zenon DEF Iterate, Installable
<1>20. CASE Installed
  BY <1>20, Zenon DEF Installed
<1>21. CASE InstallVerify
  BY <1>21, Zenon DEF InstallVerify
<1>22. CASE InstallFinish
  BY <1>22, Zenon DEF InstallFinish, ClearContext
<1>23. CASE Dispatch
  BY <1>23, Zenon DEF Dispatch, OnResume, HandleManifest, OnDownloadAuthorize,
        OnInstallAuthorize, AfterReady, ClearContext
<1>24. CASE \E e \in {"authorize", "reject", "defer"} : AppAnswer(e)
  BY <1>24, Zenon DEF AppAnswer
<1>25. CASE Delivered
  BY <1>25, Zenon DEF Delivered
<1>26. CASE AppCallbackFails
  BY <1>26, Zenon DEF AppCallbackFails
<1>27. CASE DeliveryFailed
  BY <1>27, Zenon DEF DeliveryFailed
<1>28. CASE SendNext
  BY <1>28, Zenon DEF SendNext
<1>29. CASE Disconnect
  BY <1>29, Zenon DEF Disconnect
<1>30. CASE RegistrationUpdated
  BY <1>30, Zenon DEF RegistrationUpdated, ResumeEvent
<1>31. CASE Registered
  BY <1>31, Zenon DEF Registered, ResumeEvent
<1>32. CASE OnReboot
  BY <1>32, Zenon DEF OnReboot, Restart, ClearContext
<1>33. CASE PowerLoss
  BY <1>33, Zenon DEF PowerLoss, Restart, ClearContext
<1>34. CASE PowerCycle
  BY <1>34, Zenon DEF PowerCycle, Restart, ClearContext
<1>35. CASE UNCHANGED vars
  BY <1>35, Zenon DEF vars
<1> QED BY <1>1, <1>2, <1>3, <1>4, <1>5, <1>6, <1>7, <1>8, <1>9, <1>9a, <1>10, <1>11, <1>12, <1>13,
        <1>14, <1>15, <1>16, <1>17, <1>18, <1>19, <1>20, <1>21, <1>22, <1>23, <1>24, <1>25,
        <1>26, <1>27, <1>28, <1>29, <1>30, <1>31, <1>32, <1>33, <1>34, <1>35 DEF Next

\* What fota_install_verify does to the records, whatever its result.
LEMMA VerifyEffect ==
  ASSUME ValueTypes, NEW c \in Components, NEW v \in Nat,
         InstallVerified(c, v) \/ InstallRefused(c, v)
  PROVE  /\ version' \in {version, [version EXCEPT ![c] = v]}
         /\ nvVersion' \in {nvVersion, [nvVersion EXCEPT ![c] = v]}
         /\ version' \in [Components -> Nat]
         /\ nvVersion' \in [Components -> Nat]
         /\ unrecorded' \subseteq Components
         /\ budget' \in Nat
<1>1. /\ version' \in {version, [version EXCEPT ![c] = v]}
      /\ nvVersion' \in {nvVersion, [nvVersion EXCEPT ![c] = v]}
      /\ unrecorded' \in {unrecorded, unrecorded \ {c}, unrecorded \cup {c}}
      /\ budget' = budget \/ (budget > 0 /\ budget' = budget - 1)
  <2>1. CASE InstallVerified(c, v)
    BY <2>1 DEF InstallVerified, Fault
  <2>2. CASE InstallRefused(c, v)
    BY <2>2 DEF InstallRefused, Fault
  <2> QED BY <2>1, <2>2
<1>2. /\ version \in [Components -> Nat] /\ nvVersion \in [Components -> Nat]
      /\ unrecorded \subseteq Components /\ budget \in Nat
  BY DEF ValueTypes
<1> QED BY <1>1, <1>2

\* The versions that a start registers.
LEMMA BootTypes ==
  ASSUME ValueTypes
  PROVE  /\ VersionOf(Main, image[Main]) \in Versions
         /\ \A c \in Components : VersionOf(c, image[c]) \in Nat
         /\ \A c \in Components : BootVersion(c) \in Nat
<1>1. ASSUME NEW c \in Components
      PROVE  VersionOf(c, image[c]) \in Versions \cap Nat
  <2>1. CASE image[c] \in Manifests
    BY <2>1, ManifestAssumption DEF VersionOf, Versions
  <2>2. CASE image[c] \notin Manifests
    BY <2>2, ComponentAssumption DEF VersionOf, Versions
  <2> QED BY <2>1, <2>2
<1>2. Main \in Components
  BY ComponentAssumption
<1>3. Reprinted[VersionOf(Main, image[Main])] \in Nat
  BY <1>1, <1>2, VersionAssumption
<1>4. \A c \in Components : nvVersion[c] \in Nat
  BY DEF ValueTypes
<1> QED BY <1>1, <1>2, <1>3, <1>4 DEF BootVersion

\* Every step keeps the types of the other variables.
LEMMA ValueStep ==
  ASSUME ControlInv, [Next]_vars
  PROVE  ValueTypes'
<1> USE DEF ControlInv, TypeOK, ValueTypes, nvm, store, comps, records, ctx, reports, io, Halt
<1>s. {"UNSET", "IDLE", "PROCESSING_MANIFEST", "AWAITING_DOWNLOAD_APPROVAL", "DOWNLOADING",
       "UPDATING", "REBOOTING", "NO_RESULT", "OK", "FAILED"} \subseteq SourceStates \cup Results
  BY DEF SourceStates, Results
<1>b. /\ "UNSET" \in SourceStates /\ "IDLE" \in SourceStates
      /\ "PROCESSING_MANIFEST" \in SourceStates
  BY DEF SourceStates
<1>f. \A kind : Fault(kind) => budget' \in Nat
  BY DEF Fault
<1>v. /\ \A k \in Components, n \in Nat : [version EXCEPT ![k] = n] \in [Components -> Nat]
      /\ \A k \in Components, y \in Manifests \cup {Factory, Broken} :
           [image EXCEPT ![k] = y] \in [Components -> Manifests \cup {Factory, Broken}]
  OBVIOUS
<1>1. CASE Bootloader
  BY <1>1, <1>v, ComponentAssumption DEF Bootloader, PCs
<1>2. CASE FotaInit
  <2>1. src' \in Source
    BY <1>2, <1>b, NewSource DEF FotaInit
  <2>3. version' \in [Components -> Nat]
    BY <1>2, BootTypes DEF FotaInit
  <2> QED BY <1>2, <2>1, <2>3 DEF FotaInit, PCs, Callbacks
<1>3. CASE PostInstallVerify
  <2>1. CASE UNCHANGED <<records, budget>>
    BY <1>3, <2>1 DEF PostInstallVerify, PCs
  <2>2. CASE /\ cand \in Components /\ hdr # Blank
             /\ InstallVerified(cand, ManVer[hdr]) \/ InstallRefused(cand, ManVer[hdr])
    <3>1. ManVer[hdr] \in Nat
      BY <2>2, ManifestAssumption
    <3> QED BY <1>3, <2>2, <3>1, VerifyEffect DEF PostInstallVerify, PCs
  <2> QED BY <1>3, <2>1, <2>2 DEF PostInstallVerify
<1>4. CASE PostInstallErase
  BY <1>4, <1>f DEF PostInstallErase, EraseHeaders, PCs
<1>5. CASE PostInstallKey
  <2>1. src' \in Source /\ callback' \in Callbacks
    BY <1>5, <1>s, ReportEffect DEF PostInstallKey, Callbacks
  <2>2. version' \in [Components -> Nat]
    BY <1>5, ComponentAssumption DEF PostInstallKey
  <2> QED BY <1>5, <2>1, <2>2 DEF PostInstallKey, PCs
<1>6. CASE \E m \in Manifests : GotManifest(m)
  <2>1. PICK m \in Manifests : GotManifest(m)
    BY <1>6
  <2>2. SetValue(src, "UNSET") \in Source
    BY <1>s, SetValueType
  <2>3. SetValue(SetValue(src, "UNSET"), "NO_RESULT") \in Source
    BY <1>s, <2>2, SetValueType
  <2>4. src' \in Source
    BY <2>1, <2>3 DEF GotManifest, HandleManifest
  <2> QED BY <1>f, <2>1, <2>4 DEF GotManifest, HandleManifest, PCs, States
<1>7. CASE Parse
  <2>1. /\ src' \in Source /\ callback' \in Callbacks /\ pc' \in PCs
        /\ nvManifest' \in Manifests \cup {NoManifest}
    BY <1>7, <1>s, AbortEffect, ReportEffect DEF Parse, Callbacks, PCs
  <2>2. state' \in States
    BY <1>7 DEF Parse, States
  <2> QED BY <1>7, <2>1, <2>2 DEF Parse
<1>8. CASE AbortKey
  BY <1>8, StorageAssumption DEF AbortKey, ClearContext, Cap, PCs, States
<1>9. CASE InsufficientStorage
  <2>1. /\ src' \in Source /\ callback' \in Callbacks /\ pc' \in PCs
        /\ nvManifest' \in Manifests \cup {NoManifest}
    BY <1>9, AbortEffect DEF InsufficientStorage, Callbacks, PCs
  <2> QED BY <1>9, <1>f, <2>1 DEF InsufficientStorage
<1>9a. CASE ProgramFails
  <2>1. /\ src' \in Source /\ callback' \in Callbacks /\ pc' \in PCs
        /\ nvManifest' \in Manifests \cup {NoManifest}
    BY <1>9a, AbortEffect DEF ProgramFails, Callbacks, PCs
  <2> QED BY <1>9a, <1>f, <2>1 DEF ProgramFails
<1>10. CASE NoResume
  BY <1>10, StorageAssumption DEF NoResume, Cap, PCs
<1>11. CASE ResumeReady
  <2>1. /\ src' \in Source /\ callback' \in Callbacks /\ pc' \in PCs /\ state' \in States
        /\ nvManifest' \in Manifests \cup {NoManifest}
    BY <1>11, FinalizeEffect DEF ResumeReady, Callbacks, PCs, States
  <2> QED BY <1>11, <2>1 DEF ResumeReady
<1>12. CASE ResumeBlocks
  <2> PICK k \in 1..(Cap + 1) :
             /\ off' = GoodUpTo(k - 1) /\ addr' = k /\ resume' = "inactive"
             /\ \/ Finalize(PrefixOf(man, k)) /\ UNCHANGED <<reqs, event, halt>>
                \/ /\ state' = "downloading"
                   /\ Report(src, "DOWNLOADING", "none")
                   /\ Request(man, GoodUpTo(k - 1) + 1)
                   /\ pc' = "idle"
                   /\ UNCHANGED nvManifest
    BY <1>12 DEF ResumeBlocks
  <2>1. k - 1 \in Int /\ GoodUpTo(k - 1) \in Nat
    <3>1. k \in Int
      BY StorageAssumption DEF Cap
    <3> QED BY <3>1, GoodUpToType
  <2>2. /\ src' \in Source /\ callback' \in Callbacks /\ pc' \in PCs /\ state' \in States
        /\ nvManifest' \in Manifests \cup {NoManifest}
    <3>1. CASE Finalize(PrefixOf(man, k)) /\ UNCHANGED <<reqs, event, halt>>
      BY <3>1, <1>s, FinalizeEffect DEF Callbacks, PCs, States
    <3>2. CASE state' = "downloading" /\ Report(src, "DOWNLOADING", "none") /\ pc' = "idle" /\ UNCHANGED nvManifest
      BY <3>2, <1>s, ReportEffect DEF Callbacks, PCs, States
    <3> QED BY <3>1, <3>2
  <2>3. man \in Manifests
    BY <1>12 DEF ResumeBlocks, StorageFits, Sequencing, PcMatchesState, ContextHasManifest
  <2>4. /\ reqs' \subseteq Manifests \X Nat
        /\ event' \in {"none", "resume", "authorize", "reject", "defer", "fragment_failure"}
        /\ halt' \in {"none", "event", "manifest", "authorize", "reject"}
    BY <2>1, <2>3 DEF Request, Defer
  <2> QED BY <1>12, <2>1, <2>2, <2>4 DEF ResumeBlocks
<1>13. CASE Erase
  <2>1. /\ src' \in Source /\ callback' \in Callbacks /\ pc' \in PCs
        /\ nvManifest' \in Manifests \cup {NoManifest}
    BY <1>13, AbortEffect DEF Erase, Callbacks, PCs
  <2>2. slot' \in [1..Cap -> Block \cup {Blank, Torn}]
    BY <1>13 DEF Erase
  <2> QED BY <1>13, <1>f, <2>1, <2>2 DEF Erase, EraseHeaders
<1>14. CASE ProgramHeader
  <2>1. man \in Manifests
    BY <1>14 DEF ProgramHeader, Sequencing, PcMatchesState, ContextHasManifest
  <2>2. src' \in Source /\ callback' \in Callbacks
    BY <1>14, <1>s, ReportEffect DEF ProgramHeader, Callbacks
  <2>3. /\ reqs' \subseteq Manifests \X Nat
        /\ event' \in {"none", "resume", "authorize", "reject", "defer", "fragment_failure"}
        /\ halt' \in {"none", "event", "manifest", "authorize", "reject"}
    BY <1>14, <2>1 DEF ProgramHeader, Request, Defer
  <2> QED BY <1>14, <2>1, <2>2, <2>3 DEF ProgramHeader, PCs, States
<1>15. CASE \E r \in reqs : OnFragment(r)
  <2>1. PICK r \in reqs : OnFragment(r)
    BY <1>15
  <2>2. /\ src' \in Source /\ callback' \in Callbacks /\ pc' \in PCs
        /\ nvManifest' \in Manifests \cup {NoManifest}
    BY <2>1, AbortEffect DEF OnFragment, Callbacks, PCs
  <2>3. slot' \in [1..Cap -> Block \cup {Blank, Torn}]
    BY <2>1 DEF OnFragment
  <2>4. incoming' \in (Manifests \cup {NoManifest}) \X Nat
    BY <2>1 DEF OnFragment
  <2>5. budget' \in Nat /\ reqs' \subseteq Manifests \X Nat
    BY <1>f, <2>1 DEF OnFragment
  <2> QED BY <2>1, <2>2, <2>3, <2>4, <2>5 DEF OnFragment
<1>16. CASE \E r \in reqs : FragmentError(r)
  BY <1>16, <1>f DEF FragmentError, Defer
<1>17. CASE ProgramDone
  <2>1. /\ man \in Manifests /\ incoming = <<man, off + 1>>
        /\ off < ManBlocks[man] /\ addr + (ManBlocks[man] - off) <= Cap + 1
    BY <1>17 DEF ProgramDone, Sequencing, PcMatchesState, ContextHasManifest, OneFragment, SpaceLeft
  <2>2. ManBlocks[man] \in Nat /\ Cap \in Nat
    BY <2>1, ManifestAssumption, StorageAssumption DEF Cap
  <2>3. off' \in Nat /\ addr' \in 1..(Cap + 1)
    BY <1>17, <2>1, <2>2 DEF ProgramDone
  <2>4. slot' \in [1..Cap -> Block \cup {Blank, Torn}]
    BY <1>17, <2>1 DEF ProgramDone, Block
  <2>5. /\ src' \in Source /\ callback' \in Callbacks /\ pc' \in PCs /\ state' \in States
        /\ nvManifest' \in Manifests \cup {NoManifest}
    BY <1>17, FinalizeEffect DEF ProgramDone, Callbacks, PCs, States
  <2>6. /\ reqs' \subseteq Manifests \X Nat
        /\ event' \in {"none", "resume", "authorize", "reject", "defer", "fragment_failure"}
        /\ halt' \in {"none", "event", "manifest", "authorize", "reject"}
    BY <1>17, <2>1 DEF ProgramDone, Request, Defer
  <2>7. incoming' \in (Manifests \cup {NoManifest}) \X Nat
    BY <1>17 DEF ProgramDone
  <2> QED BY <1>17, <2>3, <2>4, <2>5, <2>6, <2>7 DEF ProgramDone
<1>18. CASE ReadyDone
  <2>1. man \in Manifests
    BY <1>18 DEF ReadyDone, Sequencing, PcMatchesState, ContextHasManifest
  <2>2. /\ src' \in Source /\ callback' \in Callbacks /\ pc' \in PCs
        /\ nvManifest' \in Manifests \cup {NoManifest}
    BY <1>18, <1>s, AbortEffect, ReportEffect DEF ReadyDone, AfterReady, Callbacks, PCs
  <2>3. cand' \in Components \cup {Blank, Torn}
    BY <1>18, <2>1, ManifestAssumption DEF ReadyDone
  <2>4. /\ state' \in States /\ resume' \in {"inactive", "started", "ongoing"}
        /\ man' \in Manifests \cup {NoManifest} /\ off' \in Nat /\ addr' \in 1..(Cap + 1)
    <3>1. \/ ClearContext
          \/ UNCHANGED ctx
          \/ resume' = "inactive" /\ UNCHANGED <<state, man, off, addr>>
      BY <1>18 DEF ReadyDone, AfterReady
    <3> QED BY <3>1, StorageAssumption DEF ClearContext, Cap, States
  <2> QED BY <1>18, <2>2, <2>3, <2>4 DEF ReadyDone
<1>19. CASE Iterate
  <2>1. /\ src' \in Source /\ callback' \in Callbacks /\ pc' \in PCs
        /\ nvManifest' \in Manifests \cup {NoManifest}
    BY <1>19, AbortEffect DEF Iterate, Callbacks, PCs
  <2>2. man \in Manifests
    BY <1>19 DEF Iterate, Sequencing, PcMatchesState, ContextHasManifest
  <2>3. image' \in [Components -> Manifests \cup {Factory, Broken}]
    BY <1>19, <1>v, <2>2, ManifestAssumption DEF Iterate
  <2> QED BY <1>19, <2>1, <2>3 DEF Iterate
<1>20. CASE Installed
  <2>1. /\ src' \in Source /\ callback' \in Callbacks /\ pc' \in PCs
        /\ nvManifest' \in Manifests \cup {NoManifest}
    <3>1. CASE UNCHANGED <<reports, nvManifest>> /\ pc' = "verify"
      BY <3>1 DEF PCs
    <3>2. CASE Report(src, "REBOOTING", "on_reboot") /\ pc' = "idle" /\ UNCHANGED nvManifest
      BY <3>2, <1>s, ReportEffect DEF Callbacks, PCs
    <3>3. CASE BeginAbort(TRUE)
      BY <3>3, <1>s, AbortEffect DEF Callbacks, PCs
    <3> QED BY <1>20, <3>1, <3>2, <3>3 DEF Installed, InstallerFails
  <2>2. man \in Manifests
    BY <1>20 DEF Installed, Sequencing, PcMatchesState, ContextHasManifest
  <2>3. image' \in [Components -> Manifests \cup {Factory, Broken}]
    <3>1. image' = image \/ image' = [image EXCEPT ![ManComp[man]] = hdr]
      BY <1>20 DEF Installed, InstallerFails
    <3>2. hdr \in Manifests
      BY <1>20 DEF Installed, Sequencing, ContextHasManifest
    <3>3. ManComp[man] \in Components
      BY <2>2, ManifestAssumption
    <3>4. image \in [Components -> Manifests \cup {Factory, Broken}]
      OBVIOUS
    <3> QED BY ONLY <1>v, <3>1, <3>2, <3>3, <3>4
  <2>4. budget' \in Nat
    BY <1>20, <1>f DEF Installed, InstallerFails
  <2> QED BY <1>20, <2>1, <2>3, <2>4 DEF Installed
<1>21. CASE InstallVerify
  <2>1. man \in Manifests
    BY <1>21 DEF InstallVerify, Sequencing, PcMatchesState, ContextHasManifest
  <2>2. /\ version' \in [Components -> Nat] /\ nvVersion' \in [Components -> Nat]
        /\ unrecorded' \subseteq Components /\ budget' \in Nat
    BY <1>21, <2>1, VerifyEffect, ManifestAssumption DEF InstallVerify
  <2> QED BY <1>21, <2>2 DEF InstallVerify, PCs
<1>22. CASE InstallFinish
  <2>1. SetValue(src, "OK") \in Source
    BY <1>s, SetValueType
  <2>2. src' \in Source /\ callback' \in Callbacks
    BY <1>22, <1>s, <2>1, ReportEffect DEF InstallFinish, Callbacks
  <2> QED BY <1>22, <2>2, StorageAssumption DEF InstallFinish, ClearContext, Cap, PCs, States
<1>23. CASE Dispatch
  <2>1. /\ src' \in Source /\ callback' \in Callbacks /\ pc' \in PCs
        /\ nvManifest' \in Manifests \cup {NoManifest}
    BY <1>23, <1>s, AbortEffect, ReportEffect
    DEF Dispatch, OnResume, HandleManifest, OnDownloadAuthorize, OnInstallAuthorize, AfterReady,
        Callbacks, PCs
  <2>2. /\ state' \in States /\ resume' \in {"inactive", "started", "ongoing"}
        /\ man' \in Manifests \cup {NoManifest} /\ off' \in Nat /\ addr' \in 1..(Cap + 1)
    <3>1. \/ ClearContext
          \/ UNCHANGED ctx
          \/ resume' \in {"inactive", resume} /\ UNCHANGED <<state, man, off, addr>>
          \/ /\ state' = "idle" /\ man' = nvManifest /\ resume' \in {"started", "inactive"}
             /\ UNCHANGED <<off, addr>>
      BY <1>23
      DEF Dispatch, OnResume, HandleManifest, OnDownloadAuthorize, OnInstallAuthorize, AfterReady
    <3> QED BY <3>1, StorageAssumption DEF ClearContext, Cap, States
  <2>3. cand' \in Components \cup {Blank, Torn}
    <3>1. \/ cand' = cand
          \/ state = "await_install" /\ cand' \in {Torn, ManComp[man]}
      BY <1>23 DEF Dispatch, OnInstallAuthorize
    <3> QED BY <3>1, ManifestAssumption DEF Sequencing, ContextHasManifest
  <2>4. slot' \in [1..Cap -> Block \cup {Blank, Torn}]
    BY <1>23 DEF Dispatch, OnDownloadAuthorize, Rekeyed
  <2>5. budget' \in Nat /\ halt' \in {"none", "event", "manifest", "authorize", "reject"}
    BY <1>23, <1>f DEF Dispatch, OnInstallAuthorize
  <2> QED BY <1>23, <2>1, <2>2, <2>3, <2>4, <2>5 DEF Dispatch
<1>24. CASE \E e \in {"authorize", "reject", "defer"} : AppAnswer(e)
  BY <1>24, <1>f DEF AppAnswer, Defer
<1>25. CASE Delivered
  <2>1. [src EXCEPT !.flight = "none"] \in Source
    BY SourceUpdate
  <2>2. src' \in Source /\ callback' \in Callbacks /\ pc' \in PCs
    BY <1>25, <1>s, <2>1, ReportEffect
    DEF Delivered, ForgetCallback, InstallComponent, Callbacks, PCs
  <2> QED BY <1>25, <2>2 DEF Delivered, InstallComponent
<1>26. CASE AppCallbackFails
  <2>1. [src EXCEPT !.flight = "none"] \in Source
    BY SourceUpdate
  <2>2. SetValue([src EXCEPT !.flight = "none"], "FAILED") \in Source
    BY <1>s, <2>1, SetValueType
  <2>3. src' \in Source /\ callback' \in Callbacks
    BY <1>26, <1>s, <2>2, ReportEffect DEF AppCallbackFails, Callbacks
  <2> QED BY <1>26, <1>f, <2>3 DEF AppCallbackFails, PCs
<1>27. CASE DeliveryFailed
  <2> DEFINE s == IF DeliveryAborts THEN SetValue(src, "PROCESSING_MANIFEST") ELSE src
             q == s.queued \cup {ResourceOf(src.flight)}
  <2>1. s \in Source
    BY <1>s, SetValueType
  <2>2. s.queued \in SUBSET {"state", "result"}
    BY <2>1, SourceFields
  <2>3. q \in SUBSET {"state", "result"}
    BY <2>2 DEF ResourceOf
  <2>4. src' = [s EXCEPT !.flight = "none", !.queued = q]
    BY <1>27 DEF DeliveryFailed
  <2> HIDE DEF s, q
  <2>5. src' \in Source
    BY <2>1, <2>3, <2>4, SourceUpdate
  <2>6. pc' \in PCs
    BY <1>27 DEF DeliveryFailed, PCs
  <2> QED BY <1>27, <1>f, <2>5, <2>6 DEF DeliveryFailed, Callbacks
<1>28. CASE SendNext
  <2>1. PICK r \in src.queued :
          src' = [src EXCEPT !.flight = IF r = "state" THEN src.state ELSE src.result,
                             !.queued = src.queued \ {r}]
    BY <1>28 DEF SendNext
  <2> DEFINE f == IF r = "state" THEN src.state ELSE src.result
             q == src.queued \ {r}
  <2>2. f \in SourceStates \cup Results \cup {"none"} /\ q \in SUBSET {"state", "result"}
    BY SourceFields
  <2>3. src' = [src EXCEPT !.flight = f, !.queued = q]
    BY <2>1
  <2> HIDE DEF f, q
  <2>4. src' \in Source
    BY <2>2, <2>3, SourceUpdate
  <2> QED BY <1>28, <2>4 DEF SendNext
<1>29. CASE Disconnect
  BY <1>29, <1>f DEF Disconnect
<1>30. CASE RegistrationUpdated
  BY <1>30, <1>f DEF RegistrationUpdated, ResumeEvent
<1>31. CASE Registered
  <2> DEFINE q == IF src.flight \in Results \/ "result" \in src.queued THEN {"result"} ELSE {}
  <2>1. q \in SUBSET {"state", "result"}
    OBVIOUS
  <2>2. src' = [src EXCEPT !.flight = "none", !.queued = q]
    BY <1>31 DEF Registered
  <2> HIDE DEF q
  <2>3. src' \in Source
    BY <2>1, <2>2, SourceUpdate
  <2> QED BY <1>31, <2>3 DEF Registered, ResumeEvent
<1>32. CASE Restart /\ budget' \in Nat
  <2>1. src' \in Source
    BY <1>32, <1>b, NewSource DEF Restart
  <2> QED BY <1>32, <2>1, StorageAssumption DEF Restart, ClearContext, Cap, PCs, States, Callbacks
<1>33. CASE OnReboot \/ PowerLoss \/ PowerCycle
  BY <1>32, <1>33, <1>f DEF OnReboot, PowerLoss, PowerCycle
<1>34. CASE UNCHANGED vars
  BY <1>34 DEF vars
<1> QED BY <1>1, <1>2, <1>3, <1>4, <1>5, <1>6, <1>7, <1>8, <1>9, <1>9a, <1>10, <1>11, <1>12, <1>13,
           <1>14, <1>15, <1>16, <1>17, <1>18, <1>19, <1>20, <1>21, <1>22, <1>23, <1>24, <1>25,
           <1>26, <1>27, <1>28, <1>29, <1>30, <1>31, <1>33, <1>34 DEF Next

-----------------------------------------------------------------------------
(***************************************************************************)
(* Order of the handlers                                                   *)
(***************************************************************************)

\* Every step keeps the handlers in step with the update state.
LEMMA SequencingStep ==
  ASSUME ControlInv, [Next]_vars
  PROVE  Sequencing'
<1> USE DEF ControlInv, Sequencing, PcMatchesState, ContextHasManifest, OneToken, OneFragment,
            SpaceLeft, AnswerHasContext, OneUpdate, Running, Idle, Active, Halt, Fault, Answers,
            nvm, store, comps, records, ctx, reports, io
<1>1. CASE Bootloader
  BY <1>1 DEF Bootloader
<1>2. CASE FotaInit
  BY <1>2 DEF FotaInit
<1>3. CASE PostInstallVerify
  <2>1. /\ pc = "post_install" /\ pc' \in {"post_erase", "post_key", "post_key_failed"}
        /\ UNCHANGED <<nvm, store, ctx, incoming, io, halt>>
    BY <1>3 DEF PostInstallVerify
  <2> QED BY <2>1
<1>4. CASE PostInstallErase
  BY <1>4 DEF PostInstallErase, EraseHeaders
<1>5. CASE PostInstallKey
  BY <1>5 DEF PostInstallKey, Report
<1>6. CASE \E m \in Manifests : GotManifest(m)
  BY <1>6 DEF GotManifest, IsReady, HandleManifest
<1>7. CASE Parse
  BY <1>7 DEF Parse, Report, BeginAbort, ManifestAfterAbort, Acceptable
<1>8. CASE AbortKey
  BY <1>8 DEF AbortKey, ClearContext
<1>9. CASE InsufficientStorage
  BY <1>9 DEF InsufficientStorage, BeginAbort, Report, ManifestAfterAbort
<1>9a. CASE ProgramFails
  BY <1>9a DEF ProgramFails, BeginAbort, Report, ManifestAfterAbort
<1>10. CASE NoResume
  BY <1>10 DEF NoResume, StorageFits
<1>11. CASE ResumeReady
  BY <1>11 DEF ResumeReady, Finalize, StorageFits, Report, BeginAbort, ManifestAfterAbort
<1>12. CASE ResumeBlocks
  <2> PICK k \in 1..(Cap + 1) :
             /\ ~DoesNotFit(k)
             /\ off' = GoodUpTo(k - 1) /\ addr' = k /\ resume' = "inactive"
             /\ IF BlocksLeft(k) = 0
                THEN Finalize(PrefixOf(man, k)) /\ UNCHANGED <<reqs, event, halt>>
                ELSE /\ state' = "downloading"
                     /\ Report(src, "DOWNLOADING", "none")
                     /\ Request(man, GoodUpTo(k - 1) + 1)
                     /\ pc' = "idle"
                     /\ UNCHANGED nvManifest
             /\ \A j \in 1..(k - 1) : ~StopsAt(j)
    BY <1>12 DEF ResumeBlocks
  <2>1. /\ pc = "storage" /\ state = "await_download" /\ man \in Manifests
        /\ man \in ManAuthentic /\ reqs = {} /\ event # "fragment_failure"
        /\ callback = "none" /\ asked = "none" /\ event \notin Answers
    BY <1>12 DEF ResumeBlocks, StorageFits
  <2>2. UNCHANGED <<man, hdr, asked, incoming>>
    BY <1>12 DEF ResumeBlocks
  <2>3. /\ k \in Nat \ {0} /\ k - 1 \in Nat /\ GoodUpTo(k - 1) \in Nat
        /\ Cap \in Nat /\ ManBlocks[man] \in Nat \ {0}
    BY <2>1, GoodUpToType, StorageAssumption, ManifestAssumption DEF Cap
  <2>4. CASE BlocksLeft(k) = 0
    <3>1. src \in Source
      BY DEF ControlInv, TypeOK, ValueTypes
    <3>2. \/ /\ state' = "await_install" /\ pc' = "idle"
             /\ callback' = "on_approve_state_delivered"
          \/ state' = state /\ pc' = "abort" /\ callback' = "none"
      BY <2>4, <3>1, FinalizeEffect
    <3>3. nvManifest' = nvManifest \/ nvManifest' = NoManifest
      BY <2>4, <3>1, FinalizeEffect
    <3> QED BY <2>1, <2>2, <2>4, <3>2, <3>3
  <2>5. CASE BlocksLeft(k) # 0
    <3>1. /\ state' = "downloading" /\ pc' = "idle" /\ callback' = "none"
          /\ Request(man, off' + 1) /\ UNCHANGED nvManifest
      BY <2>5 DEF Report
    <3>2. \/ reqs' = {<<man, off' + 1>>} /\ UNCHANGED <<event, halt>>
          \/ reqs' = {} /\ event' = "fragment_failure" /\ UNCHANGED halt
          \/ reqs' = {} /\ halt' = "event" /\ UNCHANGED event
      BY <2>1, <3>1 DEF Request, Defer
    <3>3. off' < ManBlocks[man] /\ addr' + (ManBlocks[man] - off') <= Cap + 1
      <4>1. GoodUpTo(k - 1) < ManBlocks[man]
        BY <2>1, <2>5, WalkStops
      <4> QED BY <2>3, <4>1 DEF DoesNotFit, BlocksLeft
    <3> QED BY <2>1, <2>2, <3>1, <3>2, <3>3
  <2> QED BY <2>4, <2>5
<1>13. CASE Erase
  BY <1>13 DEF Erase, EraseHeaders, BeginAbort, Report, ManifestAfterAbort
<1>14. CASE ProgramHeader
  <2>1. /\ pc = "header" /\ state = "await_download" /\ man \in Manifests
        /\ man \in ManAuthentic /\ reqs = {} /\ event # "fragment_failure"
        /\ callback = "none" /\ asked = "none" /\ event \notin Answers
        /\ off = 0 /\ addr = 1 /\ ManBlocks[man] <= Slots
    BY <1>14 DEF ProgramHeader
  <2>2. \/ reqs' = {<<man, 1>>} /\ UNCHANGED <<event, halt>>
        \/ reqs' = {} /\ event' = "fragment_failure" /\ UNCHANGED halt
        \/ reqs' = {} /\ halt' = "event" /\ UNCHANGED event
    BY <1>14, <2>1 DEF ProgramHeader, Request, Defer
  <2>3. /\ state' = "downloading" /\ pc' = "idle" /\ callback' = "none"
        /\ UNCHANGED <<man, off, addr, asked, nvManifest>>
    BY <1>14 DEF ProgramHeader, Report
  <2>4. off < ManBlocks[man] /\ addr + (ManBlocks[man] - off) <= Cap + 1
    BY <2>1, ManifestAssumption, StorageAssumption DEF Cap
  <2> QED BY <2>1, <2>2, <2>3, <2>4
<1>15. CASE \E r \in reqs : OnFragment(r)
  BY <1>15 DEF OnFragment, BeginAbort, Report, ManifestAfterAbort
<1>16. CASE \E r \in reqs : FragmentError(r)
  BY <1>16 DEF FragmentError, Defer
<1>17. CASE ProgramDone
  <2>1. /\ pc = "program" /\ state = "downloading" /\ man \in Manifests
        /\ man \in ManAuthentic /\ reqs = {} /\ event # "fragment_failure"
        /\ callback = "none" /\ asked = "none" /\ event \notin Answers
        /\ off < ManBlocks[man] /\ addr + (ManBlocks[man] - off) <= Cap + 1
    BY <1>17 DEF ProgramDone
  <2>2. off \in Nat /\ addr \in Nat /\ Cap \in Nat /\ ManBlocks[man] \in Nat
    <3>1. Cap \in Nat
      BY StorageAssumption DEF Cap
    <3>2. off \in Nat /\ addr \in 1..(Cap + 1)
      BY DEF ControlInv, TypeOK, ValueTypes
    <3> QED BY <2>1, <3>1, <3>2, ManifestAssumption
  <2>3. UNCHANGED <<man, asked, hdr>> /\ off' = off + 1 /\ addr' = addr + 1
    BY <1>17 DEF ProgramDone
  <2>4. CASE off + 1 = ManBlocks[man]
    <3>1. src \in Source
      BY DEF ControlInv, TypeOK, ValueTypes
    <3>2. \/ /\ state' = "await_install" /\ pc' = "idle"
             /\ callback' = "on_approve_state_delivered"
          \/ state' = state /\ pc' = "abort" /\ callback' = "none"
      BY <1>17, <2>4, <3>1, FinalizeEffect DEF ProgramDone
    <3>3. UNCHANGED <<reqs, event, halt>>
      BY <1>17, <2>4 DEF ProgramDone
    <3>4. nvManifest' = nvManifest \/ nvManifest' = NoManifest
      BY <1>17, <2>4, <3>1, FinalizeEffect DEF ProgramDone
    <3> QED BY <2>1, <2>3, <3>2, <3>3, <3>4
  <2>5. CASE off + 1 # ManBlocks[man]
    <3>1. pc' = "idle" /\ UNCHANGED <<state, callback, nvManifest>>
      BY <1>17, <2>5 DEF ProgramDone
    <3>2. \/ reqs' = {<<man, off + 2>>} /\ UNCHANGED <<event, halt>>
          \/ reqs' = {} /\ event' = "fragment_failure" /\ UNCHANGED halt
          \/ reqs' = {} /\ halt' = "event" /\ UNCHANGED event
      BY <1>17, <2>1, <2>5 DEF ProgramDone, Request, Defer
    <3>3. off' + 1 = off + 2
      BY <2>2, <2>3
    <3>4. off' < ManBlocks[man] /\ addr' + (ManBlocks[man] - off') <= Cap + 1
      BY <2>1, <2>2, <2>3, <2>5
    <3> QED BY <2>1, <2>3, <3>1, <3>2, <3>3, <3>4
  <2> QED BY <2>4, <2>5
<1>18. CASE ReadyDone
  BY <1>18 DEF ReadyDone, AfterReady, ClearContext, Report, BeginAbort, ManifestAfterAbort
<1>19. CASE Iterate
  BY <1>19 DEF Iterate, Installable, BeginAbort, Report, ManifestAfterAbort
<1>20. CASE Installed
  BY <1>20 DEF Installed, Report, InstallerFails, BeginAbort, ManifestAfterAbort
<1>21. CASE InstallVerify
  BY <1>21 DEF InstallVerify
<1>22. CASE InstallFinish
  BY <1>22 DEF InstallFinish, Report, ClearContext
<1>23. CASE Dispatch
  <2>1. /\ pc = "idle" /\ halt = "none" /\ event' = "none" /\ state # "idle"
        /\ UNCHANGED <<hdr, incoming, asked, reqs>>
        /\ event \in Answers => callback = "none" /\ asked = "none" /\ reqs = {}
    BY <1>23 DEF Dispatch
  <2>2. CASE event = "resume" /\ OnResume /\ UNCHANGED <<halt, nvManifest>>
    BY <2>1, <2>2 DEF OnResume, HandleManifest, ControlInv, TypeOK, ValueTypes
  <2>3. CASE event \in Answers /\ UNCHANGED <<ctx, halt>> /\ BeginAbort(event # "defer")
    BY <2>1, <2>3 DEF BeginAbort, Report
  <2>4. CASE /\ event = "authorize" /\ state = "await_download" /\ OnDownloadAuthorize
             /\ UNCHANGED <<state, man, off, addr, reports, halt, nvManifest>>
    BY <2>1, <2>4 DEF OnDownloadAuthorize
  <2>5. CASE /\ event \in {"authorize", "defer"} /\ state = "await_install" /\ UNCHANGED halt
             /\ OnInstallAuthorize(event = "defer")
    BY <2>1, <2>5 DEF OnInstallAuthorize, AfterReady, ClearContext, BeginAbort, Report
  <2>6. CASE event = "fragment_failure" /\ UNCHANGED <<ctx, halt>> /\ BeginAbort(TRUE)
    BY <2>1, <2>6 DEF BeginAbort, Report
  <2> QED BY <1>23, <2>1, <2>2, <2>3, <2>4, <2>5, <2>6 DEF Dispatch
<1>24. CASE \E e \in {"authorize", "reject", "defer"} : AppAnswer(e)
  BY <1>24 DEF AppAnswer, Defer
<1>25. CASE Delivered
  BY <1>25 DEF Delivered, Acknowledged, ForgetCallback, InstallComponent, Report
<1>26. CASE AppCallbackFails
  BY <1>26 DEF AppCallbackFails, Acknowledged, Report
<1>27. CASE DeliveryFailed
  BY <1>27 DEF DeliveryFailed, DeliveryAborts
<1>28. CASE SendNext
  BY <1>28 DEF SendNext
<1>29. CASE Disconnect
  BY <1>29 DEF Disconnect
<1>30. CASE RegistrationUpdated
  BY <1>30 DEF RegistrationUpdated, ResumeEvent
<1>31. CASE Registered
  BY <1>31 DEF Registered, ResumeEvent
<1>32. CASE OnReboot
  BY <1>32 DEF OnReboot, Restart, ClearContext
<1>33. CASE PowerLoss
  BY <1>33 DEF PowerLoss, Restart, ClearContext
<1>34. CASE PowerCycle
  BY <1>34 DEF PowerCycle, Restart, ClearContext
<1>35. CASE UNCHANGED vars
  BY <1>35 DEF vars
<1> QED BY <1>1, <1>2, <1>3, <1>4, <1>5, <1>6, <1>7, <1>8, <1>9, <1>9a, <1>10, <1>11, <1>12, <1>13,
           <1>14, <1>15, <1>16, <1>17, <1>18, <1>19, <1>20, <1>21, <1>22, <1>23, <1>24,
           <1>25, <1>26, <1>27, <1>28, <1>29, <1>30, <1>31, <1>32, <1>33, <1>34, <1>35 DEF Next

-----------------------------------------------------------------------------
(***************************************************************************)
(* Theorems                                                                *)
(***************************************************************************)

\* The initial state satisfies the control invariant.
LEMMA ControlInit == Init => ControlInv
<1> SUFFICES ASSUME Init PROVE ControlInv
  OBVIOUS
<1> USE DEF Init
<1>1. FlagTypes
  BY Zenon DEF FlagTypes
<1>2. src \in Source
  BY NewSource DEF SourceStates
<1>3. /\ image \in [Components -> Manifests \cup {Factory, Broken}]
      /\ version \in [Components -> Nat] /\ nvVersion \in [Components -> Nat]
  BY ComponentAssumption
<1>4. ValueTypes
  BY <1>2, <1>3, StorageAssumption, ConfigAssumption
  DEF ValueTypes, Cap, States, PCs, Callbacks
<1>5. Sequencing
  BY DEF Sequencing, PcMatchesState, ContextHasManifest, OneToken, OneFragment, SpaceLeft,
         AnswerHasContext, OneUpdate, Active, Answers
<1> QED BY <1>1, <1>4, <1>5 DEF ControlInv, TypeOK

\* The handlers, the notifications, the application and the event slot stay in step with
\* the update state: the control invariant holds in every reachable state.
THEOREM Control == Spec => []ControlInv
<1>1. ControlInv /\ [Next]_vars => ControlInv'
  <2> SUFFICES ASSUME ControlInv, [Next]_vars PROVE ControlInv'
    OBVIOUS
  <2>1. FlagTypes'
    BY FlagStep DEF ControlInv, TypeOK
  <2> QED BY <2>1, ValueStep, SequencingStep DEF ControlInv, TypeOK
<1> QED BY <1>1, ControlInit, PTL DEF Spec

\* No step of any handler, nor a fault, takes a variable out of its type; in particular
\* storage_addr stays inside the candidate area or just behind it.
THEOREM TypeCorrect == Spec => []TypeOK
<1>1. ControlInv => TypeOK
  BY DEF ControlInv
<1> QED BY <1>1, Control, PTL

\* No callback is left registered with fota_source when its context has been freed.
THEOREM CallbackSafe == Spec => []CallbackHasContext
<1>1. ControlInv => CallbackHasContext
  BY DEF ControlInv, Sequencing, OneToken, CallbackHasContext, Active
<1> QED BY <1>1, Control, PTL

\* The assertion of report_int holds wherever a report is made.
THEOREM ReportSafe == Spec => []ReportSlotFree
<1>1. ControlInv => ReportSlotFree
  BY DEF ControlInv, Sequencing, OneToken, OneFragment, ReportSlotFree, Answers
<1> QED BY <1>1, Control, PTL

\* The only fragment that can arrive is the next one of the running download.
THEOREM FragmentSafe == Spec => []RequestIsNext
<1>1. ControlInv => RequestIsNext
  BY DEF ControlInv, Sequencing, OneFragment, RequestIsNext
<1> QED BY <1>1, Control, PTL

\* The application is only ever asked what the engine waits for, and its answer never
\* meets the assertions of fota_on_authorize and fota_on_reject.
THEOREM AnswerSafe == Spec => [](QuestionFitsState /\ AnswerHasContext)
<1>1. ControlInv => QuestionFitsState /\ AnswerHasContext
  BY DEF ControlInv, Sequencing, OneToken, QuestionFitsState
<1> QED BY <1>1, Control, PTL

\* The manifest that survives a reset is the one of the running update.
THEOREM ResumeSafe == Spec => []OneUpdate
<1>1. ControlInv => OneUpdate
  BY DEF ControlInv, Sequencing
<1> QED BY <1>1, Control, PTL

\* Where the headers take no whole block, that is where num_blocks_available of
\* analyze_resume_state is right, every block is programmed inside the storage.
THEOREM StorageSafe ==
  ASSUME HeaderSlack = 0
  PROVE  Spec => []WithinStorage
<1>1. ControlInv => WithinStorage
  <2> SUFFICES ASSUME ControlInv, pc = "program" PROVE addr <= Slots
    BY DEF WithinStorage
  <2>1. /\ man \in Manifests /\ off < ManBlocks[man]
        /\ addr + (ManBlocks[man] - off) <= Cap + 1
    BY DEF ControlInv, Sequencing, PcMatchesState, ContextHasManifest, SpaceLeft
  <2>2. Cap \in Nat /\ Cap = Slots
    BY StorageAssumption DEF Cap
  <2>3. off \in Nat /\ addr \in 1..(Cap + 1)
    BY DEF ControlInv, TypeOK, ValueTypes
  <2> QED BY <2>1, <2>2, <2>3, ManifestAssumption
<1> QED BY <1>1, Control, PTL
=============================================================================
