------------------------------ MODULE FotaPages ------------------------------
(***************************************************************************)
(* From fragments to pages: what module Fota treats as one block per       *)
(* fragment.  The download engine asks for MaxFrag bytes at an aligned     *)
(* offset (fota_source_firmware_request_fragment), strips what the         *)
(* alignment added (data_req_callback) and assembles pages of PageSize     *)
(* payload bytes (handle_fw_fragment, program_to_storage).  A reset loses  *)
(* the page buffer; the resumed download continues behind the last page    *)
(* that was programmed.  A byte is its index in the payload.               *)
(***************************************************************************)
EXTENDS Integers, Sequences

CONSTANTS
  Sizes,         \* sizes of a payload
  MaxFrag,       \* max_frag_size of the source configuration
  PageSize,      \* effective_page_buf_size
  Taggings,      \* builds: does a tag or checksum precede the data of every page?
  Profile,       \* client profile: "full" or "lite"
  MaxResets      \* bound on the number of resets

ASSUME PagesAssumption ==
  /\ Sizes \cup {MaxFrag, PageSize} \subseteq Nat \ {0}
  /\ Taggings \subseteq BOOLEAN
  /\ Profile \in {"full", "lite"}
  /\ MaxResets \in Nat

VARIABLES
  tagged,    \* the build, one of Taggings
  size,      \* fw_info->payload_size
  offset,    \* fota_ctx->payload_offset
  fragment,  \* bytes of the fragment that are still to be handled
  last,      \* whether that fragment is the last one
  page,      \* page_buf, up to page_buf_offset
  stored,    \* pages programmed to the storage
  phase,     \* "request", "copy", "done" or "aborted"
  resets     \* resets so far

build == <<tagged, size>>
vars == <<build, offset, fragment, last, page, stored, phase, resets>>

Least(a, b) == IF a < b THEN a ELSE b

\* The payload bytes from position i up to, not including, j.
Bytes(i, j) == [n \in 1..(j - i) |-> i + n - 1]

\* What the callback strips: the offset travels in the context of the request,
\* which the full profile leaves NULL.
ExtraIgnored == 0
Extra == IF Profile = "lite" THEN offset % MaxFrag ELSE 0

\* A page goes to the storage when it is full, the last one as it is.
Flush(p) == Len(p) = PageSize \/ last

\* The request for an aligned offset and its answer, up to handle_fw_fragment
OnFragment ==
  /\ phase = "request"
  /\ LET first == offset - (offset % MaxFrag)
         data  == Bytes(first + Extra, Least(first + MaxFrag, size))
     IN  IF Len(data) > size - offset
         THEN phase' = "aborted" /\ UNCHANGED <<offset, fragment, last>>
         ELSE /\ phase' = "copy"
              /\ fragment' = data
              /\ last' = (Len(data) = size - offset)
              /\ offset' = offset + Len(data)
  /\ UNCHANGED <<build, page, stored, resets>>

\* Pages that need no tag and start at a page boundary are not copied.
DirectAnyway == ~tagged /\ Len(fragment) >= PageSize
Direct == ~tagged /\ page = <<>> /\ Len(fragment) >= PageSize

\* One turn of the loop of handle_fw_fragment: the rest of the page is filled ...
CopyToPage ==
  /\ phase = "copy" /\ fragment # <<>>
  /\ ~Direct
  /\ LET chunk == Least(PageSize - Len(page), Len(fragment))
         full  == page \o SubSeq(fragment, 1, chunk)
     IN  /\ fragment' = SubSeq(fragment, chunk + 1, Len(fragment))
         /\ stored' = IF Flush(full) THEN Append(stored, full) ELSE stored
         /\ page' = IF Len(full) = PageSize THEN <<>> ELSE full
  /\ UNCHANGED <<build, offset, last, phase, resets>>

\* ... or whole pages are programmed from the fragment itself.
ProgramDirectly ==
  /\ phase = "copy" /\ fragment # <<>>
  /\ Direct
  /\ LET pages == Len(fragment) \div PageSize
     IN  /\ fragment' = SubSeq(fragment, pages * PageSize + 1, Len(fragment))
         /\ stored' = stored \o [k \in 1..pages |->
                        SubSeq(fragment, (k - 1) * PageSize + 1, k * PageSize)]
  /\ UNCHANGED <<build, offset, last, page, phase, resets>>

\* The end of fota_on_fragment: the next request, or the end of the download
FragmentDone ==
  /\ phase = "copy" /\ fragment = <<>>
  /\ phase' = IF offset = size THEN "done" ELSE "request"
  /\ UNCHANGED <<build, offset, fragment, last, page, stored, resets>>

\* A reset.  With tagged pages the download is resumed behind the stored ones
\* (analyze_resume_state), otherwise the storage is erased and it starts again.
Reset ==
  /\ phase \in {"request", "copy"} /\ resets < MaxResets
  /\ resets' = resets + 1
  /\ stored' = IF tagged THEN stored ELSE <<>>
  /\ offset' = Least(Len(stored') * PageSize, size)
  /\ fragment' = <<>> /\ page' = <<>> /\ last' = FALSE
  /\ phase' = IF offset' = size THEN "done" ELSE "request"
  /\ UNCHANGED build

Finished == phase \in {"done", "aborted"} /\ UNCHANGED vars

Init ==
  /\ tagged \in Taggings
  /\ size \in Sizes
  /\ offset = 0 /\ fragment = <<>> /\ last = FALSE /\ page = <<>>
  /\ stored = <<>> /\ phase = "request" /\ resets = 0

Next == OnFragment \/ CopyToPage \/ ProgramDirectly \/ FragmentDone \/ Reset \/ Finished

Spec == Init /\ [][Next]_vars

FairSpec == Spec /\ WF_vars(OnFragment \/ CopyToPage \/ ProgramDirectly \/ FragmentDone)

-----------------------------------------------------------------------------
\* The storage holds the payload in order: page k has the bytes that
\* fota_candidate_iterate_image will read at its place, full but for the last,
\* and no byte is left in the page buffer when the download counts as finished.
StoredInOrder ==
  /\ \A k \in 1..Len(stored) :
       stored[k] = Bytes((k - 1) * PageSize, Least(k * PageSize, size))
  /\ phase = "done" =>
       \A b \in 0..size - 1 : \E k \in 1..Len(stored) : \E n \in 1..Len(stored[k]) :
         stored[k][n] = b

\* The download ends, and not by FOTA_STATUS_FW_SIZE_MISMATCH ("this should never
\* happen").
DownloadCompletes == <>(phase = "done")
=============================================================================
