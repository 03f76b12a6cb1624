-------------------------- MODULE FotaPagesProofs ---------------------------
(***************************************************************************)
(* Proofs about FotaPages in the lite profile, for every size of payload,  *)
(* fragment and page and any number of resets.  In the full profile TLC    *)
(* refutes StoredInOrder: what the alignment added is not stripped.        *)
(***************************************************************************)
EXTENDS FotaPages, SequenceTheorems, TLAPS

-----------------------------------------------------------------------------
(* Pieces of the payload *)

(***************************************************************************)
(* A piece of the payload as a sequence.                                   *)
(***************************************************************************)
LEMMA BytesFacts ==
  ASSUME NEW i \in Nat, NEW j \in Nat
  PROVE  /\ Bytes(i, j) \in Seq(Nat)
         /\ i <= j => Len(Bytes(i, j)) = j - i
         /\ j <= i => Bytes(i, j) = <<>>
         /\ \A n \in 1..(j - i) : Bytes(i, j)[n] = i + n - 1
<1>1. CASE i <= j
  <2>1. j - i \in Nat  BY <1>1
  <2>2. \A n \in 1..(j - i) : i + n - 1 \in Nat  BY <1>1
  <2>3. Bytes(i, j) \in Seq(Nat)  BY <2>1, <2>2 DEF Bytes
  <2>4. Len(Bytes(i, j)) = j - i  BY <2>1 DEF Bytes
  <2>5. i = j => Bytes(i, j) = <<>>  BY <2>3, <2>4
  <2> QED  BY <1>1, <2>3, <2>4, <2>5 DEF Bytes
<1>2. CASE j < i
  <2>1. 1..(j - i) = {}  BY <1>2
  <2>2. Bytes(i, j) = <<>>  BY <2>1 DEF Bytes
  <2> QED  BY <1>2, <2>1, <2>2
<1> QED  BY <1>1, <1>2

(***************************************************************************)
(* The same for a piece that is not of negative length.                    *)
(***************************************************************************)
LEMMA BytesType ==
  ASSUME NEW i \in Nat, NEW j \in Nat, i <= j
  PROVE  /\ Bytes(i, j) \in Seq(Nat)
         /\ Len(Bytes(i, j)) = j - i
         /\ \A n \in 1..(j - i) : Bytes(i, j)[n] = i + n - 1
BY BytesFacts, Zenon

(***************************************************************************)
(* Consecutive pieces make one.                                            *)
(***************************************************************************)
LEMMA BytesJoin ==
  ASSUME NEW i \in Nat, NEW j \in Nat, NEW k \in Nat, i <= j, j <= k
  PROVE  Bytes(i, j) \o Bytes(j, k) = Bytes(i, k)
<1> DEFINE s == Bytes(i, j)
           t == Bytes(j, k)
           u == Bytes(i, k)
<1>0. i <= k  OBVIOUS
<1>1. /\ s \in Seq(Nat) /\ t \in Seq(Nat) /\ u \in Seq(Nat)
      /\ Len(s) = j - i /\ Len(t) = k - j /\ Len(u) = k - i
  BY <1>0, BytesType, Zenon
<1>2. \A n \in 1..(j - i) : s[n] = i + n - 1  BY BytesType, Zenon
<1>3. \A n \in 1..(k - j) : t[n] = j + n - 1  BY BytesType, Zenon
<1>4. \A n \in 1..(k - i) : u[n] = i + n - 1  BY <1>0, BytesType, Zenon
<1> HIDE DEF s, t, u
<1> DEFINE v == s \o t
<1>5. /\ v \in Seq(Nat) /\ Len(v) = Len(s) + Len(t)
      /\ \A n \in 1..Len(s) + Len(t) :
           v[n] = IF n <= Len(s) THEN s[n] ELSE t[n - Len(s)]
  BY <1>1, ConcatProperties, Zenon
<1> HIDE DEF v
<1>6. ASSUME NEW n \in 1..(k - i) PROVE v[n] = u[n]
  <2>0. v[n] = IF n <= j - i THEN s[n] ELSE t[n - (j - i)]  BY <1>1, <1>5
  <2>1. CASE n <= j - i  BY <1>1, <1>2, <1>4, <2>0, <2>1
  <2>2. CASE n > j - i
    <3>1. n - (j - i) \in 1..(k - j)  BY <2>2
    <3>2. v[n] = t[n - (j - i)]  BY <2>0, <2>2
    <3> QED  BY <1>3, <1>4, <3>1, <3>2
  <2> QED  BY <2>1, <2>2
<1>7. Len(v) = Len(u) /\ \A n \in 1..Len(v) : v[n] = u[n]  BY <1>1, <1>5, <1>6
<1>8. v = u  BY <1>1, <1>5, <1>7, SeqEqual, Zenon
<1> QED  BY <1>8 DEF v, s, t, u

\* Positions l to n of the bytes from i to j are the bytes from p to q.
PartOf(i, j, l, n, p, q) ==
  /\ i \in Nat /\ j \in Nat /\ l \in Nat /\ n \in Nat /\ p \in Nat /\ q \in Nat
  /\ i <= j /\ 1 <= l /\ l <= n + 1 /\ n <= j - i
  /\ p + 1 = i + l /\ q = i + n

(***************************************************************************)
(* A part of a piece is a piece.                                           *)
(***************************************************************************)
LEMMA BytesPart ==
  ASSUME NEW i, NEW j, NEW l, NEW n, NEW p, NEW q, NEW t,
         PartOf(i, j, l, n, p, q), t = SubSeq(Bytes(i, j), l, n)
  PROVE  t = Bytes(p, q)
<1>h. /\ i \in Nat /\ j \in Nat /\ l \in Nat /\ n \in Nat /\ p \in Nat /\ q \in Nat
        /\ i <= j /\ 1 <= l /\ l <= n + 1 /\ n <= j - i
        /\ p + 1 = i + l /\ q = i + n
  BY DEF PartOf
<1>m. PICK m \in Nat : l = m + 1 /\ m <= n  BY <1>h
<1>0. p = i + m /\ q = i + n /\ p <= q  BY <1>m, <1>h
<1> DEFINE s == Bytes(i, j)
           u == Bytes(p, q)
<1>20. t = SubSeq(s, l, n)  OBVIOUS
<1>10. i \in Nat /\ j \in Nat /\ i <= j /\ p \in Nat /\ q \in Nat  BY <1>h
<1>1. s \in Seq(Nat) /\ Len(s) = j - i  BY <1>10, BytesType, Zenon
<1>2. \A x \in 1..(j - i) : s[x] = i + x - 1  BY <1>10, BytesType, Zenon
<1>3. /\ u \in Seq(Nat) /\ Len(u) = q - p
      /\ \A x \in 1..(q - p) : u[x] = p + x - 1
  BY <1>0, <1>10, BytesType, Zenon
<1> HIDE DEF s, u
<1>4. /\ t \in Seq(Nat) /\ Len(t) = n - m
      /\ \A x \in 1..(n - m) : t[x] = s[m + x]
  <2>1. \A x \in m + 1..n : s[x] \in Nat  BY <1>h, <1>1, <1>2
  <2>2. l = m + 1 /\ l \in Int /\ n \in Nat  BY <1>m, <1>h
  <2>3. \A x \in l..n : s[x] \in Nat  BY <2>1, <2>2
  <2>4. /\ SubSeq(s, l, n) \in Seq(Nat)
        /\ Len(SubSeq(s, l, n)) = IF l <= n THEN n - l + 1 ELSE 0
        /\ \A x \in 1..n - l + 1 : SubSeq(s, l, n)[x] = s[l + x - 1]
    BY ONLY <2>2, <2>3, SubSeqProperties
  <2>5. /\ t \in Seq(Nat)
        /\ Len(t) = IF l <= n THEN n - l + 1 ELSE 0
        /\ \A x \in 1..n - l + 1 : t[x] = s[l + x - 1]
    BY ONLY <1>20, <2>4, Zenon
  <2>6. n - l + 1 = n - m /\ (l <= n \/ n - m = 0)  BY <1>m, <2>2
  <2>7. ASSUME NEW x \in 1..(n - m) PROVE t[x] = s[m + x]
    <3>1. l + x - 1 = m + x  BY <2>2
    <3> QED  BY <2>5, <2>6, <3>1
  <2>8. Len(t) = n - m  BY <2>2, <2>5, <2>6
  <2> QED  BY <2>5, <2>7, <2>8
<1>5. ASSUME NEW x \in 1..(n - m) PROVE t[x] = u[x]
  <2>1. q - p = n - m /\ m + x \in 1..(j - i) /\ p + x - 1 = i + (m + x) - 1
    BY <1>0, <1>m, <1>h
  <2>2. t[x] = s[m + x] /\ s[m + x] = i + (m + x) - 1 /\ u[x] = p + x - 1
    BY <1>2, <1>3, <1>4, <2>1
  <2> QED  BY <2>1, <2>2
<1>6. Len(t) = Len(u) /\ \A x \in 1..Len(t) : t[x] = u[x]
  BY <1>0, <1>m, <1>h, <1>3, <1>4, <1>5
<1>7. t = u  BY ONLY <1>3, <1>4, <1>6, SeqEqual, Zenon
<1> QED  BY <1>7 DEF u

-----------------------------------------------------------------------------
(* The invariant *)

\* Where the page that is being assembled begins.
PageStart == Len(stored) * PageSize

\* Page k of the payload
PageBytes(k) == Bytes((k - 1) * PageSize, Least(k * PageSize, size))

\* Page buffer and fragment continue the stored pages up to the payload offset.
Assembling ==
  /\ Len(page) < PageSize
  /\ PageStart + Len(page) <= offset
  /\ page = Bytes(PageStart, PageStart + Len(page))
  /\ fragment = Bytes(PageStart + Len(page), offset)

Types ==
  /\ tagged \in BOOLEAN /\ size \in Nat \ {0} /\ offset \in 0..size
  /\ last \in BOOLEAN
  /\ fragment \in Seq(Nat) /\ page \in Seq(Nat) /\ stored \in Seq(Seq(Nat))
  /\ phase \in {"request", "copy", "done"}

PagesInOrder == \A k \in 1..Len(stored) : stored[k] = PageBytes(k)

\* A page is assembled until the last fragment is used up; then the pages cover the
\* payload.
Progress ==
  /\ phase = "request" => offset < size /\ fragment = <<>> /\ Assembling
  /\ phase = "copy" => /\ last <=> offset = size
                       /\ fragment # <<>> \/ ~last => Assembling
                       /\ fragment = <<>> /\ last => PageStart >= size
  /\ phase = "done" => PageStart >= size

PagesInv == Types /\ PagesInOrder /\ Progress

(***************************************************************************)
(* The invariant holds at the start.                                       *)
(***************************************************************************)
LEMMA PagesInit == Init => PagesInv
<1> SUFFICES ASSUME Init PROVE PagesInv  OBVIOUS
<1>1. Types
  <2>1. tagged \in BOOLEAN /\ size \in Nat \ {0}  BY PagesAssumption DEF Init
  <2>2. <<>> \in Seq(Nat) /\ <<>> \in Seq(Seq(Nat))  OBVIOUS
  <2>3. /\ offset = 0 /\ last = FALSE /\ fragment = <<>> /\ page = <<>> /\ stored = <<>>
        /\ phase = "request"
    BY DEF Init
  <2>4. offset \in 0..size  BY <2>1, <2>3
  <2> QED  BY <2>1, <2>2, <2>3, <2>4 DEF Types
<1>2. Len(stored) = 0 /\ Len(page) = 0 /\ offset = 0 /\ PageSize \in Nat \ {0}
  BY PagesAssumption DEF Init
<1>3. PageStart = 0  BY <1>2 DEF PageStart
<1>4. Bytes(0, 0) = <<>>  BY BytesFacts
<1>5. PagesInOrder  BY <1>2 DEF PagesInOrder
<1>6. 0 + 0 = 0  OBVIOUS
<1>7. Assembling  BY <1>2, <1>3, <1>4, <1>6 DEF Assembling, Init
<1>8. Progress  BY <1>1, <1>2, <1>7 DEF Progress, Types, Init
<1> QED  BY <1>1, <1>5, <1>8 DEF PagesInv

(***************************************************************************)
(* Assembling with names for the start of the page, the length of the      *)
(* page buffer and the offset where the fragment continues it.             *)
(***************************************************************************)
LEMMA AssemblingAt ==
  ASSUME Types, Assembling
  PROVE  \E W \in Nat, p \in Nat, at \in Nat :
           /\ W = PageStart /\ p = Len(page) /\ at = PageStart + Len(page)
           /\ at = W + p /\ p < PageSize /\ at <= offset /\ W <= at
           /\ page = Bytes(W, at) /\ fragment = Bytes(at, offset)
           /\ Len(fragment) = offset - at
<1>0. PageSize \in Nat \ {0}  BY PagesAssumption
<1>1. PICK W \in Nat : W = PageStart
  <2>1. Len(stored) \in Nat  BY DEF Types
  <2> QED  BY <1>0, <2>1 DEF PageStart
<1>2. PICK p \in Nat : p = Len(page)  BY DEF Types
<1>3. PICK at \in Nat : at = W + p  OBVIOUS
<1>4. offset \in Nat  BY DEF Types
<1>5. /\ p < PageSize /\ at <= offset
      /\ page = Bytes(W, at) /\ fragment = Bytes(at, offset)
  BY <1>1, <1>2, <1>3, Zenon DEF Assembling
<1>6. Len(fragment) = offset - at  BY ONLY <1>4, <1>5, at \in Nat, BytesType, Zenon
<1>7. W <= at  BY <1>3
<1>8. at = PageStart + Len(page)  BY <1>1, <1>2, <1>3, Zenon
<1> QED  BY <1>1, <1>2, <1>3, <1>5, <1>6, <1>7, <1>8, Zenon

(***************************************************************************)
(* The answer to a request: in the lite profile what the alignment added   *)
(* is stripped, so that the fragment continues the page buffer.            *)
(***************************************************************************)
LEMMA FragmentStep ==
  ASSUME Profile = "lite", PagesInv, OnFragment
  PROVE  PagesInv'
<1> USE DEF PagesInv, Types
<1>0. PageSize \in Nat \ {0} /\ MaxFrag \in Nat \ {0}  BY PagesAssumption
<1> DEFINE first == offset - (offset % MaxFrag)
           end == Least(first + MaxFrag, size)
           data == Bytes(first + Extra, end)
<1>1. /\ phase = "request" /\ offset < size /\ fragment = <<>> /\ Assembling
      /\ UNCHANGED <<build, page, stored, resets>>
  BY DEF OnFragment, Progress
<1>2. first + Extra = offset
  <2>1. Extra = offset % MaxFrag  BY DEF Extra
  <2> QED  BY <1>0, <2>1
<1>3. end \in Nat /\ offset < end /\ end <= size
  <2>1. offset % MaxFrag \in 0..MaxFrag - 1  BY <1>0
  <2>2. first \in Int /\ first + MaxFrag > offset  BY <1>0, <2>1
  <2> QED  BY <1>0, <1>1, <2>2 DEF Least
<1>4. data = Bytes(offset, end)  BY <1>2
<1>5. data \in Seq(Nat) /\ Len(data) = end - offset
  <2>1. offset \in Nat /\ offset <= end  BY <1>3
  <2> QED  BY <1>3, <1>4, <2>1, BytesType, Zenon
<1>6. ~(Len(data) > size - offset)  BY <1>3, <1>5
<1>7. /\ phase' = "copy" /\ fragment' = data
      /\ last' = (Len(data) = size - offset) /\ offset' = offset + Len(data)
  BY <1>6 DEF OnFragment
<1> HIDE DEF end, data, first
<1>8. offset' = end /\ last' = (end = size)  BY <1>3, <1>5, <1>7
<1>9. Types'  BY <1>1, <1>3, <1>5, <1>7, <1>8 DEF build
<1>10. PagesInOrder'  BY <1>1 DEF PagesInOrder, PageBytes, build
<1>11. PageStart' = PageStart /\ Len(page)' = Len(page)  BY <1>1 DEF PageStart
<1>12. PICK at \in Nat : at = PageStart + Len(page) /\ at <= offset
                           /\ Len(fragment) = offset - at
  BY <1>1, AssemblingAt, Zenon
<1>13. at = offset  BY <1>1, <1>12
<1>14. Assembling'
  BY <1>1, <1>3, <1>4, <1>7, <1>8, <1>11, <1>12, <1>13 DEF Assembling
<1>15. fragment' # <<>>  BY <1>3, <1>5, <1>7
<1>16. Progress'  BY <1>7, <1>8, <1>14, <1>15, <1>1 DEF Progress, build
<1> QED  BY <1>9, <1>10, <1>16

(***************************************************************************)
(* One turn of the loop that fills the page buffer.                        *)
(***************************************************************************)
LEMMA CopyStep ==
  ASSUME PagesInv, CopyToPage
  PROVE  PagesInv'
<1> USE DEF PagesInv, Types
<1>0. PageSize \in Nat \ {0}  BY PagesAssumption
<1>1. /\ phase = "copy" /\ fragment # <<>> /\ Assembling
      /\ UNCHANGED <<build, offset, last, phase, resets>>
  BY DEF CopyToPage, Progress
<1>2. PICK W \in Nat, p \in Nat, at \in Nat :
        /\ W = PageStart /\ p = Len(page) /\ at = W + p
        /\ p < PageSize /\ at <= offset /\ W <= at
        /\ page = Bytes(W, at) /\ fragment = Bytes(at, offset)
        /\ Len(fragment) = offset - at
  BY <1>1, AssemblingAt, Zenon
<1>3. offset \in Nat  OBVIOUS
<1>4. Len(fragment) = offset - at  BY <1>2
<1>5. at < offset  BY <1>1, <1>2, <1>3, <1>4
<1> DEFINE chunk == Least(PageSize - Len(page), Len(fragment))
           full == page \o SubSeq(fragment, 1, chunk)
<1>61. PICK c \in Nat : /\ c = chunk /\ c <= offset - at
                         /\ c <= PageSize - p /\ (c < PageSize - p => c = offset - at)
  <2>1. chunk = IF PageSize - p < offset - at THEN PageSize - p ELSE offset - at
    BY <1>2 DEF Least
  <2>2. chunk \in Nat /\ chunk <= offset - at
        /\ chunk <= PageSize - p /\ (chunk < PageSize - p => chunk = offset - at)
    BY <1>0, <1>2, <1>3, <2>1
  <2> QED  BY <2>2
<1>62. PICK to \in Nat : to = at + c  OBVIOUS
<1>6. /\ c = chunk /\ to = at + c /\ c <= offset - at /\ at <= to /\ to <= offset
      /\ c <= PageSize - p /\ (c < PageSize - p => c = offset - at)
  BY <1>3, <1>61, <1>62
<1>63. at <= offset  BY <1>2
<1>64. c <= offset - at  BY <1>6
<1>65. at <= to /\ W <= at  BY <1>2, <1>6
<1>7. SubSeq(fragment, 1, c) = Bytes(at, to)
  <2>1. PartOf(at, offset, 1, c, at, to)  BY <1>3, <1>62, <1>63, <1>64 DEF PartOf
  <2>2. PICK t : t = SubSeq(Bytes(at, offset), 1, c)  OBVIOUS
  <2>3. t = Bytes(at, to)  BY ONLY <2>1, <2>2, BytesPart
  <2> QED  BY <1>2, <2>2, <2>3
<1>8. SubSeq(fragment, c + 1, Len(fragment)) = Bytes(to, offset)
  <2>1. PICK l \in Nat : l = offset - at /\ c <= l /\ l <= offset - at  BY <1>3, <1>6
  <2>2. PICK d \in Nat : d = c + 1  OBVIOUS
  <2>3. PartOf(at, offset, d, l, to, offset)  BY <1>3, <1>62, <1>63, <2>1, <2>2 DEF PartOf
  <2>4. PICK t : t = SubSeq(Bytes(at, offset), d, l)  OBVIOUS
  <2>5. t = Bytes(to, offset)  BY ONLY <2>3, <2>4, BytesPart
  <2> QED  BY <1>2, <1>4, <2>1, <2>2, <2>4, <2>5
<1>9. full = Bytes(W, to)
  <2>2. full = Bytes(W, at) \o Bytes(at, to)  BY <1>2, <1>6, <1>7
  <2> QED  BY ONLY <1>65, <2>2, W \in Nat, at \in Nat, to \in Nat, BytesJoin, Zenon
<1>10. full \in Seq(Nat) /\ Len(full) = to - W
  <2>1. W <= to  BY <1>2, <1>6
  <2> QED  BY ONLY <1>9, <2>1, W \in Nat, to \in Nat, BytesType, Zenon
<1>11. /\ fragment' = Bytes(to, offset)
       /\ stored' = IF Len(full) = PageSize \/ last THEN Append(stored, full) ELSE stored
       /\ page' = IF Len(full) = PageSize THEN <<>> ELSE full
  BY <1>6, <1>8 DEF CopyToPage, Flush
<1> HIDE DEF full, chunk
<1>12. fragment' \in Seq(Nat) /\ Len(fragment') = offset - to
  BY ONLY <1>3, <1>6, <1>11, to \in Nat, BytesType, Zenon
<1>13. PICK n \in Nat : n = Len(stored) /\ W = n * PageSize  BY <1>2 DEF PageStart
<1>14. (n + 1) * PageSize = W + PageSize  BY <1>0, <1>13
<1>16. CASE Len(full) = PageSize
  <2>1. to = W + PageSize  BY <1>0, <1>10, <1>16
  <2>2. PagesInOrder' /\ PageStart' = to /\ stored' \in Seq(Seq(Nat))
    <3>1. stored' = Append(stored, full)  BY <1>11, <1>16
    <3>2. Len(stored') = n + 1 /\ stored' \in Seq(Seq(Nat))  BY <1>10, <1>13, <3>1
    <3>3. PageStart' = to  BY <1>14, <2>1, <3>2 DEF PageStart
    <3>4. \A k \in 1..n : stored'[k] = stored[k]  BY <1>10, <1>13, <3>1
    <3>5. stored'[n + 1] = full  BY <1>10, <1>13, <3>1
    <3>6. PageBytes(n + 1) = full
      <4>1. Least((n + 1) * PageSize, size) = to  BY <1>0, <1>6, <1>14, <2>1 DEF Least
      <4>2. (n + 1 - 1) * PageSize = W  BY <1>13
      <4> QED  BY <1>9, <4>1, <4>2 DEF PageBytes
    <3>7. ASSUME NEW k \in 1..Len(stored') PROVE stored'[k] = PageBytes(k)
      <4>1. CASE k \in 1..n  BY <1>13, <3>4, <4>1 DEF PagesInOrder
      <4>2. CASE k = n + 1  BY <3>5, <3>6, <4>2
      <4> QED  BY <3>2, <4>1, <4>2
    <3> QED  BY <1>1, <3>2, <3>3, <3>7 DEF PagesInOrder, PageBytes, build
  <2>3. page' = <<>> /\ Len(page') = 0  BY <1>11, <1>16
  <2>4. Assembling'
    <3>1. Bytes(to, to) = <<>>  BY <1>6, BytesFacts
    <3>2. to + 0 = to  OBVIOUS
    <3>3. 0 < PageSize  BY <1>0
    <3>4. offset' = offset  BY <1>1
    <3> QED  BY ONLY <1>6, <1>11, <2>2, <2>3, <3>1, <3>2, <3>3, <3>4, Zenon DEF Assembling
  <2>5. fragment' = <<>> /\ last' => PageStart' >= size'
    BY <1>1, <1>3, <1>6, <1>12, <2>2 DEF Progress, build
  <2>6. Progress'  BY <1>1, <2>4, <2>5 DEF Progress, build
  <2>7. Types'  BY <1>1, <1>12, <2>2, <2>3 DEF build
  <2> QED  BY <2>2, <2>6, <2>7
<1>17. CASE Len(full) # PageSize
  <2>1. to = offset /\ to < W + PageSize
    <3>1. at = W + p /\ to = at + c /\ c <= PageSize - p /\ (c < PageSize - p => c = offset - at)
      BY <1>2, <1>6
    <3>2. to - W # PageSize  BY <1>10, <1>17
    <3> QED  BY ONLY <1>0, <1>3, <3>1, <3>2, p \in Nat, W \in Nat, c \in Nat, at \in Nat,
                to \in Nat
  <2>2. page' = full /\ fragment' = <<>>
    BY <1>3, <1>6, <1>11, <1>12, <1>17, <2>1
  <2>3. CASE last
    <3>0. offset = size  BY <1>1, <2>3 DEF Progress
    <3>1. stored' = Append(stored, full)  BY <1>11, <2>3
    <3>2. Len(stored') = n + 1 /\ stored' \in Seq(Seq(Nat))  BY <1>10, <1>13, <3>1
    <3>3. PageStart' >= size  BY <1>0, <1>14, <2>1, <3>0, <3>2 DEF PageStart
    <3>4. \A k \in 1..n : stored'[k] = stored[k]  BY <1>10, <1>13, <3>1
    <3>5. stored'[n + 1] = full  BY <1>10, <1>13, <3>1
    <3>6. PageBytes(n + 1) = full
      <4>1. Least((n + 1) * PageSize, size) = to
        BY <1>0, <1>6, <1>14, <2>1, <3>0 DEF Least
      <4>2. (n + 1 - 1) * PageSize = W  BY <1>13
      <4> QED  BY <1>9, <4>1, <4>2 DEF PageBytes
    <3>7. ASSUME NEW k \in 1..Len(stored') PROVE stored'[k] = PageBytes(k)
      <4>1. CASE k \in 1..n  BY <1>13, <3>4, <4>1 DEF PagesInOrder
      <4>2. CASE k = n + 1  BY <3>5, <3>6, <4>2
      <4> QED  BY <3>2, <4>1, <4>2
    <3>8. PagesInOrder'  BY <1>1, <3>7 DEF PagesInOrder, PageBytes, build
    <3>9. Progress'  BY <1>1, <2>2, <2>3, <3>0, <3>3 DEF Progress, build
    <3>10. Types'  BY <1>1, <1>10, <1>12, <2>2, <3>2 DEF build
    <3> QED  BY <3>8, <3>9, <3>10
  <2>4. CASE ~last
    <3>1. stored' = stored  BY <1>11, <1>17, <2>4
    <3>2. PagesInOrder' /\ PageStart' = W
      BY <1>1, <1>2, <3>1 DEF PagesInOrder, PageBytes, PageStart, build
    <3>3. W + Len(page') = to  BY <1>2, <1>6, <1>10, <2>2
    <3>4. Assembling'
      <4>1. Len(page') < PageSize  BY <1>0, <1>2, <1>6, <1>10, <2>1, <2>2
      <4> QED  BY <1>1, <1>6, <1>9, <1>11, <2>1, <2>2, <3>2, <3>3, <4>1 DEF Assembling
    <3>5. Progress'  BY <1>1, <2>4, <3>4 DEF Progress, build
    <3>6. Types'  BY <1>1, <1>10, <1>12, <2>2, <3>1 DEF build
    <3> QED  BY <3>2, <3>5, <3>6
  <2> QED  BY <2>3, <2>4
<1> QED  BY <1>16, <1>17

(***************************************************************************)
(* Quotient and remainder.                                                 *)
(***************************************************************************)
LEMMA Division ==
  ASSUME NEW l \in Nat, NEW d \in Nat \ {0}
  PROVE  \E q \in Nat, r \in Nat : q = l \div d /\ r < d /\ l = q * d + r
<1> DEFINE q == l \div d
           r == l % d
<1>1. q \in Int /\ r \in 0..d - 1 /\ l = q * d + r  OBVIOUS
<1> HIDE DEF q, r
<1>2. q \in Nat
  <2> SUFFICES ASSUME q < 0 PROVE FALSE  BY <1>1
  <2>1. q * d <= -d  BY <1>1
  <2> QED  BY <1>1, <2>1
<1>3. r \in Nat /\ r < d  BY <1>1
<1>4. q = l \div d  BY DEF q
<1> QED  BY <1>1, <1>2, <1>3, <1>4, Zenon

(***************************************************************************)
(* Multiplication is monotone.                                             *)
(***************************************************************************)
LEMMA Monotone ==
  ASSUME NEW d \in Nat, NEW m \in Nat, NEW n \in Nat, m <= n
  PROVE  m * d <= n * d
OBVIOUS

(***************************************************************************)
(* Whole pages that are programmed from the fragment itself.               *)
(***************************************************************************)
LEMMA DirectStep ==
  ASSUME PagesInv, ProgramDirectly
  PROVE  PagesInv'
<1> USE DEF PagesInv, Types
<1>0. PageSize \in Nat \ {0}  BY PagesAssumption
<1>1. /\ phase = "copy" /\ fragment # <<>> /\ Assembling /\ page = <<>>
      /\ UNCHANGED <<build, offset, last, page, phase, resets>>
  BY DEF ProgramDirectly, Progress, Direct
<1>2. PICK W \in Nat, p \in Nat, at \in Nat :
        /\ W = PageStart /\ p = Len(page) /\ at = W + p
        /\ p < PageSize /\ at <= offset /\ W <= at
        /\ page = Bytes(W, at) /\ fragment = Bytes(at, offset)
        /\ Len(fragment) = offset - at
  BY <1>1, AssemblingAt, Zenon
<1>3. offset \in Nat  OBVIOUS
<1>4. at = W /\ p = 0  BY <1>1, <1>2
<1>5. PICK l \in Nat : l = offset - W /\ l = Len(fragment) /\ fragment = Bytes(W, offset)
  BY <1>2, <1>3, <1>4
<1>6. PICK m \in Nat, rest \in Nat : m = l \div PageSize /\ l = m * PageSize + rest
  BY <1>0, Division, Zenon
<1>7. PICK q \in Nat : q = m * PageSize /\ q <= l
  <2>1. PICK q \in Nat : q = m * PageSize  BY <1>0
  <2>2. l = q + rest  BY <1>6, <2>1
  <2>3. q <= l  BY <2>2
  <2> QED  BY <2>1, <2>3
<1> DEFINE new == [k \in 1..m |-> SubSeq(fragment, (k - 1) * PageSize + 1, k * PageSize)]
<1>8. /\ fragment' = SubSeq(fragment, q + 1, l)
      /\ stored' = stored \o new
  BY <1>5, <1>6, <1>7 DEF ProgramDirectly
<1>9. PICK end \in Nat : end = W + q /\ end <= offset  BY <1>3, <1>5, <1>7
<1>10. fragment' = Bytes(end, offset)
  <2>1. PICK d \in Nat : d = q + 1  OBVIOUS
  <2>2. PartOf(W, offset, d, l, end, offset)
    <3>1. W <= offset /\ l = offset - W /\ q <= l /\ end = W + q  BY <1>2, <1>4, <1>5, <1>7, <1>9
    <3> QED  BY ONLY <1>3, <2>1, <3>1, W \in Nat, l \in Nat, q \in Nat, d \in Nat,
                end \in Nat DEF PartOf
  <2>3. PICK t : t = SubSeq(Bytes(W, offset), d, l)  OBVIOUS
  <2>4. t = Bytes(end, offset)  BY ONLY <2>2, <2>3, BytesPart
  <2> QED  BY <1>5, <1>8, <2>1, <2>3, <2>4
<1>11. ASSUME NEW k \in 1..m
       PROVE  /\ (k - 1) * PageSize \in Nat /\ k * PageSize \in Nat
              /\ k * PageSize = (k - 1) * PageSize + PageSize /\ k * PageSize <= q
              /\ new[k] = Bytes(W + (k - 1) * PageSize, W + k * PageSize)
              /\ new[k] \in Seq(Nat)
  <2>0. k \in Nat /\ k - 1 \in Nat /\ k <= m  OBVIOUS
  <2>1. PICK a \in Nat : a = (k - 1) * PageSize  BY <1>0, <2>0
  <2>2. PICK b \in Nat : b = k * PageSize  BY <1>0, <2>0
  <2>3. b = a + PageSize  BY <1>0, <2>0, <2>1, <2>2
  <2>4. b <= q  BY <1>0, <1>7, <2>0, <2>2
  <2>5. PICK d \in Nat, x \in Nat : d = a + 1 /\ x = W + a  OBVIOUS
  <2>6. PICK y \in Nat : y = W + b  OBVIOUS
  <2>7. PartOf(W, offset, d, b, x, y)
    BY <1>0, <1>2, <1>3, <1>4, <1>5, <1>7, <2>3, <2>4, <2>5, <2>6 DEF PartOf
  <2>8. PICK t : t = SubSeq(Bytes(W, offset), d, b)  OBVIOUS
  <2>9. t = Bytes(x, y)  BY ONLY <2>7, <2>8, BytesPart
  <2>10. new[k] = t  BY <1>5, <2>1, <2>2, <2>5, <2>8
  <2>11. x <= y  BY <1>0, <2>3, <2>5, <2>6
  <2>12. t \in Seq(Nat)  BY ONLY <2>9, <2>11, x \in Nat, y \in Nat, BytesType, Zenon
  <2> HIDE DEF new
  <2> QED  BY <2>1, <2>2, <2>3, <2>4, <2>5, <2>6, <2>9, <2>10, <2>12
<1>12. new \in Seq(Seq(Nat)) /\ Len(new) = m  BY <1>11
<1> HIDE DEF new
<1>13. PICK n \in Nat : n = Len(stored) /\ W = n * PageSize  BY <1>2 DEF PageStart
<1>14. /\ stored' \in Seq(Seq(Nat)) /\ Len(stored') = n + m
       /\ \A k \in 1..n + m : stored'[k] = IF k <= n THEN stored[k] ELSE new[k - n]
  BY <1>8, <1>12, <1>13, ConcatProperties
<1>15. PageStart' = end
  <2>1. (n + m) * PageSize = n * PageSize + m * PageSize  BY <1>0
  <2> QED  BY <1>7, <1>9, <1>13, <1>14, <2>1 DEF PageStart
<1>16. ASSUME NEW k \in 1..Len(stored') PROVE stored'[k] = PageBytes(k)
  <2>1. CASE k <= n
    <3>1. k \in 1..n /\ stored'[k] = stored[k]  BY <1>14, <2>1
    <3> QED  BY <1>13, <3>1 DEF PagesInOrder
  <2>2. CASE k > n
    <3>1. PICK j \in 1..m : k = n + j  BY <1>14, <2>2
    <3>2. stored'[k] = new[j]
      <4>1. k - n = j /\ k \in 1..n + m /\ ~(k <= n)  BY <1>14, <2>2, <3>1
      <4> QED  BY <1>14, <4>1
    <3>3. PICK a \in Nat, b \in Nat :
            /\ a = (j - 1) * PageSize /\ b = j * PageSize /\ b <= q
            /\ new[j] = Bytes(W + a, W + b)
      BY <1>11
    <3>4. (k - 1) * PageSize = W + a
      <4>1. (n + (j - 1)) * PageSize = n * PageSize + (j - 1) * PageSize  BY <1>0
      <4>2. k - 1 = n + (j - 1)  BY <3>1
      <4> QED  BY <1>13, <3>3, <4>1, <4>2
    <3>5. k * PageSize = W + b
      <4>1. (n + j) * PageSize = n * PageSize + j * PageSize  BY <1>0
      <4> QED  BY <1>13, <3>1, <3>3, <4>1
    <3>6. Least(k * PageSize, size) = W + b
      <4>1. size \in Nat /\ offset <= size  OBVIOUS
      <4>2. l = offset - W /\ q <= l /\ b <= q  BY <1>5, <1>7, <3>3
      <4>3. W + b <= size
        BY ONLY <1>3, <4>1, <4>2, W \in Nat, l \in Nat, q \in Nat, b \in Nat
      <4>4. Least(k * PageSize, size) = IF W + b < size THEN W + b ELSE size
        BY ONLY <3>5, Zenon DEF Least
      <4> QED  BY ONLY <4>1, <4>3, <4>4, W \in Nat, b \in Nat
    <3> QED  BY <3>2, <3>3, <3>4, <3>6 DEF PageBytes
  <2> QED  BY <1>14, <2>1, <2>2
<1>17. PagesInOrder'  BY <1>1, <1>16 DEF PagesInOrder, PageBytes, build
<1>18. fragment' \in Seq(Nat) /\ Len(fragment') = offset - end
  BY ONLY <1>3, <1>9, <1>10, BytesType, Zenon
<1>19. Assembling'
  <2>1. Bytes(end, end) = <<>>  BY <1>9, BytesFacts
  <2>2. end + 0 = end /\ 0 < PageSize /\ Len(page') = 0  BY <1>0, <1>1
  <2>3. offset' = offset /\ page' = <<>> /\ end <= offset  BY <1>1, <1>9
  <2> QED  BY ONLY <1>10, <1>15, <2>1, <2>2, <2>3, Zenon DEF Assembling
<1>20. fragment' = <<>> /\ last' => PageStart' >= size'
  BY <1>1, <1>3, <1>9, <1>15, <1>18 DEF Progress, build
<1>21. Progress'  BY <1>1, <1>19, <1>20 DEF Progress, build
<1>22. Types'  BY <1>1, <1>14, <1>18 DEF build
<1> QED  BY <1>17, <1>21, <1>22

(***************************************************************************)
(* The end of fota_on_fragment.                                            *)
(***************************************************************************)
LEMMA DoneStep ==
  ASSUME PagesInv, FragmentDone
  PROVE  PagesInv'
<1> USE DEF PagesInv, Types
<1>1. /\ phase = "copy" /\ fragment = <<>>
      /\ phase' = IF offset = size THEN "done" ELSE "request"
      /\ UNCHANGED <<build, offset, fragment, last, page, stored, resets>>
  BY DEF FragmentDone
<1>2. PageStart' = PageStart /\ PagesInOrder'
  BY <1>1 DEF PageStart, PagesInOrder, PageBytes, build
<1>3. Types'  BY <1>1 DEF build
<1>4. CASE offset = size
  BY <1>1, <1>2, <1>3, <1>4 DEF Progress, build
<1>5. CASE offset # size
  <2>1. Assembling  BY <1>1, <1>5 DEF Progress
  <2>2. Assembling'  BY <1>1, <1>2, <2>1 DEF Assembling
  <2>3. offset < size  BY <1>5
  <2> QED  BY <1>1, <1>2, <1>3, <1>5, <2>2, <2>3 DEF Progress, build
<1> QED  BY <1>4, <1>5

(***************************************************************************)
(* A reset: the download goes on behind the pages that are kept.           *)
(***************************************************************************)
LEMMA ResetStep ==
  ASSUME PagesInv, Reset
  PROVE  PagesInv'
<1> USE DEF PagesInv, Types
<1>0. PageSize \in Nat \ {0}  BY PagesAssumption
<1>1. /\ stored' = IF tagged THEN stored ELSE <<>>
      /\ offset' = Least(Len(stored') * PageSize, size)
      /\ fragment' = <<>> /\ page' = <<>> /\ last' = FALSE
      /\ phase' = IF offset' = size THEN "done" ELSE "request"
      /\ UNCHANGED build
  BY DEF Reset
<1>2. stored' \in Seq(Seq(Nat)) /\ PagesInOrder'
  <2>1. CASE tagged  BY <1>1, <2>1 DEF PagesInOrder, PageBytes, build
  <2>2. CASE ~tagged
    <3>1. stored' = <<>> /\ Len(stored') = 0  BY <1>1, <2>2
    <3> QED  BY <3>1 DEF PagesInOrder
  <2> QED  BY <2>1, <2>2
<1>3. PICK W \in Nat : W = PageStart' /\ W = Len(stored') * PageSize
  <2>1. Len(stored') \in Nat  BY <1>2
  <2> QED  BY <1>0, <2>1 DEF PageStart
<1>4. offset' = (IF W < size THEN W ELSE size)  BY <1>1, <1>3 DEF Least
<1>5. size' = size /\ tagged' = tagged  BY <1>1 DEF build
<1>6. Len(page') = 0 /\ page' \in Seq(Nat) /\ fragment' \in Seq(Nat)  BY <1>1
<1>7. offset' \in 0..size'  BY <1>4, <1>5
<1>8. Types'  BY <1>1, <1>2, <1>5, <1>6, <1>7
<1>9. CASE W < size
  <2>1. offset' = W /\ phase' = "request"  BY <1>1, <1>4, <1>9
  <2>2. Bytes(W, W) = <<>>  BY BytesFacts
  <2>3. W + 0 = W /\ 0 < PageSize /\ W <= W  BY <1>0
  <2>4. Assembling'
    BY ONLY <1>1, <1>3, <1>6, <2>1, <2>2, <2>3, Zenon DEF Assembling
  <2> QED  BY <1>1, <1>2, <1>5, <1>8, <1>9, <2>1, <2>4 DEF Progress
<1>10. CASE ~(W < size)
  <2>1. offset' = size /\ phase' = "done" /\ W >= size  BY <1>1, <1>4, <1>10
  <2> QED  BY <1>2, <1>3, <1>5, <1>8, <2>1 DEF Progress
<1> QED  BY <1>9, <1>10

(***************************************************************************)
(* Every step preserves the invariant.                                     *)
(***************************************************************************)
LEMMA PagesStep ==
  ASSUME Profile = "lite", PagesInv, [Next]_vars
  PROVE  PagesInv'
<1>1. CASE Finished \/ UNCHANGED vars
  BY <1>1 DEF Finished, vars, build, PagesInv, Types, PagesInOrder, PageBytes, Progress,
              Assembling, PageStart
<1> QED
  BY <1>1, FragmentStep, CopyStep, DirectStep, DoneStep, ResetStep DEF Next

(***************************************************************************)
(* PagesInv is invariant in the lite profile.  It says as well that the    *)
(* download is never aborted for a fragment of a wrong size.               *)
(***************************************************************************)
THEOREM PagesInductive ==
  ASSUME Profile = "lite"
  PROVE  Spec => []PagesInv
<1>1. PagesInv /\ [Next]_vars => PagesInv'  BY PagesStep
<1> QED  BY <1>1, PagesInit, PTL DEF Spec

(***************************************************************************)
(* However fragments and pages are cut and whenever the device is reset,   *)
(* every page is programmed with the bytes of its place, and no byte is    *)
(* missing when handle_fw_fragment counts the download as finished.        *)
(***************************************************************************)
THEOREM StorageInOrder ==
  ASSUME Profile = "lite"
  PROVE  Spec => []StoredInOrder
<1>1. PagesInv => StoredInOrder
  <2> SUFFICES ASSUME PagesInv PROVE StoredInOrder  OBVIOUS
  <2>0. /\ PageSize \in Nat \ {0} /\ size \in Nat
        /\ stored \in Seq(Seq(Nat)) /\ Len(stored) \in Nat
    BY PagesAssumption DEF PagesInv, Types
  <2>1. \A k \in 1..Len(stored) : stored[k] = PageBytes(k)
    BY DEF PagesInv, PagesInOrder
  <2>2. ASSUME phase = "done", NEW b \in 0..size - 1
        PROVE  \E k \in 1..Len(stored) : \E n \in 1..Len(stored[k]) : stored[k][n] = b
    <3>1. PICK N \in Nat : N = Len(stored) /\ N * PageSize >= size
      BY <2>0, <2>2 DEF PagesInv, Progress, PageStart
    <3>0. b \in Nat /\ b < size  BY <2>0
    <3>2. PICK q \in Nat, r \in Nat : b = q * PageSize + r /\ r < PageSize
      BY <2>0, <3>0, Division, Zenon
    <3>3. q < N
      <4> SUFFICES ASSUME q >= N PROVE FALSE  BY <3>2
      <4>1. PICK a \in Nat, c \in Nat : a = q * PageSize /\ c = N * PageSize  BY <2>0
      <4>2. c <= a
        <5>1. N <= q  OBVIOUS
        <5> QED  BY <2>0, <4>1, <5>1, Monotone
      <4> QED  BY <3>0, <2>0, <3>1, <3>2, <4>1, <4>2
    <3>4. PICK k \in 1..N : k = q + 1  BY <3>1, <3>2, <3>3
    <3>5. PICK Q \in Nat : Q = q * PageSize  BY <2>0, <3>2
    <3>6. (k - 1) * PageSize = Q /\ k * PageSize = Q + PageSize
      <4>1. (q + 1) * PageSize = q * PageSize + PageSize  BY <2>0, <3>2
      <4>2. k - 1 = q  BY <3>2, <3>4
      <4> QED  BY <3>4, <3>5, <4>1, <4>2
    <3>7. PICK e \in Nat : e = Least(k * PageSize, size)
      BY <2>0, <3>6 DEF Least
    <3>8. b = Q + r /\ Q + r < e  BY <2>0, <3>2, <3>5, <3>6, <3>7 DEF Least
    <3>9. stored[k] = Bytes(Q, e)
      BY <2>1, <3>1, <3>6, <3>7 DEF PageBytes
    <3>10. Q <= e  BY <3>8
    <3>11. Len(stored[k]) = e - Q /\ \A n \in 1..(e - Q) : stored[k][n] = Q + n - 1
      <4>1. PICK s : s = stored[k]  OBVIOUS
      <4>2. s = Bytes(Q, e)  BY <3>9, <4>1
      <4>3. Len(s) = e - Q /\ \A n \in 1..(e - Q) : s[n] = Q + n - 1
        BY ONLY <3>10, <4>2, Q \in Nat, e \in Nat, BytesType, Zenon
      <4> QED  BY <4>1, <4>3
    <3>12. r + 1 \in 1..(e - Q) /\ Q + (r + 1) - 1 = b  BY <3>8
    <3>13. r + 1 \in 1..Len(stored[k]) /\ stored[k][r + 1] = b  BY <3>11, <3>12
    <3> QED  BY <3>1, <3>13
  <2> QED  BY <2>1, <2>2 DEF StoredInOrder, PageBytes
<1> QED  BY <1>1, PagesInductive, PTL

=============================================================================
