-------------------------- MODULE TDBStoreProofs --------------------------
(***************************************************************************)
(* Proofs about TDBStore: the invariant of TDBStoreInductive is inductive  *)
(* on every assured layout, and implies type correctness, that flash is    *)
(* programmed only where it is erased, that a power loss loses nothing,    *)
(* that get agrees with what a start would recover, and that the store     *)
(* implements KVStore.                                                     *)
(*                                                                         *)
(* NormalStep shows that no garbage collection overruns the area there; of *)
(* the steps that remain, those that make or drop entries of the RAM table *)
(* are looked at one by one, and KeptStep shows that every other one keeps *)
(* the entries.  A part of the invariant that a step changes is restated   *)
(* as an operator of the values of the variables (InRange, CleanInv,       *)
(* NamedAt, TableAt, RestAt, FlashAt), to speak of the state after the     *)
(* step without a prime.                                                   *)
(***************************************************************************)
EXTENDS TDBStoreInductive, FiniteSetTheorems, SequenceTheorems, WellFoundedInduction, TLAPS

-----------------------------------------------------------------------------
(* Layouts, offsets and records *)

\* Every set of naturals that is not empty has a least element.
LEMMA LeastNat ==
  ASSUME NEW T, T \subseteq Nat, T # {}
  PROVE  \E x \in T : \A y \in T : x <= y
<1>1. PICK x \in T : \A y \in T : <<y, x>> \notin OpToRel(<, Nat)
  BY WFMin, NatLessThanWellFounded, Zenon
<1>2. \A y \in T : ~(y < x)
  BY <1>1 DEF OpToRel
<1> QED BY <1>2

\* The layout of a device, in numbers.
LEMMA Geometry ==
  ASSUME geo \in Geometries
  PROVE  /\ geo.eu \in Nat \ {0} /\ geo.hdr \in Nat \ {0} /\ geo.body \in Nat \ {0}
         /\ geo.size \in Nat \ {0} /\ geo.pad \in BOOLEAN
         /\ RecSize \in Nat /\ RecSize > 1 /\ RecSize > geo.hdr
<1>1. /\ geo.eu \in Nat \ {0} /\ geo.hdr \in Nat \ {0} /\ geo.body \in Nat \ {0}
      /\ geo.size \in Nat \ {0} /\ geo.pad \in BOOLEAN
  BY GeometryAssumption
<1> QED BY <1>1 DEF RecSize

\* Multiplication is monotone.
LEMMA Products ==
  ASSUME NEW r \in Nat, NEW i \in Int, NEW j \in Int, i <= j
  PROVE  i * r <= j * r
<1>1. (j - i) * r >= 0
  OBVIOUS
<1> QED BY <1>1

\* Offsets of records.
LEMMA Offsets ==
  ASSUME geo \in Geometries
  PROVE  /\ Offset(1) = First
         /\ \A i \in Int : Offset(i) \in Int /\ Offset(i + 1) = Offset(i) + RecSize
         /\ \A i, j \in Int : i < j => Offset(i) + RecSize <= Offset(j)
         /\ MaxRecords \in Nat
         /\ \A i \in Int : i <= MaxRecords <=> Offset(i) + RecSize <= geo.size
<1>1. RecSize \in Nat /\ RecSize > 1 /\ geo.size \in Nat \ {0}
  BY Geometry
<1>2. ASSUME NEW i \in Int
      PROVE  Offset(i) \in Int /\ Offset(i + 1) = Offset(i) + RecSize
  <2>1. ((i + 1) - 1) * RecSize = (i - 1) * RecSize + RecSize
    BY <1>1
  <2> QED BY <1>1, <2>1 DEF Offset, First
<1>3. ASSUME NEW i \in Int, NEW j \in Int, i < j
      PROVE  Offset(i) + RecSize <= Offset(j)
  <2>1. i * RecSize <= (j - 1) * RecSize
    BY <1>1, <1>3, Products
  <2>2. i * RecSize = (i - 1) * RecSize + RecSize
    BY <1>1
  <2> QED BY <1>1, <2>1, <2>2 DEF Offset, First
<1>4. /\ MaxRecords \in Nat /\ MaxRecords * RecSize <= geo.size - 1
      /\ geo.size - 1 < MaxRecords * RecSize + RecSize
  BY <1>1 DEF MaxRecords, First
<1>5. ASSUME NEW i \in Int
      PROVE  i <= MaxRecords <=> Offset(i) + RecSize <= geo.size
  <2>1. Offset(i) + RecSize = 1 + i * RecSize
    <3>1. i * RecSize = (i - 1) * RecSize + RecSize
      BY <1>1
    <3> QED BY <1>1, <3>1 DEF Offset, First
  <2>2. CASE i <= MaxRecords
    <3>1. i * RecSize <= MaxRecords * RecSize
      BY <1>1, <1>4, <2>2, Products
    <3> QED BY <1>1, <1>4, <2>1, <2>2, <3>1
  <2>3. CASE i > MaxRecords
    <3>1. (MaxRecords + 1) * RecSize <= i * RecSize
      BY <1>1, <1>4, <2>3, Products
    <3>2. (MaxRecords + 1) * RecSize = MaxRecords * RecSize + RecSize
      BY <1>1, <1>4
    <3> QED BY <1>1, <1>4, <2>1, <2>3, <3>1, <3>2
  <2> QED BY <1>4, <2>2, <2>3
<1>6. Offset(1) = First
  BY <1>1 DEF Offset, First
<1> QED BY <1>2, <1>3, <1>4, <1>5, <1>6

\* Offsets of the records of a log.
LEMMA RecordOffset ==
  ASSUME geo \in Geometries, NEW i \in Int, i >= 1
  PROVE  Offset(i) \in Int /\ Offset(i) >= 1
<1>1. i = 1 \/ 1 < i
  OBVIOUS
<1>2. Offset(1) = 1 /\ Offset(i) \in Int /\ RecSize \in Nat
  BY Offsets, Geometry DEF First
<1>3. CASE 1 < i
  BY <1>2, <1>3, Offsets
<1> QED BY <1>1, <1>2, <1>3

-----------------------------------------------------------------------------
(* Reading *)

\* Erased and torn units are neither records nor units of records.
LEMMA Contain ==
  ASSUME geo \in Geometries
  PROVE  /\ Torn \notin Records /\ Erased # Torn
         /\ \A r \in Records, i \in Nat : <<r, i>> \notin {Erased, Torn}
         /\ \A r \in Records : r[1] \in Names /\ r = <<r[1], r[2]>>
<1>1. \A r \in Records, i \in Nat : <<r, i>> \in Records \X Nat
  OBVIOUS
<1> QED BY <1>1, ValueAssumption DEF Records

\* read_record returns a record if and only if all of its units are there and it may be read.
LEMMA ReadIs ==
  ASSUME geo \in Geometries, NEW units, NEW o \in Int, NEW r \in Records
  PROVE  ReadRecord(units, o) = r <=> /\ Readable(o)
                                      /\ \A i \in 0 .. RecSize - 1 : units[o + i] = <<r, i>>
<1>1. 0 \in 0 .. RecSize - 1
  BY Geometry
<1>2. ASSUME \A i \in 0 .. RecSize - 1 : units[o + i] = <<r, i>>
      PROVE  units[o] = <<r, 0>> /\ units[o][1] = r
  BY <1>1, <1>2
<1>3. ASSUME ReadRecord(units, o) = r
      PROVE  Readable(o) /\ \A i \in 0 .. RecSize - 1 : units[o + i] = <<r, i>>
  BY <1>3, Contain DEF ReadRecord, Readable
<1> QED BY <1>2, <1>3, Contain DEF ReadRecord, Readable

\* What begins with a unit that is erased or torn, or does not fit, is not a record.
LEMMA ReadTorn ==
  ASSUME NEW units, NEW o, units[o] \in {Erased, Torn} \/ ~Readable(o)
  PROVE  ReadRecord(units, o) = Torn
BY DEF ReadRecord, Readable

\* read_record returns a record, or Torn.
LEMMA ReadType ==
  ASSUME geo \in Geometries, NEW units \in [Units -> Contents], NEW o \in Int, o >= 1
  PROVE  ReadRecord(units, o) \in Records \cup {Torn}
<1> SUFFICES ASSUME ReadRecord(units, o) # Torn PROVE ReadRecord(units, o) \in Records
  OBVIOUS
<1>1. Readable(o) /\ units[o] \notin {Erased, Torn} /\ ReadRecord(units, o) = units[o][1]
  BY DEF ReadRecord, Readable
<1>2. o \in Units
  BY <1>1, Geometry DEF Readable, Units
<1>3. units[o] \in Records \X (0 .. RecSize)
  BY <1>1, <1>2 DEF Contents
<1> QED BY <1>1, <1>3

\* Only the units of a record matter.
LEMMA ReadSame ==
  ASSUME geo \in Geometries, NEW units, NEW vnits, NEW o \in Int,
         \A u \in o .. o + RecSize - 1 : units[u] = vnits[u]
  PROVE  ReadRecord(units, o) = ReadRecord(vnits, o)
<1>1. RecSize \in Nat /\ RecSize > 1
  BY Geometry
<1>2. \A i \in 0 .. RecSize - 1 : units[o + i] = vnits[o + i]
  BY <1>1
<1>3. units[o] = vnits[o]
  BY <1>1
<1> QED BY <1>2, <1>3 DEF ReadRecord

\* The layout does not change.
LEMMA Fixed ==
  ASSUME geo' = geo
  PROVE  /\ RecSize' = RecSize /\ Units' = Units /\ MaxRecords' = MaxRecords
         /\ Contents' = Contents /\ Straddling' = Straddling /\ Reliable' = Reliable
         /\ Assured' = Assured /\ Entry' = Entry
         /\ \A i : Offset(i)' = Offset(i)
         /\ \A o : Readable(o)' = Readable(o)
BY DEF RecSize, Units, MaxRecords, Contents, Straddling, Reliable, Offset, Readable, Assured, Roomy, Entry

\* read_record after a step.
LEMMA ReadPrime ==
  ASSUME geo' = geo
  PROVE  \A a, o : ReadRecord(log[a], o)' = ReadRecord(log'[a], o)
BY DEF ReadRecord, Readable, RecSize

\* The records of a log after a step.
LEMMA RecordPrime ==
  ASSUME geo' = geo
  PROVE  \A a, i : RecordAt(a, i)' = ReadRecord(log'[a], Offset(i))
BY ReadPrime, Fixed DEF RecordAt

-----------------------------------------------------------------------------
(* Logs *)

\* The i-th of n records is the last one for key k.
LastFor(a, n, k, i) == /\ i \in 1 .. n /\ RecordAt(a, i)[1] = k
                     /\ \A j \in i + 1 .. n : RecordAt(a, j)[1] # k

\* What a log of n records holds.
LogLaw ==
  geo \in Geometries =>
    \A a \in Areas : \A n \in 0 .. MaxRecords :
      Ends(a, n) =>
        /\ EndOfLog(a) = Offset(n + 1)
        /\ \A k \in Names, i \in 1 .. MaxRecords : IsLatest(a, k, i) <=> LastFor(a, n, k, i)
        /\ \A k \in Names, i \in 1 .. n : LastFor(a, n, k, i) => ValueIn(a, k) = RecordAt(a, i)[2]
        /\ \A k \in Names : \/ \E i \in 1 .. n : LastFor(a, n, k, i)
                           \/ /\ \A i \in 1 .. n : RecordAt(a, i)[1] # k
                              /\ LatestOf(a, k) = {} /\ ValueIn(a, k) = None

\* What a log of n records holds is well defined: the proof of LogLaw.
LEMMA LogHolds == LogLaw
<1> SUFFICES ASSUME geo \in Geometries, NEW a \in Areas, NEW n \in 0 .. MaxRecords, Ends(a, n)
             PROVE  /\ EndOfLog(a) = Offset(n + 1)
                    /\ \A k \in Names, i \in 1 .. MaxRecords : IsLatest(a, k, i) <=> LastFor(a, n, k, i)
                    /\ \A k \in Names, i \in 1 .. n :
                         LastFor(a, n, k, i) => ValueIn(a, k) = RecordAt(a, i)[2]
                    /\ \A k \in Names : \/ \E i \in 1 .. n : LastFor(a, n, k, i)
                                       \/ /\ \A i \in 1 .. n : RecordAt(a, i)[1] # k
                                          /\ LatestOf(a, k) = {} /\ ValueIn(a, k) = None
  BY DEF LogLaw
<1>1. MaxRecords \in Nat /\ n \in Nat
  BY Offsets
<1>2. \A i \in 1 .. MaxRecords : InLog(a, i) <=> i <= n
  BY <1>1 DEF Ends, InLog
<1>3. NumRecords(a) = n
  <2>1. {i \in 1 .. MaxRecords : InLog(a, i)} = 1 .. n
    BY <1>1, <1>2
  <2>2. Cardinality(1 .. n) = n
    BY <1>1, FS_Interval
  <2> QED BY <2>1, <2>2 DEF NumRecords
<1>4. ASSUME NEW k \in Names, NEW i \in 1 .. MaxRecords
      PROVE  IsLatest(a, k, i) <=> LastFor(a, n, k, i)
  <2>1. \A j \in i + 1 .. MaxRecords : InLog(a, j) <=> j \in i + 1 .. n
    BY <1>1, <1>2
  <2>2. \A j \in i + 1 .. n : j \in i + 1 .. MaxRecords
    BY <1>1
  <2> QED BY <1>1, <1>2, <2>1, <2>2 DEF IsLatest, LastFor
<1>5. ASSUME NEW k \in Names, NEW i \in 1 .. MaxRecords, NEW j \in 1 .. MaxRecords,
             IsLatest(a, k, i), IsLatest(a, k, j)
      PROVE  i = j
  BY <1>1, <1>5 DEF IsLatest
<1>6. ASSUME NEW k \in Names, NEW i \in 1 .. n, LastFor(a, n, k, i)
      PROVE  ValueIn(a, k) = RecordAt(a, i)[2]
  <2>1. i \in 1 .. MaxRecords /\ IsLatest(a, k, i)
    BY <1>1, <1>4, <1>6
  <2>2. \A j \in LatestOf(a, k) : j = i
    BY <1>5, <2>1 DEF LatestOf
  <2>3. i \in LatestOf(a, k)
    BY <2>1 DEF LatestOf
  <2> QED BY <2>2, <2>3 DEF ValueIn
<1>7. ASSUME NEW k \in Names, \E i \in 1 .. n : RecordAt(a, i)[1] = k
      PROVE  \E i \in 1 .. n : LastFor(a, n, k, i)
  <2> DEFINE T == {d \in Nat : d < n /\ RecordAt(a, n - d)[1] = k}
  <2>1. PICK i \in 1 .. n : RecordAt(a, i)[1] = k
    BY <1>7
  <2>2. n - i \in T
    <3>1. n - (n - i) = i /\ n - i \in Nat /\ n - i < n
      BY <1>1
    <3> QED BY <2>1, <3>1
  <2>3. PICK d \in T : \A e \in T : d <= e
    <3> HIDE DEF T
    <3>1. T \subseteq Nat
      BY DEF T
    <3> QED BY <2>2, <3>1, LeastNat
  <2>4. n - d \in 1 .. n /\ RecordAt(a, n - d)[1] = k
    BY <1>1, <2>3
  <2>5. ASSUME NEW j \in (n - d) + 1 .. n, RecordAt(a, j)[1] = k
        PROVE  FALSE
    <3>1. n - (n - j) = j /\ n - j \in Nat /\ n - j < n /\ n - j < d
      BY <1>1, <2>4, <2>5
    <3> QED BY <2>3, <2>5, <3>1
  <2> QED BY <2>4, <2>5 DEF LastFor
<1>8. ASSUME NEW k \in Names, \A i \in 1 .. n : RecordAt(a, i)[1] # k
      PROVE  LatestOf(a, k) = {} /\ ValueIn(a, k) = None
  <2>1. LatestOf(a, k) = {}
    BY <1>1, <1>4, <1>8 DEF LatestOf, LastFor
  <2> QED BY <2>1 DEF ValueIn
<1> QED BY <1>3, <1>4, <1>6, <1>7, <1>8 DEF EndOfLog

\* Every log has an end.
LEMMA LogEnds ==
  ASSUME geo \in Geometries, NEW a \in Areas
  PROVE  \E n \in 0 .. MaxRecords : Ends(a, n)
<1> DEFINE T == {n \in Nat : n = MaxRecords \/ RecordAt(a, n + 1) = Torn}
<1>1. MaxRecords \in Nat /\ MaxRecords \in T
  BY Offsets
<1>2. PICK n \in T : \A m \in T : n <= m
  <2> HIDE DEF T
  <2>1. T \subseteq Nat
    BY DEF T
  <2> QED BY <1>1, <2>1, LeastNat
<1>3. n \in 0 .. MaxRecords
  BY <1>1, <1>2
<1>4. ASSUME NEW i \in 1 .. n PROVE RecordAt(a, i) # Torn
  <2>1. i - 1 \in Nat /\ i - 1 < n /\ (i - 1) + 1 = i /\ i - 1 # MaxRecords
    BY <1>3, <1>1
  <2> QED BY <1>2, <2>1
<1> QED BY <1>2, <1>3, <1>4 DEF Ends

-----------------------------------------------------------------------------
(* Erasing *)

\* Quotients and remainders.
LEMMA Division ==
  ASSUME NEW e \in Nat \ {0}, NEW u \in Nat
  PROVE  /\ u \div e \in Nat /\ (u \div e) * e \in Nat
         /\ (u \div e) * e <= u /\ u < (u \div e) * e + e
         /\ u % e # 0 <=> (u \div e) * e # u
<1>1. u \div e \in Nat /\ u = (u \div e) * e + (u % e) /\ u % e \in 0 .. e - 1
  OBVIOUS
<1> QED BY <1>1

\* Numbers in the same interval of length e have the same quotient.
LEMMA SameQuotient ==
  ASSUME NEW e \in Nat \ {0}, NEW u \in Nat, NEW v \in Nat,
         (u \div e) * e <= v, v < (u \div e) * e + e
  PROVE  v \div e = u \div e
<1>1. /\ v \div e \in Nat /\ (v \div e) * e <= v /\ v < (v \div e) * e + e
      /\ u \div e \in Nat
  BY Division
<1> DEFINE p == v \div e
           q == u \div e
<1> HIDE DEF p, q
<1>2. p \in Nat /\ q \in Nat /\ p * e <= v /\ v < p * e + e /\ q * e <= v /\ v < q * e + e
  BY <1>1 DEF p, q
<1>3. CASE p < q
  <2>1. (p + 1) * e <= q * e
    BY <1>2, <1>3, Products
  <2>2. (p + 1) * e = p * e + e
    BY <1>2
  <2>3. p * e \in Int /\ q * e \in Int
    BY <1>2
  <2> QED BY <1>2, <2>1, <2>2, <2>3
<1>4. CASE q < p
  <2>1. (q + 1) * e <= p * e
    BY <1>2, <1>4, Products
  <2>2. (q + 1) * e = q * e + e
    BY <1>2
  <2>3. p * e \in Int /\ q * e \in Int
    BY <1>2
  <2> QED BY <1>2, <2>1, <2>2, <2>3
<1>5. p = q
  BY <1>2, <1>3, <1>4
<1> QED BY <1>5 DEF p, q

\* check_erase_before_write leaves erased what is written next, and again the rest of
\* the last erase unit.
LEMMA EraseGrows ==
  ASSUME geo \in Geometries, NEW units, NEW o \in Nat, NEW n \in Nat, Clean(units, o)
  PROVE  /\ \A u \in Units : u \in o .. o + n - 1 => EraseStarting(units, o, n)[u] = Erased
         /\ Clean(EraseStarting(units, o, n), o + n)
<1> DEFINE e == geo.eu
           s(u) == (u \div e) * e
<1>1. e \in Nat \ {0} /\ Units \subseteq Nat
  BY Geometry DEF Units
<1>2. \A u \in Nat : /\ u \div e \in Nat /\ s(u) \in Nat /\ s(u) <= u /\ u < s(u) + e
                     /\ u % e # 0 <=> s(u) # u
  BY <1>1, Division
<1>3. \A u \in Units : s(u) \in o .. o + n - 1 => EraseStarting(units, o, n)[u] = Erased
  BY DEF EraseStarting
<1>4. ASSUME NEW u \in Units, u >= o, s(u) < o
      PROVE  EraseStarting(units, o, n)[u] = Erased
  <2>0. u \in Nat /\ s(u) \in Nat /\ s(u) <= u /\ u < s(u) + e
    BY <1>1, <1>2
  <2>1. s(u) <= o /\ o < s(u) + e
    <3> HIDE DEF s, e
    <3> QED BY <1>1, <1>4, <2>0
  <2>2. o \div e = u \div e
    BY <1>1, <2>0, <2>1, SameQuotient
  <2>3. o % e # 0
    BY <1>2, <1>4, <2>2
  <2>4. units[u] = Erased
    BY <1>4, <2>2, <2>3 DEF Clean
  <2> QED BY <2>4 DEF EraseStarting
<1>5. ASSUME NEW u \in Units, u \in o .. o + n - 1
      PROVE  EraseStarting(units, o, n)[u] = Erased
  <2>1. CASE s(u) < o
    BY <1>4, <1>5, <2>1
  <2>2. CASE s(u) >= o
    <3>1. s(u) \in o .. o + n - 1
      BY <1>1, <1>2, <1>5, <2>2
    <3> QED BY <1>3, <3>1
  <2> QED BY <1>1, <1>2, <2>1, <2>2
<1>6. ASSUME (o + n) % e # 0, NEW u \in Units, u >= o + n, u \div e = (o + n) \div e
      PROVE  EraseStarting(units, o, n)[u] = Erased
  <2>1. s(u) < o + n
    BY <1>2, <1>6
  <2>2. CASE s(u) < o
    BY <1>1, <1>4, <1>6, <2>2
  <2>3. CASE s(u) >= o
    <3>1. s(u) \in o .. o + n - 1
      BY <1>1, <1>2, <2>1, <2>3
    <3> QED BY <1>3, <3>1
  <2> QED BY <1>1, <1>2, <2>2, <2>3
<1> QED BY <1>5, <1>6 DEF Clean

\* What lies before is left alone, and what is erased stays so.
LEMMA EraseKeeps ==
  ASSUME geo \in Geometries, NEW units, NEW o \in Nat, NEW n \in Nat
  PROVE  /\ \A u \in Units : u < o => EraseStarting(units, o, n)[u] = units[u]
         /\ \A u \in Units : units[u] = Erased => EraseStarting(units, o, n)[u] = Erased
         /\ \A p : Clean(units, p) => Clean(EraseStarting(units, o, n), p)
         /\ units \in [Units -> Contents] => EraseStarting(units, o, n) \in [Units -> Contents]
<1>1. \A u \in Units : u < o => EraseStarting(units, o, n)[u] = units[u]
  <2> SUFFICES ASSUME NEW u \in Units, u < o
               PROVE  ~((u \div geo.eu) * geo.eu \in o .. o + n - 1)
    BY DEF EraseStarting
  <2>1. u \in Nat /\ geo.eu \in Nat \ {0}
    BY Geometry DEF Units
  <2>2. (u \div geo.eu) * geo.eu \in Nat /\ (u \div geo.eu) * geo.eu <= u
    BY <2>1, Division
  <2> QED BY <2>1, <2>2
<1>2. \A u \in Units : units[u] = Erased => EraseStarting(units, o, n)[u] = Erased
  BY DEF EraseStarting
<1>3. \A p : Clean(units, p) => Clean(EraseStarting(units, o, n), p)
  BY <1>2 DEF Clean
<1>4. units \in [Units -> Contents] => EraseStarting(units, o, n) \in [Units -> Contents]
  BY DEF EraseStarting, Contents
<1> QED BY <1>1, <1>2, <1>3, <1>4

\* What lies before the range is kept.
LEMMA EraseBefore ==
  ASSUME geo \in Geometries, NEW units, NEW o \in Nat, NEW n \in Nat
  PROVE  \A u \in Units : u < o => EraseStarting(units, o, n)[u] = units[u]
BY EraseKeeps

\* The first erase unit of an area is clean after it was erased.
LEMMA HeadClean ==
  ASSUME geo \in Geometries, NEW units
  PROVE  /\ Clean(EraseStarting(units, 0, 1), First)
         /\ units \in [Units -> Contents] => EraseStarting(units, 0, 1) \in [Units -> Contents]
<1>1. geo.eu \in Nat \ {0}
  BY Geometry
<1>2. ASSUME First % geo.eu # 0, NEW u \in Units, u \div geo.eu = First \div geo.eu
      PROVE  EraseStarting(units, 0, 1)[u] = Erased
  <2>1. (1 \div geo.eu) * geo.eu = 0
    <3>1. /\ 1 \div geo.eu \in Nat /\ (1 \div geo.eu) * geo.eu \in Nat
          /\ (1 \div geo.eu) * geo.eu <= 1 /\ (1 \div geo.eu) * geo.eu # 1
      BY <1>1, <1>2, Division DEF First
    <3> QED BY <3>1
  <2>2. (u \div geo.eu) * geo.eu \in 0 .. 0 + 1 - 1
    BY <1>2, <2>1 DEF First
  <2> QED BY <2>2 DEF EraseStarting
<1> QED BY <1>2, EraseKeeps DEF Clean

\* S can be enumerated with the keys descending.
Sortable(S) == \E f \in [1 .. Cardinality(S) -> S] : \A i, j \in DOMAIN f : i < j => f[i] > f[j]

-----------------------------------------------------------------------------
(* The RAM table: sorting, building, inserting and removing *)

\* A finite set of numbers can be listed in descending order, by induction on its size.
LEMMA Sorting ==
  ASSUME NEW S, S \subseteq Nat, IsFiniteSet(S)
  PROVE  Sortable(S)
<1> DEFINE T == {m \in Nat : \E R \in SUBSET Nat : IsFiniteSet(R) /\ Cardinality(R) = m /\ ~Sortable(R)}
<1>1. SUFFICES ASSUME ~Sortable(S) PROVE FALSE
  OBVIOUS
<1>2. Cardinality(S) \in T
  BY <1>1, FS_CardinalityType
<1>3. PICK m \in T : \A l \in T : m <= l
  <2> HIDE DEF T
  <2>1. T \subseteq Nat
    BY DEF T
  <2> QED BY <1>2, <2>1, LeastNat
<1>4. PICK R \in SUBSET Nat : IsFiniteSet(R) /\ Cardinality(R) = m /\ ~Sortable(R)
  BY <1>3
<1>5. m \in Nat
  BY <1>3
<1>6. CASE m = 0
  <2>1. R = {}
    BY <1>4, <1>6, FS_EmptySet
  <2>2. [i \in 1 .. 0 |-> 0] \in [1 .. Cardinality(R) -> R]
    BY <1>4, <1>6, <2>1
  <2>3. \A i, j \in DOMAIN [i \in 1 .. 0 |-> 0] : FALSE
    OBVIOUS
  <2> QED BY <1>4, <2>2, <2>3 DEF Sortable
<1>7. CASE m # 0
  <2>1. R # {}
    BY <1>4, <1>7, FS_EmptySet
  <2>2. PICK x \in R : \A y \in R : x <= y
    BY <1>4, <2>1, LeastNat
  <2> DEFINE Q == R \ {x}
  <2>3. IsFiniteSet(Q) /\ Cardinality(Q) = m - 1 /\ Q \subseteq Nat
    BY <1>4, FS_RemoveElement
  <2>4. m - 1 \in Nat /\ m - 1 \notin T
    BY <1>3, <1>5, <1>7
  <2>5. Sortable(Q)
    BY <2>3, <2>4
  <2>6. PICK f \in [1 .. m - 1 -> Q] : \A i, j \in DOMAIN f : i < j => f[i] > f[j]
    BY <2>3, <2>5 DEF Sortable
  <2> DEFINE g == [i \in 1 .. m |-> IF i = m THEN x ELSE f[i]]
  <2>7. \A i \in 1 .. m : i # m => i \in 1 .. m - 1 /\ f[i] \in Q
    BY <1>5, <2>6
  <2>8. g \in [1 .. m -> R]
    BY <2>2, <2>7
  <2>9. ASSUME NEW i \in 1 .. m, NEW j \in 1 .. m, i < j PROVE g[i] > g[j]
    <3>1. i # m /\ i \in 1 .. m - 1 /\ g[i] = f[i] /\ f[i] \in Q
      BY <1>5, <2>7, <2>9
    <3>2. CASE j = m
      <4>1. g[j] = x /\ f[i] \in R /\ f[i] # x
        BY <3>1, <3>2
      <4>2. x <= f[i] /\ f[i] \in Nat /\ x \in Nat
        BY <1>4, <2>2, <4>1
      <4> QED BY <3>1, <4>1, <4>2
    <3>3. CASE j # m
      <4>1. j \in 1 .. m - 1 /\ g[j] = f[j]
        BY <2>7, <3>3
      <4> QED BY <2>6, <2>9, <3>1, <4>1
    <3> QED BY <3>2, <3>3
  <2>10. DOMAIN g = 1 .. m
    OBVIOUS
  <2> HIDE DEF g
  <2> QED BY <1>4, <2>8, <2>9, <2>10 DEF Sortable
<1> QED BY <1>6, <1>7

\* A function on 1..n is a sequence.
LEMMA FunctionIsSeq ==
  ASSUME NEW S, NEW n \in Nat, NEW f \in [1 .. n -> S]
  PROVE  f \in Seq(S) /\ Len(f) = n
<1>1. f \in Seq(S)
  BY SeqDef
<1>2. Len(f) \in Nat /\ DOMAIN f = 1 .. Len(f) /\ DOMAIN f = 1 .. n
  BY <1>1, LenProperties
<1> QED BY <1>1, <1>2

\* The names: those of the keys, and that of the master record.
LEMMA NameSet == IsFiniteSet(Names) /\ Cardinality(Names) = Cardinality(Keys) + 1 /\ Names \subseteq Nat
BY KeyAssumption, FS_AddElement DEF Names

\* A table with descending keys has at most one entry for every key and one for the master record.
LEMMA SortedShort ==
  ASSUME NEW S, S \subseteq [key : Names, at : Nat], NEW t \in Seq(S), Sorted(t)
  PROVE  Len(t) <= Cardinality(Keys) + 1
<1>1. Len(t) \in Nat /\ \A i \in 1 .. Len(t) : t[i].key \in Names
  <2>1. \A i \in 1 .. Len(t) : t[i] \in [key : Names, at : Nat]
    BY ElementOfSeq
  <2> QED BY <2>1, LenProperties
<1> DEFINE f == [i \in 1 .. Len(t) |-> t[i].key]
<1>2. f \in [1 .. Len(t) -> Names]
  BY <1>1
<1>3. ASSUME NEW i \in 1 .. Len(t), NEW j \in 1 .. Len(t), f[i] = f[j] PROVE i = j
  <2>1. t[i].key \in Nat /\ t[i].key = t[j].key
    BY <1>1, <1>3, NameSet
  <2> QED BY <1>1, <2>1 DEF Sorted
<1> HIDE DEF f
<1>4. f \in Injection(1 .. Len(t), Names)
  <2>1. DOMAIN f = 1 .. Len(t)
    BY <1>2
  <2> QED BY <1>2, <1>3, <2>1 DEF Injection, IsInjective
<1>5. Cardinality(1 .. Len(t)) = Len(t)
  <2>1. \A n \in Nat : Cardinality(1 .. n) = n
    BY FS_Interval
  <2> QED BY <1>1, <2>1
<1> QED BY <1>4, <1>5, NameSet, FS_Injection

\* What can be read at an offset can be read at a smaller one.
LEMMA ReadableBelow ==
  ASSUME geo \in Geometries, NEW o \in Int, NEW p \in Int, o <= p, Readable(p)
  PROVE  Readable(o)
BY Geometry DEF Readable

\* In a layout with room for a record of every name, so have the entries of a table.
LEMMA TableFits ==
  ASSUME geo \in Geometries, Roomy, "crash" \in geo.faults, NEW t \in Seq(Entry), Sorted(t),
         NEW i \in 1 .. Len(t)
  PROVE  Readable(Offset(i))
<1>1. Entry \subseteq [key : Names, at : Nat]
  BY Geometry DEF Entry
<1>2. Len(t) <= Cardinality(Keys) + 1 /\ Len(t) \in Nat
  BY <1>1, SortedShort, LenProperties
<1>3. Cardinality(Keys) \in Nat
  BY KeyAssumption, FS_CardinalityType
<1> DEFINE c == Cardinality(Keys) + 1
<1>4. c \in Int /\ i \in Int /\ (i = c \/ i < c)
  BY <1>2, <1>3
<1>5. Readable(Offset(c))
  BY Zenon DEF Roomy
<1> HIDE DEF c
<1>6. Offset(i) \in Int /\ Offset(c) \in Int /\ Offset(i) <= Offset(c)
  <2>1. Offset(i) \in Int /\ Offset(c) \in Int /\ RecSize \in Nat
    BY <1>4, Offsets, Geometry
  <2>2. CASE i < c
    <3>1. Offset(i) + RecSize <= Offset(c)
      BY <1>4, <2>2, Offsets
    <3> QED BY <2>1, <3>1
  <2>3. CASE i = c
    BY <2>1, <2>3
  <2> QED BY <1>4, <2>2, <2>3
<1> QED BY <1>5, <1>6, ReadableBelow

\* What an entry of the table points to, in a log of n records.
EntryIs(a, n, e) ==
  \/ e = [key |-> MasterKey, at |-> 0]
  \/ /\ e.at \in Units /\ Readable(e.at) /\ e.at + RecSize <= Offset(n + 1)
     /\ ReadRecord(log[a], e.at) # Torn /\ ReadRecord(log[a], e.at)[1] = e.key
     /\ e.key \in Keys => /\ ReadRecord(log[a], e.at) = <<e.key, ValueIn(a, e.key)>>
                          /\ ValueIn(a, e.key) # None

\* build_ram_table: one entry for each item, at its latest record, and one for the master record.
LEMMA TableBuilt ==
  ASSUME geo \in Geometries, log \in [Areas -> [Units -> Contents]], NEW a \in Areas,
         NEW n \in 0 .. MaxRecords, Ends(a, n)
  PROVE  /\ BuildRamTable(a) \in Seq(Entry) /\ Sorted(BuildRamTable(a))
         /\ \A i \in 1 .. Len(BuildRamTable(a)) : EntryIs(a, n, BuildRamTable(a)[i])
         /\ \A k \in Keys : ValueIn(a, k) # None =>
              \E i \in 1 .. Len(BuildRamTable(a)) : BuildRamTable(a)[i].key = k
<1> DEFINE live == {k \in Keys : ValueIn(a, k) # None} \cup {MasterKey}
           entry(k) == [key |-> k,
                        at |-> IF LatestOf(a, k) = {} THEN 0
                               ELSE Offset(CHOOSE i \in LatestOf(a, k) : TRUE)]
           entries == {entry(k) : k \in live}
           last(k) == CHOOSE i \in 1 .. n : LastFor(a, n, k, i)
<1>1. LogLaw /\ n \in Nat /\ MaxRecords \in Nat
  BY LogHolds, Offsets
<1>2. ASSUME NEW k \in Names, LatestOf(a, k) # {}
      PROVE  /\ last(k) \in 1 .. n /\ LastFor(a, n, k, last(k))
             /\ ValueIn(a, k) = RecordAt(a, last(k))[2]
             /\ (CHOOSE i \in LatestOf(a, k) : TRUE) = last(k)
  <2>1. \E i \in 1 .. n : LastFor(a, n, k, i)
    BY <1>1, <1>2 DEF LogLaw
  <2>2. last(k) \in 1 .. n /\ LastFor(a, n, k, last(k))
    BY <2>1
  <2>3. ASSUME NEW i \in LatestOf(a, k) PROVE i = last(k)
    <3>1. i \in 1 .. MaxRecords /\ LastFor(a, n, k, i)
      BY <1>1, <2>3 DEF LogLaw, LatestOf
    <3> HIDE DEF last
    <3> QED BY <1>1, <2>2, <3>1 DEF LastFor
  <2>4. last(k) \in LatestOf(a, k)
    <3> HIDE DEF last
    <3>1. last(k) \in 1 .. MaxRecords
      BY <1>1, <2>2
    <3> QED BY <1>1, <2>2, <3>1 DEF LogLaw, LatestOf
  <2>5. ValueIn(a, k) = RecordAt(a, last(k))[2]
    <3> HIDE DEF last
    <3> QED BY <1>1, <2>2 DEF LogLaw
  <2> HIDE DEF last
  <2> QED BY <2>2, <2>3, <2>4, <2>5
<1> HIDE DEF last
<1>3. ASSUME NEW k \in live
      PROVE  /\ entry(k) \in Entry /\ entry(k).key = k
             /\ EntryIs(a, n, entry(k))
  <2>0. k \in Names /\ (k # MasterKey => ValueIn(a, k) # None /\ LatestOf(a, k) # {})
    BY DEF Names, ValueIn
  <2>1. CASE LatestOf(a, k) = {}
    <3>1. entry(k) = [key |-> MasterKey, at |-> 0]
      BY <2>0, <2>1
    <3>2. 0 \in 0 .. geo.size - 1 /\ k = MasterKey
      BY <2>0, <2>1, Geometry
    <3> HIDE DEF entry
    <3>3. [key |-> MasterKey, at |-> 0] \in Entry
      BY <2>0, <3>2 DEF Entry
    <3> QED BY <3>1, <3>2, <3>3 DEF EntryIs
  <2>2. CASE LatestOf(a, k) # {}
    <3> DEFINE o == Offset(last(k))
    <3>1. entry(k) = [key |-> k, at |-> o]
      BY <1>2, <2>0, <2>2
    <3>2. RecordAt(a, last(k)) # Torn /\ RecordAt(a, last(k))[1] = k
      BY <1>2, <2>0, <2>2 DEF Ends, LastFor
    <3>3. o \in Int /\ o >= 1
      <4>1. last(k) \in Int /\ last(k) >= 1
        BY <1>2, <2>0, <2>2
      <4> QED BY <4>1, RecordOffset
    <3>4. RecordAt(a, last(k)) \in Records
      BY <3>2, <3>3, ReadType DEF RecordAt
    <3>5. RecordAt(a, last(k)) = <<k, ValueIn(a, k)>>
      BY <1>2, <2>0, <2>2, <3>2, <3>4, Contain
    <3>6. Readable(o)
      BY <3>3, <3>4, ReadIs DEF RecordAt
    <3>7. o \in Units /\ o \in 0 .. geo.size - 1
      BY <3>3, <3>6, Geometry DEF Readable, Units
    <3>8. o + RecSize <= Offset(n + 1)
      <4>1. last(k) \in Int /\ n + 1 \in Int /\ last(k) < n + 1
        BY <1>1, <1>2, <2>0, <2>2
      <4> QED BY <4>1, Offsets
    <3>9. ReadRecord(log[a], o) = RecordAt(a, last(k))
      BY DEF RecordAt
    <3>10. k \in Keys => ValueIn(a, k) # None
      BY <2>0, KeyAssumption
    <3> HIDE DEF o, entry
    <3>11. [key |-> k, at |-> o] \in Entry
      BY <2>0, <3>7 DEF Entry
    <3>12. EntryIs(a, n, [key |-> k, at |-> o])
      BY <3>2, <3>5, <3>6, <3>7, <3>8, <3>9, <3>10 DEF EntryIs
    <3> QED BY <3>1, <3>11, <3>12
  <2> QED BY <2>1, <2>2
<1> HIDE DEF entry
<1>5. live \subseteq Nat /\ live \subseteq Names
  BY NameSet DEF Names
<1>4. IsFiniteSet(live) /\ Cardinality(live) \in Nat
  <2> HIDE DEF live
  <2> QED BY <1>5, NameSet, FS_Subset, FS_CardinalityType
<1> DEFINE c == Cardinality(live)
           D(t) == \A i, j \in DOMAIN t : i < j => t[i].key > t[j].key
           t == BuildRamTable(a)
<1>6. t \in [1 .. c -> entries] /\ D(t)
  <2>1. PICK f \in [1 .. c -> live] : \A i, j \in DOMAIN f : i < j => f[i] > f[j]
    <3> HIDE DEF live
    <3> QED BY <1>4, <1>5, Sorting DEF Sortable
  <2> DEFINE g == [i \in 1 .. c |-> entry(f[i])]
  <2>2. g \in [1 .. c -> entries]
    BY <2>1
  <2>3. \A i \in 1 .. c : g[i].key = f[i]
    BY <1>3, <2>1
  <2>4. D(g)
    <3> HIDE DEF live
    <3> QED BY <2>1, <2>3
  <2>5. t = CHOOSE h \in [1 .. c -> entries] : D(h)
    BY DEF BuildRamTable, entry
  <2> HIDE DEF g, D, entries, c, t
  <2> QED BY <2>2, <2>4, <2>5
<1> HIDE DEF t, live
<1>7. \A i \in 1 .. c : \E k \in live : t[i] = entry(k)
  BY <1>6
<1>8. \A i \in 1 .. c : t[i].key \in live /\ t[i] = entry(t[i].key)
  BY <1>7, <1>3
<1>9. t \in Seq(Entry) /\ Len(t) = c
  <2>1. t \in [1 .. c -> Entry]
    BY <1>6, <1>8, <1>3
  <2> HIDE DEF c
  <2>2. c \in Nat
    BY <1>4 DEF c
  <2> QED BY <2>1, <2>2, FunctionIsSeq
<1>10. Sorted(t)
  BY <1>6, <1>9 DEF Sorted
<1>11. ASSUME NEW k \in live PROVE \E i \in 1 .. c : t[i].key = k
  <2> DEFINE f == [i \in 1 .. c |-> t[i].key]
  <2>1. f \in [1 .. c -> live]
    BY <1>8
  <2>2. ASSUME NEW i \in 1 .. c, NEW j \in 1 .. c, f[i] = f[j] PROVE i = j
    <3>1. t[i].key \in Nat /\ t[j].key \in Nat /\ t[i].key = t[j].key
      BY <1>8, <1>5, <2>2
    <3>2. DOMAIN t = 1 .. c
      BY <1>6
    <3> QED BY <1>4, <1>6, <3>1, <3>2
  <2>3. f \in Injection(1 .. c, live)
    BY <2>1, <2>2 DEF Injection, IsInjective
  <2>4. Cardinality(1 .. c) = c
    BY <1>4, FS_Interval
  <2>5. f \in Surjection(1 .. c, live)
    <3> HIDE DEF f
    <3> QED BY <1>4, <2>3, <2>4, FS_Injection
  <2> QED BY <2>5 DEF Surjection
<1>12. \A i \in 1 .. Len(t) : EntryIs(a, n, t[i])
  BY <1>3, <1>8, <1>9
<1>13. \A k \in Keys : ValueIn(a, k) # None => k \in live
  BY DEF live
<1> QED BY <1>9, <1>10, <1>11, <1>12, <1>13 DEF t

\* What RemoveAt and InsertAt leave, entry by entry.
LEMMA Removed ==
  ASSUME NEW S, NEW s \in Seq(S), NEW p \in 1 .. Len(s)
  PROVE  /\ RemoveAt(s, p) \in Seq(S) /\ Len(RemoveAt(s, p)) = Len(s) - 1
         /\ \A i \in 1 .. Len(s) - 1 : RemoveAt(s, p)[i] = IF i < p THEN s[i] ELSE s[i + 1]
<1> DEFINE x == SubSeq(s, 1, p - 1)
           y == SubSeq(s, p + 1, Len(s))
<1>1. Len(s) \in Nat /\ p \in Int /\ p - 1 \in Int /\ p + 1 \in Int
  BY LenProperties
<1>2. /\ \A i \in 1 .. p - 1 : s[i] \in S
      /\ \A i \in p + 1 .. Len(s) : s[i] \in S
  BY <1>1, ElementOfSeq
<1>3. x \in Seq(S) /\ Len(x) = p - 1 /\ \A i \in 1 .. p - 1 : x[i] = s[i]
  <2>1. /\ x \in Seq(S) /\ Len(x) = IF 1 <= p - 1 THEN (p - 1) - 1 + 1 ELSE 0
        /\ \A i \in 1 .. (p - 1) - 1 + 1 : x[i] = s[1 + i - 1]
    BY <1>1, <1>2, SubSeqProperties
  <2> HIDE DEF x
  <2> QED BY <1>1, <2>1
<1>4. y \in Seq(S) /\ Len(y) = Len(s) - p /\ \A i \in 1 .. Len(s) - p : y[i] = s[p + i]
  <2>1. /\ y \in Seq(S) /\ Len(y) = IF p + 1 <= Len(s) THEN Len(s) - (p + 1) + 1 ELSE 0
        /\ \A i \in 1 .. Len(s) - (p + 1) + 1 : y[i] = s[(p + 1) + i - 1]
    BY <1>1, <1>2, SubSeqProperties
  <2> HIDE DEF y
  <2>2. \A i \in 1 .. Len(s) - p : y[i] = s[(p + 1) + i - 1] /\ (p + 1) + i - 1 = p + i
    BY <1>1, <2>1
  <2> QED BY <1>1, <2>1, <2>2
<1>5. RemoveAt(s, p) = x \o y
  BY DEF RemoveAt
<1> HIDE DEF x, y
<1>6. /\ x \o y \in Seq(S) /\ Len(x \o y) = Len(x) + Len(y)
      /\ \A i \in 1 .. Len(x) + Len(y) : (x \o y)[i] = IF i <= Len(x) THEN x[i] ELSE y[i - Len(x)]
  BY <1>3, <1>4, ConcatProperties
<1>7. ASSUME NEW i \in 1 .. Len(s) - 1
      PROVE  (x \o y)[i] = IF i < p THEN s[i] ELSE s[i + 1]
  <2>1. (x \o y)[i] = IF i <= p - 1 THEN x[i] ELSE y[i - (p - 1)]
    BY <1>1, <1>3, <1>4, <1>6
  <2>2. CASE i < p
    BY <1>1, <1>3, <2>1, <2>2
  <2>3. CASE ~(i < p)
    <3>1. i - (p - 1) \in 1 .. Len(s) - p /\ p + (i - (p - 1)) = i + 1 /\ ~(i <= p - 1)
      BY <1>1, <2>3
    <3> QED BY <1>4, <2>1, <2>3, <3>1
  <2> QED BY <2>2, <2>3
<1> QED BY <1>1, <1>3, <1>4, <1>5, <1>6, <1>7

\* The sequence t is s with e inserted at p.
InsertedTo(S, s, p, e, t) ==
  /\ t \in Seq(S) /\ Len(t) = Len(s) + 1
  /\ \A i \in 1 .. Len(s) + 1 : t[i] = IF i < p THEN s[i] ELSE IF i = p THEN e ELSE s[i - 1]

\* InsertAt, position by position.
LEMMA Inserted ==
  ASSUME NEW S, NEW s \in Seq(S), NEW p \in 1 .. Len(s) + 1, NEW e \in S
  PROVE  InsertedTo(S, s, p, e, InsertAt(s, p, e))
<1> DEFINE x == SubSeq(s, 1, p - 1)
           y == SubSeq(s, p, Len(s))
           m == <<e>>
           z == x \o m
<1>1. Len(s) \in Nat /\ p \in Int /\ p - 1 \in Int
  BY LenProperties
<1>2. /\ \A i \in 1 .. p - 1 : s[i] \in S
      /\ \A i \in p .. Len(s) : s[i] \in S
  BY <1>1, ElementOfSeq
<1>3. x \in Seq(S) /\ Len(x) = p - 1 /\ \A i \in 1 .. p - 1 : x[i] = s[i]
  <2>1. /\ x \in Seq(S) /\ Len(x) = IF 1 <= p - 1 THEN (p - 1) - 1 + 1 ELSE 0
        /\ \A i \in 1 .. (p - 1) - 1 + 1 : x[i] = s[1 + i - 1]
    BY <1>1, <1>2, SubSeqProperties
  <2> HIDE DEF x
  <2> QED BY <1>1, <2>1
<1>4. y \in Seq(S) /\ Len(y) = Len(s) - p + 1 /\ \A i \in 1 .. Len(s) - p + 1 : y[i] = s[p + i - 1]
  <2>1. /\ y \in Seq(S) /\ Len(y) = IF p <= Len(s) THEN Len(s) - p + 1 ELSE 0
        /\ \A i \in 1 .. Len(s) - p + 1 : y[i] = s[p + i - 1]
    BY <1>1, <1>2, SubSeqProperties
  <2> HIDE DEF y
  <2> QED BY <1>1, <2>1
<1>5. m \in Seq(S) /\ Len(m) = 1 /\ m[1] = e
  OBVIOUS
<1>6. InsertAt(s, p, e) = z \o y
  BY DEF InsertAt
<1> HIDE DEF x, y, m
<1>7. z \in Seq(S) /\ Len(z) = p /\ \A i \in 1 .. p : z[i] = IF i < p THEN s[i] ELSE e
  <2>1. /\ z \in Seq(S) /\ Len(z) = Len(x) + Len(m)
        /\ \A i \in 1 .. Len(x) + Len(m) : z[i] = IF i <= Len(x) THEN x[i] ELSE m[i - Len(x)]
    BY <1>3, <1>5, ConcatProperties
  <2> HIDE DEF z
  <2>2. \A i \in 1 .. p : IF i < p THEN i <= p - 1 ELSE i = p /\ i - (p - 1) = 1 /\ ~(i <= p - 1)
    BY <1>1
  <2>3. Len(z) = p
    BY <1>1, <1>3, <1>5, <2>1
  <2>4. ASSUME NEW i \in 1 .. p PROVE z[i] = IF i < p THEN s[i] ELSE e
    <3>1. z[i] = IF i <= p - 1 THEN x[i] ELSE m[i - (p - 1)]
      BY <1>1, <1>3, <1>5, <2>1
    <3>2. CASE i < p
      BY <1>1, <1>3, <3>1, <3>2
    <3>3. CASE ~(i < p)
      BY <1>5, <2>2, <3>1, <3>3
    <3> QED BY <3>2, <3>3
  <2> QED BY <2>1, <2>3, <2>4
<1> HIDE DEF z
<1>8. /\ z \o y \in Seq(S) /\ Len(z \o y) = Len(z) + Len(y)
      /\ \A i \in 1 .. Len(z) + Len(y) : (z \o y)[i] = IF i <= Len(z) THEN z[i] ELSE y[i - Len(z)]
  BY <1>4, <1>7, ConcatProperties
<1>9. ASSUME NEW i \in 1 .. Len(s) + 1
      PROVE  (z \o y)[i] = IF i < p THEN s[i] ELSE IF i = p THEN e ELSE s[i - 1]
  <2>1. (z \o y)[i] = IF i <= p THEN z[i] ELSE y[i - p]
    BY <1>1, <1>4, <1>7, <1>8
  <2>2. CASE i <= p
    BY <1>1, <1>7, <2>1, <2>2
  <2>3. CASE i > p
    <3>1. i - p \in 1 .. Len(s) - p + 1 /\ p + (i - p) - 1 = i - 1 /\ ~(i <= p) /\ ~(i < p) /\ i # p
      BY <1>1, <2>3
    <3> QED BY <1>4, <2>1, <2>3, <3>1
  <2>4. i <= p \/ i > p
    BY <1>1
  <2> QED BY <2>2, <2>3, <2>4
<1> QED BY <1>1, <1>4, <1>6, <1>7, <1>8, <1>9 DEF InsertedTo

\* The place of a key in the RAM table.
Place(k) == 1 + Cardinality({i \in 1 .. Len(table) : table[i].key > k})

\* Where set_finalize finds or makes the entry of a key.
LEMMA Position ==
  ASSUME table \in Seq(Entry), Sorted(table), NEW k \in Keys
  PROVE  /\ Place(k) \in 1 .. Len(table) + 1
         /\ \A i \in 1 .. Len(table) : i < Place(k) <=> table[i].key > k
         /\ Listed(k) => Place(k) <= Len(table) /\ table[Place(k)].key = k
<1> DEFINE n == Len(table)
           T == {i \in Nat : i = n + 1 \/ (i \in 1 .. n /\ ~(table[i].key > k))}
<1>1. /\ n \in Nat /\ k \in Nat
      /\ \A i \in 1 .. n : table[i].key \in Nat
  <2>1. \A i \in 1 .. n : table[i] \in Entry
    BY ElementOfSeq
  <2> QED BY <2>1, KeyAssumption, NameSet, LenProperties DEF Entry
<1>2. n + 1 \in T
  BY <1>1
<1>3. PICK p \in T : \A j \in T : p <= j
  <2> HIDE DEF T
  <2>1. T \subseteq Nat
    BY DEF T
  <2> QED BY <1>2, <2>1, LeastNat
<1>4. p \in 1 .. n + 1
  BY <1>1, <1>3
<1>5. \A i \in 1 .. n : i < p <=> table[i].key > k
  <2> SUFFICES ASSUME NEW i \in 1 .. n PROVE i < p <=> table[i].key > k
    OBVIOUS
  <2>1. CASE i < p
    BY <1>1, <1>3, <2>1
  <2>2. CASE i >= p
    <3>1. p \in 1 .. n /\ ~(table[p].key > k)
      BY <1>1, <1>3, <2>2
    <3>2. i = p \/ table[p].key > table[i].key
      BY <1>1, <2>2, <3>1 DEF Sorted
    <3> QED BY <1>1, <2>2, <3>1, <3>2
  <2> QED BY <1>1, <1>4, <2>1, <2>2
<1>6. {i \in 1 .. n : table[i].key > k} = 1 .. p - 1
  BY <1>1, <1>4, <1>5
<1>7. Cardinality(1 .. p - 1) = p - 1
  BY <1>4, FS_Interval
<1>8. Place(k) = p
  <2>1. Place(k) = 1 + Cardinality({i \in 1 .. n : table[i].key > k})
    BY DEF Place
  <2>2. Place(k) = 1 + (p - 1)
    BY <1>6, <1>7, <2>1
  <2> HIDE DEF T
  <2> QED BY <1>1, <1>4, <2>2
<1>9. ASSUME Listed(k) PROVE p <= n /\ table[p].key = k
  <2>1. PICK i \in 1 .. n : table[i].key = k
    BY <1>9 DEF Listed
  <2>2. ~(i < p)
    BY <1>1, <1>5, <2>1
  <2>3. p <= i /\ p \in 1 .. n
    BY <1>4, <2>2
  <2>4. ~(table[p].key > k)
    BY <1>4, <1>5, <2>3
  <2>5. p = i \/ table[p].key > table[i].key
    BY <2>3, <2>1 DEF Sorted
  <2> QED BY <2>1, <2>3, <2>4, <2>5
<1> QED BY <1>4, <1>5, <1>8, <1>9

-----------------------------------------------------------------------------
(* Calls *)

\* The calls.
LEMMA CallKinds ==
  ASSUME NEW c \in Calls \cup {Idle}
  PROVE  /\ c[1] \in {"set", "remove"} => c[2] \in Keys
         /\ c[1] = "set" => c[3] \in Values
         /\ c[1] \in {"set", "remove", "reserve", "reset", "idle"}
         /\ c[1] = "idle" <=> c = Idle
         /\ c[1] = "reserve" <=> c = <<"reserve">>
         /\ c[1] = "reset" <=> c = <<"reset">>
<1>1. CASE c \in {<<"set", k, v>> : k \in Keys, v \in Values}
  <2>1. PICK k \in Keys, v \in Values : c = <<"set", k, v>>
    BY <1>1
  <2>2. c[1] = "set" /\ c[2] = k /\ c[3] = v
    BY <2>1
  <2>3. c # <<"idle">> /\ c # <<"reserve">> /\ c # <<"reset">>
    BY <2>2
  <2> QED BY <2>2, <2>3 DEF Idle
<1>2. CASE c \in {<<"remove", k>> : k \in Keys}
  <2>1. PICK k \in Keys : c = <<"remove", k>>
    BY <1>2
  <2>2. c[1] = "remove" /\ c[2] = k
    BY <2>1
  <2>3. c # <<"idle">> /\ c # <<"reserve">> /\ c # <<"reset">>
    BY <2>2
  <2> QED BY <2>2, <2>3 DEF Idle
<1>3. CASE c \in {<<"reserve">>, <<"reset">>, Idle}
  <2>1. c = <<"reserve">> \/ c = <<"reset">> \/ c = <<"idle">>
    BY <1>3 DEF Idle
  <2>2. <<"reserve">>[1] = "reserve" /\ <<"reset">>[1] = "reset" /\ <<"idle">>[1] = "idle"
    OBVIOUS
  <2> QED BY <2>1, <2>2 DEF Idle
<1> QED BY <1>1, <1>2, <1>3 DEF Calls

\* The record of a set or remove.
LEMMA CallShape ==
  ASSUME call \in Calls \cup {Idle}
  PROVE  /\ call[1] \in {"set", "remove"} => call[2] \in Keys /\ Record \in Records /\ call # Idle
         /\ call[1] = "set" => call[3] \in Values /\ Record = <<call[2], call[3]>>
         /\ call[1] = "remove" => Record = <<call[2], None>>
<1>1. /\ call[1] \in {"set", "remove"} => call[2] \in Keys
      /\ call[1] = "set" => call[3] \in Values
      /\ call[1] = "idle" <=> call = Idle
  BY CallKinds
<1>2. CASE call[1] = "set"
  BY <1>1, <1>2 DEF Record, Records, Names
<1>3. CASE call[1] = "remove"
  BY <1>1, <1>3 DEF Record, Records, Names
<1> QED BY <1>2, <1>3

\* The RAM table t is the one before with the entry of the call made, moved or gone.
Updated(t) ==
  /\ t \in Seq(Entry) /\ Sorted(t) /\ Len(t) <= Len(table) + 1
  /\ \A i \in 1 .. Len(t) :
       \/ call[1] = "set" /\ t[i] = [key |-> call[2], at |-> free]
       \/ \E j \in 1 .. Len(table) : /\ t[i] = table[j]
                                     /\ call[1] = "set" \/ Listed(call[2]) => table[j].key # call[2]
  /\ call[1] = "set" => \E i \in 1 .. Len(t) : t[i].key = call[2]
  /\ call[1] = "set" \/ Listed(call[2]) =>
       \A j \in 1 .. Len(table) : table[j].key # call[2] => \E i \in 1 .. Len(t) : t[i] = table[j]

\* The RAM table after set_finalize.
LEMMA TableUpdated ==
  ASSUME table \in Seq(Entry), Sorted(table), call \in Calls \cup {Idle},
         call[1] \in {"set", "remove"}, free \in 0 .. geo.size - 1,
         Present(call[2]) <=> Listed(call[2]), InsertPos(call[2]) = Place(call[2])
  PROVE  Updated(TableAfter)
<1> DEFINE k == call[2]
           t == TableAfter
<1> SUFFICES /\ t \in Seq(Entry) /\ Sorted(t) /\ Len(t) <= Len(table) + 1
             /\ \A i \in 1 .. Len(t) :
                  \/ call[1] = "set" /\ t[i] = [key |-> k, at |-> free]
                  \/ \E j \in 1 .. Len(table) : /\ t[i] = table[j]
                                                /\ call[1] = "set" \/ Listed(k) => table[j].key # k
             /\ call[1] = "set" => \E i \in 1 .. Len(t) : t[i].key = k
             /\ call[1] = "set" \/ Listed(k) =>
                  \A j \in 1 .. Len(table) : table[j].key # k => \E i \in 1 .. Len(t) : t[i] = table[j]
  BY DEF Updated
<1> DEFINE E == Entry
           n == Len(table)
           p == InsertPos(k)
           e == [key |-> k, at |-> free]
<1>1. k \in Keys /\ e \in E /\ e.key = k /\ (Present(k) <=> Listed(k))
  BY CallShape DEF Entry, Names
<1>2. /\ n \in Nat /\ k \in Nat
      /\ \A i \in 1 .. n : table[i] \in E /\ table[i].key \in Nat
  <2>1. \A i \in 1 .. n : table[i] \in E
    BY ElementOfSeq
  <2> QED BY <1>1, <2>1, KeyAssumption, NameSet, LenProperties DEF Entry
<1>3. /\ p \in 1 .. n + 1
      /\ \A i \in 1 .. n : i < p <=> table[i].key > k
      /\ Listed(k) => p <= n /\ table[p].key = k
  BY <1>1, Position
<1>4. \A i, j \in 1 .. n : i < j => table[i].key > table[j].key
  BY DEF Sorted
<1>5. table \in Seq(E)
  OBVIOUS
<1> HIDE DEF E, p, e, k, t
<1>6. CASE call[1] = "remove" /\ p <= n
  <2>1. t = RemoveAt(table, p)
    BY <1>6 DEF TableAfter, p, k, t
  <2>2. /\ t \in Seq(E) /\ Len(t) = n - 1
        /\ \A i \in 1 .. n - 1 : t[i] = IF i < p THEN table[i] ELSE table[i + 1]
    <3>1. p \in 1 .. n
      BY <1>2, <1>3, <1>6
    <3> QED BY <1>5, <2>1, <3>1, Removed
  <2> DEFINE q(i) == IF i < p THEN i ELSE i + 1
  <2>3. \A i \in 1 .. n - 1 : t[i] = table[q(i)] /\ q(i) \in 1 .. n /\ q(i) # p
    BY <1>2, <1>3, <2>2
  <2>4. \A i, j \in 1 .. n - 1 : i < j => q(i) < q(j)
    BY <1>2, <1>3
  <2>5. Sorted(t)
    <3> SUFFICES ASSUME NEW i \in 1 .. n - 1, NEW j \in 1 .. n - 1, i < j
                 PROVE  t[i].key > t[j].key
      BY <2>2 DEF Sorted
    <3>1. t[i] = table[q(i)] /\ t[j] = table[q(j)] /\ q(i) < q(j) /\ q(i) \in 1 .. n /\ q(j) \in 1 .. n
      BY <2>3, <2>4
    <3> HIDE DEF q
    <3> QED BY <1>4, <3>1
  <2>6. ASSUME Listed(k), NEW j \in 1 .. n
        PROVE  table[j].key # k <=> j # p
    BY <1>2, <1>3, <1>4, <2>6
  <2>7. ASSUME Listed(k), NEW j \in 1 .. n, table[j].key # k
        PROVE  \E i \in 1 .. Len(t) : t[i] = table[j]
    <3>1. j # p
      BY <2>6, <2>7
    <3>2. CASE j < p
      <4>1. j \in 1 .. n - 1 /\ q(j) = j
        BY <1>2, <1>3, <1>6, <3>2
      <4> QED BY <2>2, <2>3, <4>1
    <3>3. CASE j > p
      <4>1. j - 1 \in 1 .. n - 1 /\ q(j - 1) = j
        BY <1>2, <1>3, <1>6, <3>3
      <4> QED BY <2>2, <2>3, <4>1
    <3> QED BY <1>2, <1>3, <3>1, <3>2, <3>3
  <2>8. \A i \in 1 .. Len(t) : \E j \in 1 .. n : t[i] = table[j] /\ (Listed(k) => table[j].key # k)
    <3> HIDE DEF q
    <3> QED BY <2>2, <2>3, <2>6
  <2> QED BY <1>2, <1>6, <2>2, <2>5, <2>7, <2>8 DEF E
<1>7. CASE call[1] = "remove" /\ p = n + 1
  <2>1. t = RemoveAt(table, n + 1)
    BY <1>7 DEF TableAfter, p, k, t
  <2>2. SubSeq(table, 1, (n + 1) - 1) = table
    <3>1. (n + 1) - 1 = n
      BY <1>2
    <3> QED BY <1>5, <3>1, SubSeqFull
  <2>3. SubSeq(table, (n + 1) + 1, n) = <<>>
    <3>1. \A l \in Int : l < (l + 1) + 1 /\ (l + 1) + 1 \in Int
      OBVIOUS
    <3>2. n \in Int
      BY <1>2
    <3> QED BY ONLY <3>1, <3>2, SubSeqEmpty
  <2>4. t = table
    <3>0. RemoveAt(table, n + 1) = SubSeq(table, 1, (n + 1) - 1) \o SubSeq(table, (n + 1) + 1, n)
      BY ONLY Zenon DEF RemoveAt
    <3>1. t = table \o <<>>
      BY ONLY <2>1, <2>2, <2>3, <3>0, Zenon
    <3> QED BY <1>5, <3>1, ConcatEmptySeq
  <2>5. ~Listed(k)
    BY <1>2, <1>3, <1>7
  <2> QED BY <1>2, <1>5, <1>7, <2>4, <2>5 DEF E
<1>8. CASE call[1] = "set" /\ Present(k)
  <2>1. t = [table EXCEPT ![p] = e]
    BY <1>8 DEF TableAfter, p, e, k, t
  <2>2. p \in 1 .. n
    BY <1>1, <1>3, <1>8, <1>2
  <2>3. t \in Seq(E) /\ Len(t) = n /\ \A i \in 1 .. n : t[i] = IF i = p THEN e ELSE table[i]
    BY <1>1, <1>5, <2>1, <2>2, ExceptSeq
  <2>4. \A i \in 1 .. n : t[i].key = table[i].key
    BY <1>1, <1>3, <1>8, <2>3
  <2>5. Sorted(t)
    BY <1>4, <2>3, <2>4 DEF Sorted
  <2>6. \A j \in 1 .. n : table[j].key # k <=> j # p
    BY <1>1, <1>2, <1>3, <1>4, <1>8
  <2>7. \A i \in 1 .. n : t[i] = e \/ (t[i] = table[i] /\ table[i].key # k)
    BY <2>3, <2>6
  <2>8. t[p].key = k
    BY <1>1, <2>2, <2>3
  <2> QED BY <1>1, <1>2, <1>8, <2>2, <2>3, <2>5, <2>6, <2>7, <2>8 DEF E, e
<1>9. CASE call[1] = "set" /\ ~Present(k)
  <2>1. t = InsertAt(table, p, e)
    BY <1>9 DEF TableAfter, p, e, k, t
  <2>2. /\ t \in Seq(E) /\ Len(t) = n + 1
        /\ \A i \in 1 .. n + 1 : t[i] = IF i < p THEN table[i] ELSE IF i = p THEN e ELSE table[i - 1]
    <3>1. e \in E /\ p \in 1 .. Len(table) + 1
      BY <1>1, <1>3
    <3>2. InsertedTo(E, table, p, e, InsertAt(table, p, e))
      BY ONLY <1>5, <3>1, Inserted
    <3> QED BY <2>1, <3>2 DEF InsertedTo
  <2>3. \A j \in 1 .. n : table[j].key # k
    BY <1>1, <1>9 DEF Listed
  <2>4. \A i \in 1 .. n + 1 : i < p => i \in 1 .. n /\ t[i] = table[i]
    BY <1>2, <1>3, <2>2
  <2>5. \A i \in 1 .. n + 1 : i > p => i - 1 \in 1 .. n /\ i - 1 >= p /\ t[i] = table[i - 1]
    BY <1>2, <1>3, <2>2
  <2>6. t[p] = e /\ p \in 1 .. n + 1
    BY <1>3, <2>2
  <2>7. ASSUME NEW i \in 1 .. n + 1, NEW j \in 1 .. n + 1, i < j
        PROVE  t[i].key > t[j].key
    <3>1. CASE i < p /\ j < p
      BY <1>4, <2>4, <2>7, <3>1
    <3>2. CASE i < p /\ j = p
      BY <1>1, <1>3, <2>4, <2>6, <3>2
    <3>3. CASE i < p /\ j > p
      <4>1. i \in 1 .. n /\ j - 1 \in 1 .. n /\ i < j - 1
        BY <1>2, <1>3, <2>4, <2>5, <3>3
      <4> QED BY <1>4, <2>4, <2>5, <3>3, <4>1
    <3>4. CASE i = p
      <4>1. j > p /\ j - 1 \in 1 .. n /\ ~(j - 1 < p) /\ t[j] = table[j - 1]
        BY <1>2, <1>3, <2>5, <2>7, <3>4
      <4>2. ~(table[j - 1].key > k) /\ table[j - 1].key # k /\ table[j - 1].key \in Nat
        BY <1>2, <1>3, <2>3, <4>1
      <4> QED BY <1>1, <1>2, <2>6, <3>4, <4>1, <4>2
    <3>5. CASE i > p
      <4>1. j > p /\ i - 1 < j - 1
        BY <1>2, <1>3, <2>7, <3>5
      <4> QED BY <1>4, <2>5, <3>5, <4>1
    <3> QED BY <1>2, <1>3, <3>1, <3>2, <3>3, <3>4, <3>5
  <2>8. Sorted(t)
    BY <2>2, <2>7 DEF Sorted
  <2>9. \A i \in 1 .. n + 1 : t[i] = e \/ \E j \in 1 .. n : t[i] = table[j] /\ table[j].key # k
    <3> SUFFICES ASSUME NEW i \in 1 .. n + 1
                 PROVE  t[i] = e \/ \E j \in 1 .. n : t[i] = table[j] /\ table[j].key # k
      OBVIOUS
    <3>1. i < p \/ i = p \/ i > p
      BY <1>2, <1>3
    <3> QED BY <2>3, <2>4, <2>5, <2>6, <3>1
  <2>10. ASSUME NEW j \in 1 .. n PROVE \E i \in 1 .. n + 1 : t[i] = table[j]
    <3>1. CASE j < p
      BY <1>2, <2>4, <3>1
    <3>2. CASE j >= p
      <4>1. j + 1 \in 1 .. n + 1 /\ j + 1 > p /\ (j + 1) - 1 = j
        BY <1>2, <1>3, <3>2
      <4> QED BY <2>5, <4>1
    <3> QED BY <1>2, <1>3, <3>1, <3>2
  <2> QED BY <1>1, <1>2, <1>9, <2>2, <2>6, <2>8, <2>9, <2>10 DEF E, e
<1> QED BY <1>2, <1>3, <1>6, <1>7, <1>8, <1>9

\* The steps but those of a garbage collection that overruns the area or fails.
Normal ==
  \/ InitEmpty \/ InitScan \/ InitAbort
  \/ GcErase \/ GcReserve \/ GcCopy \/ GcSwitch \/ MasterTorn \/ MasterDone \/ GcReset
  \/ StartAbandoned \/ StartRoom \/ StartRefused \/ StartErase
  \/ AddData \/ HeaderTorn \/ Finalize \/ UpdateTable \/ ClearNext \/ SetReturns
  \/ ReserveRefused \/ ReserveData \/ ReserveTrailer
  \/ ResetFirst \/ ResetSecond
  \/ \E c \in Calls : Begin(c)
  \/ WriteFails \/ Abandon \/ ReserveFails \/ PowerLoss

\* The steps, one by one.
LEMMA CallStep ==
  ASSUME Types, CallInv, [Normal]_vars
  PROVE  CallInv'
<1> USE DEF CallInv, Collecting, Writing, ramVars, gcVars, apiVars
<1>0. /\ call \in Calls \cup {Idle} /\ active \in Areas
      /\ call[1] = "idle" <=> call = Idle
      /\ call[1] = "reserve" <=> call = <<"reserve">>
      /\ call[1] = "reset" <=> call = <<"reset">>
      /\ Idle[1] = "idle"
  BY CallKinds DEF Types, TypeOK, Idle
<1>1. CASE InitEmpty
  BY <1>0, <1>1 DEF InitEmpty
<1>2. CASE InitScan
  BY <1>0, <1>2 DEF InitScan
<1>3. CASE InitAbort
  BY <1>0, <1>3 DEF InitAbort
<1>4. CASE GcErase
  BY <1>0, <1>4 DEF GcErase
<1>5. CASE GcReserve
  BY <1>0, <1>5 DEF GcReserve
<1>6. CASE GcCopy
  BY <1>0, <1>6 DEF GcCopy
<1>7. CASE GcSwitch
  BY <1>0, <1>7 DEF GcSwitch
<1>8. CASE MasterTorn
  BY <1>0, <1>8 DEF MasterTorn
<1>9. CASE MasterDone
  <2>1. CASE ret = "reset"
    BY <1>0, <1>9, <2>1 DEF MasterDone, Reply
  <2>2. CASE ret = "booted"
    BY <1>0, <1>9, <2>2 DEF MasterDone
  <2>3. CASE ret \notin {"booted", "reset"}
    <3>1. pc = "master" /\ pc' = "gcReset" /\ UNCHANGED <<ret, active, call, committed>>
      BY <1>9, <2>3 DEF MasterDone
    <3>2. ret \in {"init", "start", "room", "failed"}
      BY <2>3, <3>1 DEF Types, Rets
    <3> QED BY <1>0, <2>3, <3>1, <3>2
  <2> QED BY <2>1, <2>2, <2>3
<1>10. CASE GcReset
  BY <1>0, <1>10 DEF GcReset, Reply
<1>11. CASE StartAbandoned
  BY <1>0, <1>11 DEF StartAbandoned
<1>12. CASE StartRoom
  BY <1>0, <1>12 DEF StartRoom
<1>13. CASE StartRefused
  BY <1>0, <1>13 DEF StartRefused, Reply
<1>14. CASE StartErase
  BY <1>0, <1>14 DEF StartErase
<1>15. CASE AddData
  BY <1>0, <1>15 DEF AddData
<1>16. CASE HeaderTorn
  BY <1>0, <1>16 DEF HeaderTorn
<1>17. CASE Finalize
  BY <1>0, <1>17 DEF Finalize
<1>18. CASE UpdateTable
  BY <1>0, <1>18 DEF UpdateTable
<1>19. CASE ClearNext
  BY <1>0, <1>19 DEF ClearNext
<1>20. CASE SetReturns
  BY <1>0, <1>20 DEF SetReturns, Reply
<1>21. CASE ReserveRefused
  BY <1>0, <1>21 DEF ReserveRefused, Reply
<1>22. CASE ReserveData
  BY <1>0, <1>22 DEF ReserveData
<1>23. CASE ReserveTrailer
  BY <1>0, <1>23 DEF ReserveTrailer
<1>24. CASE ResetFirst
  BY <1>0, <1>24 DEF ResetFirst, Cleared
<1>25. CASE ResetSecond
  BY <1>0, <1>25 DEF ResetSecond, Cleared
<1>26. CASE WriteFails
  BY <1>0, <1>26 DEF WriteFails
<1>27. CASE Abandon
  BY <1>0, <1>27 DEF Abandon, Reply
<1>28. CASE ReserveFails
  BY <1>0, <1>28 DEF ReserveFails, Reply
<1>29. CASE PowerLoss
  BY <1>0, <1>29 DEF PowerLoss
<1>30. ASSUME NEW c \in Calls, Begin(c) PROVE CallInv'
  <2>1. /\ c[1] \in {"set", "remove", "reserve", "reset", "idle"}
        /\ c[1] = "idle" <=> c = Idle
        /\ c[1] = "reserve" <=> c = <<"reserve">>
        /\ c[1] = "reset" <=> c = <<"reset">>
    BY CallKinds
  <2>2. c[1] # "idle"
    BY DEF Calls
  <2> QED BY <1>0, <1>30, <2>1, <2>2 DEF Begin
<1>31. CASE UNCHANGED vars
  BY <1>31 DEF vars
<1> QED BY <1>1, <1>2, <1>3, <1>4, <1>5, <1>6, <1>7, <1>8, <1>9, <1>10, <1>11, <1>12, <1>13, <1>14, <1>15, <1>16, <1>17, <1>18, <1>19, <1>20, <1>21, <1>22, <1>23, <1>24, <1>25, <1>26, <1>27, <1>28, <1>29, <1>30, <1>31 DEF Normal

-----------------------------------------------------------------------------
(* Ranges *)

\* The layout of the device does not change.
LEMMA GeoKept ==
  ASSUME [Normal]_vars
  PROVE  geo' = geo
BY DEF Normal, vars, InitEmpty, InitScan, InitAbort, GcErase, GcReserve, GcCopy, GcSwitch, MasterTorn, MasterDone, GcReset, StartAbandoned, StartRoom, StartRefused, StartErase, AddData, HeaderTorn, Finalize, UpdateTable, ClearNext, SetReturns, ReserveRefused, ReserveData, ReserveTrailer, ResetFirst, ResetSecond, WriteFails, Abandon, ReserveFails, PowerLoss, Begin

\* The range of offsets, of the values before and after a step.
InRange(f, t, p, i, o) ==
  /\ \E n \in 0 .. MaxRecords : /\ f = Offset(n + 1)
                                /\ ("crash" \in geo.faults \/ Len(t) <= n)
                                /\ \A j \in 1 .. n : Readable(Offset(j))
  /\ \A j \in 1 .. Len(t) : Readable(Offset(j)) /\ Readable(t[j].at)
  /\ \A j \in 1 .. Len(t) : IF p = "gcCopy" /\ j <= i THEN t[j].at = Offset(j)
                            ELSE t[j].at = 0 \/ t[j].at + RecSize <= f
  /\ p = "gcReserve" => i = 0
  /\ p \in {"gcReserve", "gcCopy"} => i <= Len(t) /\ o = Offset(i + 1)
  /\ p \in Writing => f + RecSize <= geo.size

\* RangeInv is InRange of the values before a step, and of those after it.
LEMMA RangePrime ==
  ASSUME geo' = geo
  PROVE  /\ RangeInv <=> InRange(free, table, pc, gcInd, gcTo)
         /\ RangeInv' <=> InRange(free', table', pc', gcInd', gcTo')
BY DEF RangeInv, InRange, MaxRecords, Offset, Readable, RecSize, Writing

\* What the types say of single variables.
LEMMA TypeFacts ==
  ASSUME Types
  PROVE  /\ geo \in Geometries /\ active \in Areas /\ 1 - active \in Areas /\ active # 1 - active
         /\ free \in Nat /\ free >= 1 /\ free <= geo.size
         /\ gcInd \in Nat /\ gcTo \in Nat /\ gcTo >= 1 /\ gcTo <= geo.size
         /\ table \in Seq(Entry) /\ Len(table) \in Nat
         /\ \A i \in 1 .. Len(table) : /\ table[i] \in Entry
                                       /\ table[i].key \in Names /\ table[i].key \in Nat
                                       /\ table[i].at \in Nat /\ table[i].at < geo.size
         /\ call \in Calls \cup {Idle}
         /\ log \in [Areas -> [Units -> Contents]] /\ \A a \in Areas : log[a] \in [Units -> Contents]
<1>1. /\ geo \in Geometries /\ active \in Areas /\ free \in First .. geo.size
      /\ gcInd \in Nat /\ gcTo \in First .. geo.size
      /\ call \in Calls \cup {Idle}
  BY DEF Types, TypeOK
<1>2. table \in Seq(Entry) /\ log \in [Areas -> [Units -> Contents]]
  BY DEF Types
<1>3. geo.size \in Nat
  BY <1>1, Geometry
<1>4. 1 - active \in Areas /\ active # 1 - active
  BY <1>1 DEF Areas
<1>5. /\ free \in Nat /\ free >= 1 /\ free <= geo.size
      /\ gcTo \in Nat /\ gcTo >= 1 /\ gcTo <= geo.size
  BY <1>1, <1>3 DEF First
<1>6. Len(table) \in Nat
  BY <1>2, LenProperties
<1>7. \A i \in 1 .. Len(table) : table[i] \in Entry
  BY <1>2, ElementOfSeq
<1>9. \A i \in 1 .. Len(table) : /\ table[i].key \in Names /\ table[i].key \in Nat
                                   /\ table[i].at \in Nat /\ table[i].at < geo.size
  <2>1. Names \subseteq Nat
    BY NameSet
  <2>2. \A e \in Entry : e.key \in Names /\ e.key \in Nat /\ e.at \in Nat /\ e.at < geo.size
    <3> SUFFICES ASSUME NEW e \in Entry
                 PROVE  e.key \in Names /\ e.key \in Nat /\ e.at \in Nat /\ e.at < geo.size
      OBVIOUS
    <3>1. e.key \in Names /\ e.at \in 0 .. geo.size - 1
      BY DEF Entry
    <3>2. e.key \in Nat
      BY ONLY <2>1, <3>1, Zenon
    <3>3. \A n \in Nat : \A o \in 0 .. n - 1 : o \in Nat /\ o < n
      OBVIOUS
    <3> QED BY ONLY <1>3, <3>1, <3>2, <3>3, Zenon
  <2> QED BY <1>7, <2>2
<1>10. \A a \in Areas : log[a] \in [Units -> Contents]
  BY <1>2
<1> QED BY <1>1, <1>2, <1>4, <1>5, <1>6, <1>7, <1>9, <1>10

\* No garbage collection overruns the area or fails.
LEMMA NormalStep ==
  ASSUME Types, RangeInv, [Next]_vars
  PROVE  [Normal]_vars
<1>1. /\ geo \in Geometries /\ gcInd \in Nat /\ gcTo \in Nat /\ Len(table) \in Nat
      /\ "gc" \notin geo.faults
  BY TypeFacts DEF Types, Assured
<1>2. ASSUME pc = "gcCopy", gcInd < Len(table)
      PROVE  Copyable /\ Fits
  <2>1. gcInd + 1 \in 1 .. Len(table)
    BY <1>1, <1>2
  <2>2. Readable(gcTo) /\ Readable(table[gcInd + 1].at) /\ table[gcInd + 1].at \in Nat
    BY <1>2, <2>1, TypeFacts DEF RangeInv
  <2> QED BY <1>1, <1>2, <2>2, Geometry DEF Copyable, Fits, Readable
<1>3. ~GcOverrun
  BY <1>2 DEF GcOverrun, Copyable
<1>4. ~GcStuck
  BY <1>2 DEF GcStuck
<1>5. ~GcFails /\ ~ResetFails
  BY <1>1 DEF GcFails, ResetFails, Fault
<1> QED BY <1>3, <1>4, <1>5 DEF Next, Step, Normal

\* find_record finds the entry of a key, and set_finalize the place for it.
LEMMA Finding ==
  ASSUME Types, NamedInv, pc \notin {"gcCopy", "resetSecond"}, NEW k \in Keys
  PROVE  /\ Present(k) <=> Listed(k)
         /\ Present(k) => /\ Stop(k) \in 1 .. Len(table) /\ table[Stop(k)].key = k
                          /\ Found(k) = ReadRecord(log[active], table[Stop(k)].at)
                          /\ Found(k) # Torn
         /\ InsertPos(k) = Place(k)
<1>1. /\ table \in Seq(Entry) /\ Len(table) \in Nat /\ Sorted(table) /\ k \in Nat
      /\ \A i \in 1 .. Len(table) : table[i].key \in Nat
  BY TypeFacts, KeyAssumption DEF NamedInv
<1>2. ASSUME NEW i \in 1 .. Len(table), table[i].key = k
      PROVE  /\ ReadRecord(log[active], table[i].at) # Torn
             /\ ReadRecord(log[active], table[i].at)[1] = k
  <2>1. Named(i) /\ AreaOf(i) = active
    BY DEF NamedInv, AreaOf
  <2>2. table[i] # [key |-> MasterKey, at |-> 0]
    BY <1>2, KeyAssumption
  <2> QED BY <1>2, <2>1, <2>2 DEF Named
<1>3. Stops(k) = {i \in 1 .. Len(table) : table[i].key = k}
  BY <1>2 DEF Stops
<1>4. Present(k) <=> Listed(k)
  BY <1>3 DEF Present, Listed
<1>5. ASSUME Present(k)
      PROVE  Stop(k) \in 1 .. Len(table) /\ table[Stop(k)].key = k
  <2>1. PICK i \in Stops(k) : \A j \in Stops(k) : i <= j
    BY <1>1, <1>3, <1>5, LeastNat DEF Present
  <2>2. Stop(k) \in Stops(k)
    BY <2>1 DEF Stop
  <2> QED BY <1>3, <2>2
<1>6. /\ Place(k) \in 1 .. Len(table) + 1
      /\ Listed(k) => Place(k) <= Len(table) /\ table[Place(k)].key = k
  BY <1>1, Position
<1>7. CASE Present(k)
  <2>1. Stop(k) = Place(k)
    <3>1. Place(k) \in 1 .. Len(table) /\ table[Place(k)].key = k
      BY <1>1, <1>4, <1>6, <1>7
    <3> QED BY <1>1, <1>5, <1>7, <3>1 DEF Sorted
  <2> QED BY <1>2, <1>4, <1>5, <1>7, <2>1 DEF InsertPos, Found
<1>8. CASE ~Present(k)
  <2>1. {i \in 1 .. Len(table) : table[i].key >= k} = {i \in 1 .. Len(table) : table[i].key > k}
    BY <1>1, <1>4, <1>8 DEF Listed
  <2> QED BY <1>4, <1>8, <2>1 DEF InsertPos, Place
<1> QED BY <1>7, <1>8

\* The record that has just been completed lies in the area.
LEMMA FreeRead ==
  ASSUME Types, CallInv, NamedInv, pc = "update"
  PROVE  Readable(free) /\ free \in Units /\ free \in 0 .. geo.size - 1
<1>1. /\ geo \in Geometries /\ free \in Nat /\ free >= 1
      /\ geo.size \in Nat /\ RecSize \in Nat /\ RecSize > 1 /\ geo.pad \in BOOLEAN
  <2>1. geo \in Geometries
    BY TypeFacts
  <2> QED BY <2>1, TypeFacts, Geometry
<1>2. ReadRecord(log[active], free) # Torn
  <2>1. Record \in Records
    BY TypeFacts, CallShape DEF CallInv
  <2> QED BY <1>1, <2>1, Contain DEF NamedInv
<1>3. Readable(free)
  BY <1>2, ReadTorn
<1> QED BY <1>1, <1>3 DEF Readable, Units

\* The RAM table that set_finalize leaves.
LEMMA UpdateMade ==
  ASSUME Types, CallInv, NamedInv, pc = "update"
  PROVE  Updated(TableAfter) /\ (Present(call[2]) <=> Listed(call[2])) /\ call[2] \in Keys
<1>1. call[1] \in {"set", "remove"} /\ call \in Calls \cup {Idle}
  BY TypeFacts DEF CallInv
<1>2. call[2] \in Keys
  BY <1>1, CallKinds
<1>3. (Present(call[2]) <=> Listed(call[2])) /\ InsertPos(call[2]) = Place(call[2])
  BY <1>2, Finding
<1>4. free \in 0 .. geo.size - 1
  BY FreeRead
<1>5. table \in Seq(Entry) /\ Sorted(table)
  BY TypeFacts DEF NamedInv
<1> QED BY <1>1, <1>2, <1>3, <1>4, <1>5, TableUpdated

\* Offsets stay in range: a log grows by records that can be read only, and there is room
\* for a copy of every record of the RAM table, that of the master record included.
LEMMA RangeStep ==
  ASSUME Types, CallInv, RangeInv, NamedInv, Reliable => BootInv, [Normal]_vars
  PROVE  RangeInv'
<1> SUFFICES InRange(free', table', pc', gcInd', gcTo')
  BY GeoKept, RangePrime
<1> USE DEF Writing, ramVars, gcVars, apiVars
<1>g. geo \in Geometries /\ geo.size \in Nat /\ RecSize \in Nat /\ RecSize > 1 /\ geo.pad \in BOOLEAN
  <2>1. geo \in Geometries
    BY TypeFacts
  <2> QED BY <2>1, Geometry
<1>m. MaxRecords \in Nat /\ 0 \in 0 .. MaxRecords
  BY <1>g, Offsets
<1>o. /\ Offset(1) = First /\ Offset(0 + 1) = First
      /\ \A i \in Int : Offset(i) \in Int /\ Offset(i + 1) = Offset(i) + RecSize
  <2>1. /\ Offset(1) = First
        /\ \A i \in Int : Offset(i) \in Int /\ Offset(i + 1) = Offset(i) + RecSize
    BY <1>g, Offsets
  <2> QED BY <2>1
<1>f. free \in Nat /\ free >= 1
  BY TypeFacts
<1>t. table \in Seq(Entry) /\ Len(table) \in Nat
  BY TypeFacts
<1>e. /\ Len(<<>>) = 0 /\ 0 <= 0 /\ \A i \in 1 .. 0 : FALSE
  OBVIOUS
<1>r. InRange(free, table, pc, gcInd, gcTo)
  BY GeoKept, RangePrime
<1> USE DEF InRange
<1>1. CASE InitEmpty
  <2>1. free' = First /\ table' = <<>> /\ pc' = "master"
    BY <1>1 DEF InitEmpty
  <2> QED BY <1>m, <1>o, <1>e, <2>1
<1>2. CASE InitScan
  <2> DEFINE a == ChooseArea
             t == BuildRamTable(a)
  <2>1. a \in Areas
    BY DEF ChooseArea, Areas
  <2>2. PICK n \in 0 .. MaxRecords : Ends(a, n)
    <3> HIDE DEF a
    <3> QED BY <2>1, LogEnds, TypeFacts
  <2>3. free' = EndOfLog(a) /\ table' = t /\ pc' \in {"halted", "gc", "ready"}
    BY <1>2 DEF InitScan
  <2> HIDE DEF a
  <2>4. EndOfLog(a) = Offset(n + 1)
    BY <2>1, <2>2, LogHolds, TypeFacts DEF LogLaw
  <2>p. "crash" \in geo.faults
    BY <1>2 DEF InitScan, Reliable, BootInv
  <2>5. /\ t \in Seq(Entry) /\ Sorted(t)
        /\ \A i \in 1 .. Len(t) : \/ t[i].at = 0
                                   \/ (Readable(t[i].at) /\ t[i].at + RecSize <= Offset(n + 1))
    <3>1. /\ t \in Seq(Entry) /\ Sorted(t)
          /\ \A i \in 1 .. Len(t) : EntryIs(a, n, t[i])
      BY <2>1, <2>2, TableBuilt, TypeFacts
    <3> HIDE DEF t
    <3> QED BY <3>1 DEF EntryIs
  <2>8. \A i \in 1 .. Len(t) : Readable(Offset(i)) /\ Readable(t[i].at)
    <3> HIDE DEF t
    <3> SUFFICES ASSUME NEW i \in 1 .. Len(t) PROVE Readable(Offset(i)) /\ Readable(t[i].at)
      OBVIOUS
    <3>1. Readable(Offset(i))
      BY <1>g, <2>p, <2>5, TableFits DEF Types, Assured
    <3>2. Readable(0)
      <4>1. i \in Int /\ i >= 1 /\ Offset(i) \in Int
        BY <1>o, <2>5, LenProperties
      <4>2. Offset(i) >= 0
        BY <1>g, <4>1, RecordOffset
      <4> QED BY <1>g, <3>1, <4>1, <4>2, ReadableBelow
    <3> QED BY <2>5, <3>1, <3>2
  <2>6. \A i \in 1 .. n : Readable(Offset(i))
    BY <2>2, ReadTorn DEF Ends, RecordAt
  <2>7. \A j \in 1 .. Len(table') : IF pc' = "gcCopy" /\ j <= gcInd' THEN table'[j].at = Offset(j)
                                    ELSE table'[j].at = 0 \/ table'[j].at + RecSize <= free'
    BY <2>3, <2>4, <2>5
  <2> QED BY <2>p, <2>2, <2>3, <2>4, <2>6, <2>7, <2>8
<1>3. CASE InitAbort
  BY <1>m, <1>o, <1>f, <1>r, <1>3 DEF InitAbort
<1>4. CASE GcErase
  <2>1. /\ gcInd' = 0 /\ gcTo' = First /\ UNCHANGED <<free, table>>
        /\ pc' \in {"gcReserve", "gcCopy"}
    BY <1>4 DEF GcErase
  <2>2. gcInd' <= Len(table') /\ gcTo' = Offset(gcInd' + 1)
    BY <1>o, <1>t, <2>1
  <2>3. \A j \in 1 .. Len(table) : table[j].at = 0 \/ table[j].at + RecSize <= free
    BY <1>4, <1>r DEF GcErase
  <2>4. \A j \in 1 .. Len(table) : ~(j <= gcInd')
    BY <1>t, <2>1
  <2>5. \A j \in 1 .. Len(table') : IF pc' = "gcCopy" /\ j <= gcInd' THEN table'[j].at = Offset(j)
                                    ELSE table'[j].at = 0 \/ table'[j].at + RecSize <= free'
    BY <2>1, <2>3, <2>4
  <2> QED BY <1>r, <2>1, <2>2, <2>5
<1>5. CASE GcReserve
  <2>1. pc = "gcReserve" /\ pc' = "gcCopy" /\ UNCHANGED <<free, table, gcInd, gcTo>>
    BY <1>5 DEF GcReserve
  <2>2. gcInd = 0 /\ gcInd <= Len(table) /\ gcTo = Offset(gcInd + 1)
    BY <1>r, <2>1
  <2>3. \A j \in 1 .. Len(table) : table[j].at = 0 \/ table[j].at + RecSize <= free
    BY <1>r, <2>1
  <2>4. \A j \in 1 .. Len(table) : ~(j <= gcInd')
    BY <1>t, <2>1, <2>2
  <2>5. \A j \in 1 .. Len(table') : IF pc' = "gcCopy" /\ j <= gcInd' THEN table'[j].at = Offset(j)
                                    ELSE table'[j].at = 0 \/ table'[j].at + RecSize <= free'
    BY <2>1, <2>3, <2>4
  <2> QED BY <1>r, <2>1, <2>2, <2>5
<1>6. CASE GcCopy
  <2>1. /\ pc = "gcCopy" /\ pc' = pc /\ gcInd < Len(table)
        /\ table' = [table EXCEPT ![gcInd + 1].at = gcTo]
        /\ gcInd' = gcInd + 1 /\ gcTo' = gcTo + RecSize /\ free' = free
    BY <1>6 DEF GcCopy, CopyNext, Copyable
  <2>2. gcInd \in Nat /\ gcInd + 1 \in 1 .. Len(table) /\ Len(table) \in Nat
    <3>1. gcInd \in Nat /\ Len(table) \in Nat
      BY TypeFacts
    <3>2. \A i, n \in Nat : i < n => i + 1 \in 1 .. n
      OBVIOUS
    <3> QED BY ONLY <2>1, <3>1, <3>2
  <2>3. Readable(gcTo) /\ gcTo' = Offset(gcInd' + 1)
    BY <1>o, <1>r, <2>1, <2>2
  <2>4. Len(table') = Len(table)
    BY <1>m, <1>o, <1>f, <1>g, <1>t, <2>1, <2>2
  <2>5. \A i \in 1 .. Len(table) : table'[i].at = IF i = gcInd + 1 THEN gcTo ELSE table[i].at
    <3>1. table \in Seq(Entry)
      BY TypeFacts
    <3> QED BY ONLY <2>1, <2>2, <3>1, ElementOfSeq
  <2>6. \A i \in 1 .. Len(table') : Readable(Offset(i)) /\ Readable(table'[i].at)
    BY <1>r, <2>3, <2>4, <2>5
  <2>7. gcInd' <= Len(table')
    BY <2>1, <2>2, <2>4
  <2>8. ASSUME NEW j \in 1 .. Len(table)
        PROVE  IF j <= gcInd + 1 THEN table'[j].at = Offset(j)
               ELSE table'[j].at = 0 \/ table'[j].at + RecSize <= free
    <3>1. CASE j <= gcInd
      BY <1>r, <2>1, <2>2, <2>5, <3>1
    <3>2. CASE j = gcInd + 1
      BY <1>r, <2>1, <2>2, <2>5, <3>2
    <3>3. CASE j > gcInd + 1
      BY <1>r, <2>1, <2>2, <2>5, <3>3
    <3> QED BY <2>2, <3>1, <3>2, <3>3
  <2>9. \A j \in 1 .. Len(table') : IF pc' = "gcCopy" /\ j <= gcInd' THEN table'[j].at = Offset(j)
                                    ELSE table'[j].at = 0 \/ table'[j].at + RecSize <= free'
    BY <2>1, <2>4, <2>8
  <2> QED BY <1>r, <2>1, <2>3, <2>4, <2>6, <2>7, <2>9
<1>7. CASE GcSwitch
  <2>1. /\ pc = "gcCopy" /\ pc' = "master" /\ gcInd = Len(table) /\ free' = gcTo /\ table' = table
    BY <1>7 DEF GcSwitch
  <2>3. Len(table) \in 0 .. MaxRecords
    <3>1. CASE Len(table) = 0
      BY <1>m, <3>1
    <3>2. CASE Len(table) # 0
      <4>1. Readable(Offset(Len(table))) /\ Len(table) \in 1 .. Len(table)
        BY <1>r, <1>t, <3>2
      <4>2. Offset(Len(table)) + RecSize <= geo.size
        <5>1. Offset(Len(table)) \in Int
          BY <1>o, <1>t
        <5> QED BY <1>g, <4>1, <5>1 DEF Readable
      <4> QED BY <1>g, <1>m, <1>t, <4>2, Offsets
    <3> QED BY <3>1, <3>2
  <2>4. \A i \in 1 .. Len(table) : Readable(Offset(i))
    BY <1>r
  <2>5. ASSUME NEW j \in 1 .. Len(table)
        PROVE  table[j].at + RecSize <= gcTo
    <3>1. table[j].at = Offset(j) /\ gcTo = Offset(gcInd + 1) /\ j < gcInd + 1 /\ j \in Int /\ gcInd + 1 \in Int
      BY <1>r, <1>t, <2>1
    <3> QED BY <1>g, <3>1, Offsets
  <2>6. \A j \in 1 .. Len(table') : IF pc' = "gcCopy" /\ j <= gcInd' THEN table'[j].at = Offset(j)
                                    ELSE table'[j].at = 0 \/ table'[j].at + RecSize <= free'
    BY <2>1, <2>5
  <2>7. gcTo = Offset(Len(table) + 1)
    BY <1>r, <2>1
  <2> QED BY <1>r, <2>1, <2>3, <2>4, <2>6, <2>7
<1>8. CASE MasterTorn
  BY <1>m, <1>o, <1>f, <1>r, <1>8 DEF MasterTorn
<1>9. CASE MasterDone
  BY <1>m, <1>o, <1>f, <1>r, <1>9 DEF MasterDone, Reply
<1>10. CASE GcReset
  BY <1>m, <1>o, <1>f, <1>r, <1>10 DEF GcReset, Reply
<1>11. CASE StartAbandoned
  BY <1>m, <1>o, <1>f, <1>r, <1>11 DEF StartAbandoned
<1>12. CASE StartRoom
  BY <1>m, <1>o, <1>f, <1>r, <1>12 DEF StartRoom
<1>13. CASE StartRefused
  BY <1>m, <1>o, <1>f, <1>r, <1>13 DEF StartRefused, Reply
<1>14. CASE StartErase
  <2>1. /\ pc' = "data" /\ free + RecSize <= geo.size /\ UNCHANGED <<free, table>>
    BY <1>14, <1>g, <1>f DEF StartErase, Refused
  <2>2. \A j \in 1 .. Len(table') : IF pc' = "gcCopy" /\ j <= gcInd' THEN table'[j].at = Offset(j)
                                    ELSE table'[j].at = 0 \/ table'[j].at + RecSize <= free'
    BY <1>14, <1>r, <2>1 DEF StartErase
  <2> QED BY <1>r, <2>1, <2>2
<1>15. CASE AddData
  BY <1>m, <1>o, <1>f, <1>r, <1>15 DEF AddData
<1>16. CASE HeaderTorn
  BY <1>m, <1>o, <1>f, <1>r, <1>16 DEF HeaderTorn
<1>17. CASE Finalize
  <2>1. pc' \in {"update", "gc"} /\ UNCHANGED <<free, table>>
    BY <1>17 DEF Finalize
  <2>3. \A j \in 1 .. Len(table') : IF pc' = "gcCopy" /\ j <= gcInd' THEN table'[j].at = Offset(j)
                                    ELSE table'[j].at = 0 \/ table'[j].at + RecSize <= free'
    BY <1>17, <1>r, <2>1 DEF Finalize
  <2> QED BY <1>r, <2>1, <2>3
<1>18. CASE UpdateTable
  <2>1. /\ pc = "update" /\ pc' \in {"clear", "return"} /\ table' = TableAfter
        /\ free' = free + RecSize
    BY <1>18 DEF UpdateTable
  <2>2. PICK n \in 0 .. MaxRecords : /\ free = Offset(n + 1)
                                      /\ ("crash" \in geo.faults \/ Len(table) <= n)
                                      /\ \A i \in 1 .. n : Readable(Offset(i))
    BY <1>r
  <2>3. Readable(free) /\ free \in Units /\ free \in 0 .. geo.size - 1
    BY <2>1, FreeRead
  <2>4. n + 1 \in 0 .. MaxRecords /\ Offset((n + 1) + 1) = free'
    <3>0. geo.pad \in BOOLEAN /\ n \in Int /\ n + 1 \in Int
      BY <1>m, <1>o, <1>f, <1>g, <1>t,  Geometry
    <3>1. free + RecSize <= geo.size
      BY <1>g, <1>f, <2>3, <3>0 DEF Readable
    <3>2. n + 1 <= MaxRecords
      BY <1>m, <1>o, <1>f, <1>g, <1>t, <2>2, <3>0, <3>1, Offsets
    <3> QED BY <1>m, <1>o, <1>f, <1>g, <1>t, <2>1, <2>2, <3>0, <3>2
  <2>5. /\ table' \in Seq(Entry) /\ Sorted(table') /\ Len(table') <= Len(table) + 1
        /\ \A i \in 1 .. Len(table') : \/ table'[i] = [key |-> call[2], at |-> free]
                                       \/ \E j \in 1 .. Len(table) : table'[i] = table[j]
    <3>2. Updated(table')
      BY <2>1, UpdateMade
    <3> QED BY <3>2 DEF Updated
  <2>6. \A i \in 1 .. Len(table') : Readable(table'[i].at)
    BY <1>r, <2>3, <2>5
  <2>7. \A i \in 1 .. n + 1 : Readable(Offset(i))
    <3>1. \A i \in 1 .. n + 1 : i \in 1 .. n \/ i = n + 1
      BY <1>m, <1>t
    <3> QED BY <2>2, <2>3, <3>1
  <2>8. "crash" \in geo.faults \/ Len(table') <= n + 1
    BY <1>m, <1>o, <1>f, <1>g, <1>t, <2>2, <2>5, LenProperties
  <2>12. \A i \in 1 .. Len(table') : Readable(Offset(i))
    <3>1. CASE "crash" \in geo.faults
      BY <1>g, <2>5, <3>1, TableFits DEF Types, Assured
    <3>2. CASE "crash" \notin geo.faults
      <4>1. \A i \in 1 .. Len(table') : i \in 1 .. n + 1
        BY <1>m, <2>5, <2>8, <3>2, LenProperties
      <4> QED BY <2>7, <4>1
    <3> QED BY <3>1, <3>2
  <2>9. \A j \in 1 .. Len(table) : table[j].at = 0 \/ table[j].at + RecSize <= free + RecSize
    <3>1. \A j \in 1 .. Len(table) : (table[j].at = 0 \/ table[j].at + RecSize <= free) /\ table[j].at \in Nat
      BY <1>r, <2>1, TypeFacts
    <3> QED BY <1>f, <1>g, <3>1
  <2>10. ASSUME NEW j \in 1 .. Len(table') PROVE table'[j].at = 0 \/ table'[j].at + RecSize <= free'
    <3>1. free + RecSize <= free + RecSize
      BY <1>f, <1>g
    <3> QED BY <2>1, <2>5, <2>9, <3>1
  <2>11. \A j \in 1 .. Len(table') : IF pc' = "gcCopy" /\ j <= gcInd' THEN table'[j].at = Offset(j)
                                    ELSE table'[j].at = 0 \/ table'[j].at + RecSize <= free'
    BY <2>1, <2>10
  <2> QED BY <2>1, <2>4, <2>6, <2>7, <2>8, <2>11, <2>12
<1>19. CASE ClearNext
  BY <1>m, <1>o, <1>f, <1>r, <1>19 DEF ClearNext
<1>20. CASE SetReturns
  BY <1>m, <1>o, <1>f, <1>r, <1>20 DEF SetReturns, Reply
<1>21. CASE ReserveRefused
  BY <1>m, <1>o, <1>f, <1>r, <1>21 DEF ReserveRefused, Reply
<1>22. CASE ReserveData
  BY <1>m, <1>o, <1>f, <1>r, <1>22 DEF ReserveData
<1>23. CASE ReserveTrailer
  BY <1>m, <1>o, <1>f, <1>r, <1>23 DEF ReserveTrailer
<1>24. CASE ResetFirst
  BY <1>m, <1>o, <1>f, <1>r, <1>24 DEF ResetFirst, Cleared
<1>25. CASE ResetSecond
  <2>1. free' = First /\ table' = <<>> /\ pc' = "master"
    BY <1>25 DEF ResetSecond
  <2> QED BY <1>m, <1>o, <1>e, <2>1
<1>26. CASE WriteFails
  BY <1>m, <1>o, <1>f, <1>r, <1>26 DEF WriteFails, Fault
<1>27. CASE Abandon
  BY <1>m, <1>o, <1>f, <1>r, <1>27 DEF Abandon, Reply, Fault
<1>28. CASE ReserveFails
  BY <1>m, <1>o, <1>f, <1>r, <1>28 DEF ReserveFails, Reply, Fault
<1>29. CASE PowerLoss
  <2>1. free' = First /\ table' = <<>> /\ pc' = "off"
    BY <1>29 DEF PowerLoss
  <2> QED BY <1>m, <1>o, <1>e, <2>1
<1>30. ASSUME NEW c \in Calls, Begin(c) PROVE InRange(free', table', pc', gcInd', gcTo')
  <2>1. c[1] \in {"set", "remove", "reserve", "reset", "idle"}
    BY CallKinds
  <2> QED BY <1>m, <1>o, <1>f, <1>r, <1>30, <2>1 DEF Begin
<1>31. CASE UNCHANGED vars
  BY <1>r, <1>31 DEF vars
<1> QED BY <1>1, <1>2, <1>3, <1>4, <1>5, <1>6, <1>7, <1>8, <1>9, <1>10, <1>11, <1>12, <1>13, <1>14, <1>15, <1>16, <1>17, <1>18, <1>19, <1>20, <1>21, <1>22, <1>23, <1>24, <1>25, <1>26, <1>27, <1>28, <1>29, <1>30, <1>31 DEF Normal

-----------------------------------------------------------------------------
(* Types *)

Flash == /\ log' \in [Areas -> [Units -> Contents]]
         /\ master' \in [Areas -> {Erased, Torn} \cup 0 .. VersionMod - 1]
         /\ reserve' \in [Areas -> {Erased, Torn, Written}]

\* What programs and erases leave in the flash.
LEMMA HeadTyped ==
  ASSUME Types, NEW as, EraseHead(as)
  PROVE  Flash
<1>1. geo \in Geometries /\ \A a \in Areas : log[a] \in [Units -> Contents]
  BY TypeFacts
<1>2. \A a \in Areas : EraseStarting(log[a], 0, 1) \in [Units -> Contents]
  BY <1>1, HeadClean
<1>3. log' \in [Areas -> [Units -> Contents]]
  BY <1>1, <1>2 DEF EraseHead
<1>4. /\ master \in [Areas -> {Erased, Torn} \cup 0 .. VersionMod - 1]
      /\ reserve \in [Areas -> {Erased, Torn, Written}]
  BY DEF Types
<1> QED BY <1>3, <1>4 DEF EraseHead, Flash

\* A program leaves units of the right type.
LEMMA ProgramTyped ==
  ASSUME Types, NEW a \in Areas, NEW o \in Nat, NEW from \in Nat, NEW r \in Records \cup {Torn},
         Program(a, o, from, r)
  PROVE  log' \in [Areas -> [Units -> Contents]]
<1>1. geo \in Geometries /\ log[a] \in [Units -> Contents] /\ log \in [Areas -> [Units -> Contents]]
  BY TypeFacts
<1>2. RecSize \in Nat /\ \A u \in Units : u \in Nat
  BY <1>1, Geometry DEF Units
<1>3. ASSUME NEW u \in Units, u \in o + from .. o + RecSize - 1
      PROVE  (IF r = Torn THEN Torn ELSE <<r, u - o>>) \in Contents
  <2>1. u - o \in 0 .. RecSize
    BY <1>2, <1>3
  <2> QED BY <2>1 DEF Contents
<1>4. [u \in Units |-> IF u \in o + from .. o + RecSize - 1
                       THEN IF r = Torn THEN Torn ELSE <<r, u - o>>
                       ELSE log[a][u]] \in [Units -> Contents]
  BY <1>1, <1>3
<1> QED BY <1>1, <1>4 DEF Program

\* Every step leaves a flash of the right type.
LEMMA FlashTyped ==
  ASSUME Types, CallInv, RangeInv, [Normal]_vars
  PROVE  Flash
<1> USE DEF ramVars, gcVars, apiVars
<1>0. Types /\ geo \in Geometries /\ active \in Areas /\ 1 - active \in Areas
      /\ free \in Nat /\ geo.hdr \in Nat /\ RecSize \in Nat /\ 0 \in Nat /\ Torn \in Records \cup {Torn}
  <2>1. geo \in Geometries
    BY TypeFacts
  <2> QED BY <2>1, TypeFacts, Geometry
<1>l. /\ log \in [Areas -> [Units -> Contents]]
      /\ master \in [Areas -> {Erased, Torn} \cup 0 .. VersionMod - 1]
      /\ reserve \in [Areas -> {Erased, Torn, Written}]
      /\ version \in 0 .. VersionMod - 1
  BY DEF Types, TypeOK
<1>1. CASE InitEmpty
  <2>1. EraseHead(Areas)
    BY <1>1 DEF InitEmpty
  <2> QED BY <2>1, <1>0, HeadTyped
<1>2. CASE InitScan
  <2>1. EraseHead({1 - ChooseArea})
    BY <1>2 DEF InitScan
  <2> QED BY <2>1, <1>0, HeadTyped
<1>3. CASE InitAbort
  BY <1>l, <1>3 DEF InitAbort, Flash
<1>4. CASE GcErase
  <2>1. EraseHead({1 - active})
    BY <1>4 DEF GcErase
  <2> QED BY <2>1, <1>0, HeadTyped
<1>5. CASE GcReserve
  BY <1>0, <1>l, <1>5 DEF GcReserve, Flash
<1>6. CASE GcCopy
  <2> DEFINE from == table[gcInd + 1].at
             to == EraseStarting(log[1 - active], gcTo, RecSize)
  <2>1. log' = [log EXCEPT ![1 - active] = Copied] /\ UNCHANGED <<master, reserve>>
    BY <1>6 DEF GcCopy
  <2>2. gcInd + 1 \in 1 .. Len(table)
    BY <1>6, TypeFacts DEF GcCopy, Copyable
  <2>3. from \in Nat /\ from + RecSize <= geo.size /\ geo.size \in Nat
    BY <1>0, <1>6, <2>2, TypeFacts, Geometry DEF GcCopy, Copyable
  <2>4. gcTo \in Nat /\ \A u \in Units : u \in Nat
    BY <1>0, TypeFacts, Geometry DEF Units
  <2>5. to \in [Units -> Contents]
    BY <1>0, <1>l, <2>4, EraseKeeps
  <2>6. ASSUME NEW u \in Units, u \in gcTo .. gcTo + RecSize - 1
        PROVE  Source(from, u - gcTo) \in Contents
    <3> HIDE DEF from
    <3>1. u - gcTo \in 0 .. RecSize - 1
      BY <1>0, <2>4, <2>6
    <3>2. CASE from = 0
      BY <1>0, <3>1, <3>2 DEF Source, Contents, Records, Names
    <3>3. CASE from # 0
      <4>1. from + (u - gcTo) \in Units
        BY <1>0, <2>3, <3>1, <3>3 DEF Units
      <4> QED BY <1>0, <1>l, <3>3, <4>1 DEF Source
    <3> QED BY <3>2, <3>3
  <2>7. Copied \in [Units -> Contents]
    <3>1. Copied = [u \in Units |-> IF u \in gcTo .. gcTo + RecSize - 1
                                    THEN Source(from, u - gcTo) ELSE to[u]]
      BY DEF Copied
    <3> HIDE DEF from, to
    <3> QED BY <2>5, <2>6, <3>1
  <2> QED BY <1>0, <1>l, <2>1, <2>7 DEF Flash
<1>7. CASE GcSwitch
  BY <1>l, <1>7 DEF GcSwitch, Flash
<1>8. CASE MasterTorn
  BY <1>l, <1>8 DEF MasterTorn, Flash
<1>9. CASE MasterDone
  BY <1>l, <1>9 DEF MasterDone, Flash
<1>10. CASE GcReset
  <2>1. EraseHead({1 - active})
    BY <1>10 DEF GcReset
  <2> QED BY <2>1, <1>0, HeadTyped
<1>11. CASE StartAbandoned
  BY <1>l, <1>11 DEF StartAbandoned, Flash
<1>12. CASE StartRoom
  BY <1>l, <1>12 DEF StartRoom, Flash
<1>13. CASE StartRefused
  BY <1>l, <1>13 DEF StartRefused, Flash
<1>14. CASE StartErase
  <2>1. log' = [log EXCEPT ![active] = EraseStarting(@, free, RecSize)] /\ UNCHANGED <<master, reserve>>
    BY <1>14 DEF StartErase
  <2>2. EraseStarting(log[active], free, RecSize) \in [Units -> Contents]
    BY <1>0, <1>l, EraseKeeps
  <2> QED BY <1>l, <2>1, <2>2 DEF Flash
<1>15. CASE AddData
  <2>1. Program(active, free, geo.hdr, Torn) /\ UNCHANGED <<master, reserve>>
    BY <1>15 DEF AddData
  <2>2. log' \in [Areas -> [Units -> Contents]]
    BY <2>1, <1>0, ProgramTyped
  <2> QED BY <1>l, <2>1, <2>2 DEF Flash
<1>16. CASE HeaderTorn
  <2>1. Program(active, free, 0, Torn) /\ UNCHANGED <<master, reserve>>
    BY <1>16 DEF HeaderTorn
  <2>2. log' \in [Areas -> [Units -> Contents]]
    BY <2>1, <1>0, ProgramTyped
  <2> QED BY <1>l, <2>1, <2>2 DEF Flash
<1>17. CASE Finalize
  <2>1. Program(active, free, 0, Record) /\ UNCHANGED <<master, reserve>>
    BY <1>17 DEF Finalize
  <2>2. Record \in Records
    <3>1. call[1] \in {"set", "remove"}
      BY <1>17 DEF Finalize, CallInv, Writing
    <3> QED BY <3>1, CallShape, TypeFacts
  <2>3. log' \in [Areas -> [Units -> Contents]]
    BY <2>1, <2>2, <1>0, ProgramTyped
  <2> QED BY <1>l, <2>1, <2>3 DEF Flash
<1>18. CASE UpdateTable
  BY <1>l, <1>18 DEF UpdateTable, Flash
<1>19. CASE ClearNext
  <2>1. log' = [log EXCEPT ![active] = EraseStarting(@, free, geo.hdr)] /\ UNCHANGED <<master, reserve>>
    BY <1>19 DEF ClearNext
  <2>2. EraseStarting(log[active], free, geo.hdr) \in [Units -> Contents]
    BY <1>0, <1>l, EraseKeeps
  <2> QED BY <1>l, <2>1, <2>2 DEF Flash
<1>20. CASE SetReturns
  BY <1>l, <1>20 DEF SetReturns, Flash
<1>21. CASE ReserveRefused
  BY <1>l, <1>21 DEF ReserveRefused, Flash
<1>22. CASE ReserveData
  BY <1>l, <1>22 DEF ReserveData, Flash
<1>23. CASE ReserveTrailer
  BY <1>l, <1>23 DEF ReserveTrailer, Flash
<1>24. CASE ResetFirst
  <2>1. EraseHead({0})
    BY <1>24 DEF ResetFirst
  <2> QED BY <2>1, <1>0, HeadTyped
<1>25. CASE ResetSecond
  <2>1. EraseHead({1})
    BY <1>25 DEF ResetSecond
  <2> QED BY <2>1, <1>0, HeadTyped
<1>26. CASE WriteFails
  <2>1. Program(active, free, IF pc = "data" THEN geo.hdr ELSE 0, Torn) /\ UNCHANGED <<master, reserve>>
    BY <1>26 DEF WriteFails
  <2>2. (IF pc = "data" THEN geo.hdr ELSE 0) \in Nat
    BY <1>0
  <2>3. log' \in [Areas -> [Units -> Contents]]
    BY <2>1, <2>2, <1>0, ProgramTyped
  <2> QED BY <1>l, <2>1, <2>3 DEF Flash
<1>27. CASE Abandon
  BY <1>l, <1>27 DEF Abandon, Flash
<1>28. CASE ReserveFails
  BY <1>l, <1>28 DEF ReserveFails, Flash
<1>29. CASE PowerLoss
  BY <1>l, <1>29 DEF PowerLoss, Flash
<1>30. ASSUME NEW c \in Calls, Begin(c) PROVE Flash
  BY <1>l, <1>30 DEF Begin, Flash
<1>31. CASE UNCHANGED vars
  BY <1>l, <1>31 DEF vars, Flash
<1> QED BY <1>1, <1>2, <1>3, <1>4, <1>5, <1>6, <1>7, <1>8, <1>9, <1>10, <1>11, <1>12, <1>13, <1>14, <1>15, <1>16, <1>17, <1>18, <1>19, <1>20, <1>21, <1>22, <1>23, <1>24, <1>25, <1>26, <1>27, <1>28, <1>29, <1>30, <1>31 DEF Normal

\* The variables other than the flash, the offsets and the RAM table.
Scalars(act, ver, op, com, ind, cl, res, flt, p, r, m, rs) ==
  /\ act \in Areas /\ ver \in 0 .. VersionMod - 1 /\ op \in BOOLEAN /\ com \in BOOLEAN
  /\ ind \in Nat /\ cl \in Calls \cup {Idle} /\ res \in {"none", "ok", "error"}
  /\ flt \in 0 .. geo.limit /\ p \in Pcs /\ r \in Rets
  /\ m \in [Keys -> Values \cup {None}] /\ rs \in BOOLEAN

\* Every step leaves scalars of the right type.
LEMMA ScalarStep ==
  ASSUME Types, CallInv, [Normal]_vars
  PROVE  Scalars(active', version', open', committed', gcInd', call', result', faults', pc', ret', kv', reserved')
<1> USE DEF ramVars, gcVars, apiVars, Scalars
<1>0. Scalars(active, version, open, committed, gcInd, call, result, faults, pc, ret, kv, reserved)
  BY DEF Types, TypeOK
<1>a. 0 \in Areas /\ 1 \in 0 .. VersionMod - 1 /\ 0 \in 0 .. VersionMod - 1 /\ 1 - active \in Areas
  BY <1>0, CountAssumption DEF Areas
<1>p. /\ \A p \in {"off", "halted", "init", "ready", "master", "gcReset", "open", "start", "room", "update",
                  "clear", "return", "reserve", "trailer", "reset", "resetSecond",
                  "gc", "gcReserve", "gcCopy", "data", "header", "finalize"} : p \in Pcs
      /\ \A r \in {"none", "booted", "reset", "init", "start", "room", "failed"} : r \in Rets
  BY DEF Pcs, Rets, Collecting, Writing
<1>k. [k \in Keys |-> None] \in [Keys -> Values \cup {None}]
  OBVIOUS
<1>f. ASSUME NEW f, Fault(f) PROVE faults' \in 0 .. geo.limit
  BY <1>0, <1>f, GeometryAssumption, TypeFacts DEF Fault
<1>1. CASE InitEmpty
  BY <1>0, <1>a, <1>p, <1>k, <1>1 DEF InitEmpty
<1>2. CASE InitScan
  <2>1. ChooseArea \in Areas /\ Valid(ChooseArea)
    <3>1. Valid(0) \/ Valid(1)
      BY <1>2 DEF InitScan
    <3>2. CASE Valid(0) /\ Valid(1)
      BY <3>2 DEF ChooseArea, Areas
    <3>3. CASE ~Valid(0) /\ Valid(1)
      BY <3>3 DEF ChooseArea, Areas
    <3>4. CASE Valid(0) /\ ~Valid(1)
      BY <3>4 DEF ChooseArea, Areas
    <3> QED BY <3>1, <3>2, <3>3, <3>4
  <2>2. active' \in Areas /\ version' \in 0 .. VersionMod - 1
    BY <1>2, <2>1 DEF InitScan, Valid
  <2>3. pc' \in {"halted", "gc", "ready"} /\ ret' \in {"init", "none"} /\ open' = FALSE
        /\ UNCHANGED <<committed, gcInd, call, result, faults, kv, reserved>>
    BY <1>2 DEF InitScan
  <2> QED BY <1>0, <1>p, <2>2, <2>3
<1>3. CASE InitAbort
  BY <1>0, <1>a, <1>p, <1>k, <1>3 DEF InitAbort
<1>4. CASE GcErase
  BY <1>0, <1>a, <1>p, <1>k, <1>4 DEF GcErase
<1>5. CASE GcReserve
  BY <1>0, <1>a, <1>p, <1>k, <1>5 DEF GcReserve
<1>6. CASE GcCopy
  BY <1>0, <1>a, <1>p, <1>k, <1>6 DEF GcCopy, CopyNext
<1>7. CASE GcSwitch
  <2>1. version' \in 0 .. VersionMod - 1
    BY <1>0, <1>7, CountAssumption DEF GcSwitch
  <2> QED BY <1>0, <1>a, <1>p, <1>7, <2>1 DEF GcSwitch
<1>8. CASE MasterTorn
  BY <1>0, <1>a, <1>p, <1>k, <1>8 DEF MasterTorn
<1>9. CASE MasterDone
  BY <1>0, <1>a, <1>p, <1>k, <1>9 DEF MasterDone, Reply
<1>10. CASE GcReset
  BY <1>0, <1>a, <1>p, <1>k, <1>10 DEF GcReset, Reply
<1>11. CASE StartAbandoned
  BY <1>0, <1>a, <1>p, <1>k, <1>11 DEF StartAbandoned
<1>12. CASE StartRoom
  BY <1>0, <1>a, <1>p, <1>k, <1>12 DEF StartRoom
<1>13. CASE StartRefused
  BY <1>0, <1>a, <1>p, <1>k, <1>13 DEF StartRefused, Reply
<1>14. CASE StartErase
  BY <1>0, <1>a, <1>p, <1>k, <1>14 DEF StartErase
<1>15. CASE AddData
  BY <1>0, <1>a, <1>p, <1>k, <1>15 DEF AddData
<1>16. CASE HeaderTorn
  BY <1>0, <1>a, <1>p, <1>k, <1>16 DEF HeaderTorn
<1>17. CASE Finalize
  <2>1. call[1] \in {"set", "remove"}
    BY <1>17 DEF Finalize, CallInv, Writing
  <2>2. call[2] \in Keys /\ Record[2] \in Values \cup {None}
    BY <1>0, <2>1, CallShape
  <2>3. [kv EXCEPT ![call[2]] = Record[2]] \in [Keys -> Values \cup {None}]
    BY <1>0, <2>2
  <2>4. kv' \in [Keys -> Values \cup {None}]
    BY <1>0, <1>17, <2>3 DEF Finalize
  <2>5. /\ committed' \in BOOLEAN /\ pc' \in {"update", "gc"} /\ ret' \in {"none", "failed"}
        /\ UNCHANGED <<active, version, open, gcInd, call, result, reserved, faults>>
    BY <1>17 DEF Finalize
  <2> QED BY <1>0, <1>p, <2>4, <2>5
<1>18. CASE UpdateTable
  BY <1>0, <1>a, <1>p, <1>k, <1>18 DEF UpdateTable
<1>19. CASE ClearNext
  BY <1>0, <1>a, <1>p, <1>k, <1>19 DEF ClearNext
<1>20. CASE SetReturns
  BY <1>0, <1>a, <1>p, <1>k, <1>20 DEF SetReturns, Reply
<1>21. CASE ReserveRefused
  BY <1>0, <1>a, <1>p, <1>k, <1>21 DEF ReserveRefused, Reply
<1>22. CASE ReserveData
  BY <1>0, <1>a, <1>p, <1>k, <1>22 DEF ReserveData
<1>23. CASE ReserveTrailer
  BY <1>0, <1>a, <1>p, <1>k, <1>23 DEF ReserveTrailer
<1>24. CASE ResetFirst
  BY <1>0, <1>a, <1>p, <1>k, <1>24 DEF ResetFirst, Cleared
<1>25. CASE ResetSecond
  BY <1>0, <1>a, <1>p, <1>k, <1>25 DEF ResetSecond, Cleared
<1>26. CASE WriteFails
  BY <1>0, <1>a, <1>p, <1>f, <1>k, <1>26 DEF WriteFails
<1>27. CASE Abandon
  BY <1>0, <1>a, <1>p, <1>f, <1>k, <1>27 DEF Abandon, Reply
<1>28. CASE ReserveFails
  BY <1>0, <1>a, <1>p, <1>f, <1>k, <1>28 DEF ReserveFails, Reply
<1>29. CASE PowerLoss
  BY <1>0, <1>a, <1>p, <1>f, <1>k, <1>29 DEF PowerLoss
<1>30. ASSUME NEW c \in Calls, Begin(c)
       PROVE  Scalars(active', version', open', committed', gcInd', call', result', faults', pc', ret', kv', reserved')
  <2>1. c[1] \in {"set", "remove", "reserve", "reset"}
    <3>1. c[1] # "idle"
      BY DEF Calls
    <3> QED BY <3>1, CallKinds
  <2> QED BY <1>0, <1>p, <1>30, <2>1 DEF Begin
<1>31. CASE UNCHANGED vars
  BY <1>0, <1>31 DEF vars
<1> QED BY <1>1, <1>2, <1>3, <1>4, <1>5, <1>6, <1>7, <1>8, <1>9, <1>10, <1>11, <1>12, <1>13, <1>14, <1>15, <1>16, <1>17, <1>18, <1>19, <1>20, <1>21, <1>22, <1>23, <1>24, <1>25, <1>26, <1>27, <1>28, <1>29, <1>30, <1>31 DEF Normal

\* The RAM table.
LEMMA TableStep ==
  ASSUME Types, CallInv, RangeInv, NamedInv, [Normal]_vars
  PROVE  table' \in Seq(Entry) /\ Sorted(table')
<1> DEFINE E == Entry
<1>0. geo \in Geometries /\ table \in Seq(E) /\ Len(table) \in Nat /\ Sorted(table)
  BY TypeFacts DEF NamedInv
<1>1. CASE table' = <<>>
  <2>1. <<>> \in Seq(E) /\ Len(<<>>) = 0
    BY EmptySeq
  <2> QED BY <1>1, <2>1 DEF Sorted
<1>2. CASE InitScan
  <2>1. ChooseArea \in Areas
    BY DEF ChooseArea, Areas
  <2>2. PICK n \in 0 .. MaxRecords : Ends(ChooseArea, n)
    BY <1>0, <2>1, LogEnds
  <2>3. BuildRamTable(ChooseArea) \in Seq(E) /\ Sorted(BuildRamTable(ChooseArea))
    BY <1>0, <2>1, <2>2, TableBuilt, TypeFacts
  <2> QED BY <1>2, <2>3 DEF InitScan
<1>3. CASE GcCopy
  <2>1. /\ table' = [table EXCEPT ![gcInd + 1].at = gcTo] /\ gcInd + 1 \in 1 .. Len(table)
    BY <1>3, TypeFacts DEF GcCopy, CopyNext, Copyable
  <2>2. gcTo \in 0 .. geo.size - 1
    BY <1>0, <1>3, TypeFacts, Geometry DEF GcCopy, Fits
  <2>3. table[gcInd + 1] \in E
    BY <2>1, TypeFacts
  <2> DEFINE e == [table[gcInd + 1] EXCEPT !.at = gcTo]
  <2>4. e \in E /\ e.key = table[gcInd + 1].key
    BY <2>2, <2>3 DEF Entry
  <2>5. table' = [table EXCEPT ![gcInd + 1] = e]
    BY <2>1
  <2> HIDE DEF e, E
  <2>6. table' \in Seq(E) /\ Len(table') = Len(table)
        /\ \A j \in 1 .. Len(table) : table'[j] = IF j = gcInd + 1 THEN e ELSE table[j]
    <3>1. /\ [table EXCEPT ![gcInd + 1] = e] \in Seq(E)
          /\ Len([table EXCEPT ![gcInd + 1] = e]) = Len(table)
          /\ \A j \in 1 .. Len(table) :
               [table EXCEPT ![gcInd + 1] = e][j] = IF j = gcInd + 1 THEN e ELSE table[j]
      BY ONLY <1>0, <2>1, <2>4, ExceptSeq
    <3> QED BY <2>5, <3>1
  <2>7. \A j \in 1 .. Len(table) : table'[j].key = table[j].key
    BY <2>4, <2>6
  <2> QED BY <1>0, <2>6, <2>7 DEF Sorted, E
<1>4. CASE UpdateTable
  <2>1. pc = "update" /\ table' = TableAfter
    BY <1>4 DEF UpdateTable
  <2> QED BY <2>1, UpdateMade DEF Updated
<1>5. CASE table' = table
  BY <1>0, <1>5 DEF Sorted
<1>6. table' = <<>> \/ InitScan \/ GcCopy \/ UpdateTable \/ table' = table
  BY DEF Normal, vars, ramVars, InitEmpty, InitAbort, GcErase, GcReserve, GcSwitch, MasterTorn, MasterDone, GcReset, StartAbandoned, StartRoom, StartRefused, StartErase, AddData, HeaderTorn, Finalize, ClearNext, SetReturns, ReserveRefused, ReserveData, ReserveTrailer, ResetFirst, ResetSecond, WriteFails, Abandon, ReserveFails, PowerLoss, Begin
<1> QED BY <1>1, <1>2, <1>3, <1>4, <1>5, <1>6

\* Every step keeps the types.
LEMMA TypesStep ==
  ASSUME Types, CallInv, RangeInv, NamedInv, Reliable => BootInv, [Normal]_vars
  PROVE  Types'
<1>1. geo' = geo /\ geo \in Geometries /\ geo' \in Geometries /\ Units' = Units /\ Contents' = Contents
      /\ RecSize' = RecSize /\ Assured' /\ Entry' = Entry
  BY GeoKept, Fixed, TypeFacts DEF Types
<1>2. /\ log' \in [Areas -> [Units -> Contents]]
      /\ master' \in [Areas -> {Erased, Torn} \cup 0 .. VersionMod - 1]
      /\ reserve' \in [Areas -> {Erased, Torn, Written}]
  BY FlashTyped DEF Flash
<1>3. Scalars(active', version', open', committed', gcInd', call', result', faults', pc', ret', kv', reserved')
  BY ScalarStep
<1>4. table' \in Seq(Entry)
  BY TableStep
<1>5. InRange(free', table', pc', gcInd', gcTo')
  BY <1>1, RangeStep, RangePrime
<1>6. ASSUME NEW n \in 0 .. MaxRecords
      PROVE  Offset(n + 1) \in First .. geo.size
  <2>1. MaxRecords \in Nat /\ n \in Int /\ n <= MaxRecords
    BY <1>1, Offsets
  <2>2. Offset(n) + RecSize <= geo.size /\ Offset(n + 1) = Offset(n) + RecSize /\ Offset(n + 1) \in Int
    BY <1>1, <2>1, Offsets
  <2>3. Offset(n + 1) >= First
    <3>1. RecSize \in Nat
      BY <1>1, Geometry
    <3>2. n * RecSize >= 0 /\ (n + 1) - 1 = n
      BY <2>1, <3>1
    <3> QED BY <2>1, <3>1, <3>2 DEF Offset, First
  <2> QED BY <1>1, <2>2, <2>3, Geometry DEF First
<1>7. free' \in First .. geo.size
  BY <1>5, <1>6 DEF InRange
<1>8. gcTo' \in First .. geo.size
  <2>1. CASE pc' \in {"gcReserve", "gcCopy"}
    <3>1. gcTo' = Offset(gcInd' + 1) /\ gcInd' <= Len(table') /\ gcInd' \in Nat
      BY <1>3, <1>5, <2>1 DEF InRange, Scalars
    <3>2. Len(table') \in Nat /\ MaxRecords \in Nat /\ \A i \in 1 .. Len(table') : Readable(Offset(i))
      BY <1>1, <1>4, <1>5, LenProperties, Offsets DEF InRange
    <3>3. CASE gcInd' = 0
      BY <1>6, <3>1, <3>2, <3>3
    <3>4. CASE gcInd' # 0
      <4>1. gcInd' \in 1 .. Len(table')
        BY <3>1, <3>2, <3>4
      <4>2. Readable(Offset(gcInd')) /\ gcInd' \in Int /\ Offset(gcInd') \in Int
        BY <1>1, <3>1, <3>2, <4>1, Offsets
      <4>3. Offset(gcInd') + RecSize <= geo.size
        BY <1>1, <4>2, Geometry DEF Readable
      <4>4. gcInd' \in 0 .. MaxRecords
        BY <1>1, <3>1, <3>2, <4>2, <4>3, Offsets
      <4> QED BY <1>6, <3>1, <4>4
    <3> QED BY <3>3, <3>4
  <2>2. CASE pc' \notin {"gcReserve", "gcCopy"}
    <3>1. gcTo' = gcTo \/ gcTo' = First
      BY <2>2 DEF Normal, vars, ramVars, gcVars, InitEmpty, InitScan, InitAbort, GcErase, GcReserve, GcCopy, GcSwitch,
         MasterTorn, MasterDone, GcReset, StartAbandoned, StartRoom, StartRefused, StartErase, AddData,
         HeaderTorn, Finalize, UpdateTable, ClearNext, SetReturns, ReserveRefused, ReserveData,
         ReserveTrailer, ResetFirst, ResetSecond, WriteFails, Abandon, ReserveFails, PowerLoss, Begin
    <3>2. gcTo \in First .. geo.size /\ First \in First .. geo.size
      BY <1>1, TypeFacts, Geometry DEF First
    <3> QED BY <3>1, <3>2
  <2> QED BY <2>1, <2>2
<1>9. table' \in Seq([key : Names, at : Nat]) /\ \A i \in 1 .. Len(table') : table'[i].at < geo.size
  <2>1. Entry \subseteq [key : Names, at : Nat] /\ \A e \in Entry : e.at < geo.size
    <3>1. geo.size \in Nat
      BY <1>1, Geometry
    <3>2. 0 .. geo.size - 1 \subseteq Nat /\ \A o \in 0 .. geo.size - 1 : o < geo.size
      BY <3>1
    <3> QED BY <3>2 DEF Entry
  <2>2. \A i \in 1 .. Len(table') : table'[i] \in Entry
    BY <1>4, ElementOfSeq
  <2>3. table' \in Seq([key : Names, at : Nat])
    <3>1. Len(table') \in Nat /\ table' = [i \in 1 .. Len(table') |-> table'[i]]
      BY <1>4, LenProperties
    <3>2. table' \in [1 .. Len(table') -> [key : Names, at : Nat]]
      BY <2>1, <2>2, <3>1
    <3> QED BY <3>1, <3>2, FunctionIsSeq
  <2> QED BY <2>1, <2>2, <2>3
<1>10. \A a \in Areas : /\ log'[a] \in [Units -> {Erased, Torn} \cup (Records \X (0 .. RecSize))]
                        /\ master'[a] \in {Erased, Torn} \cup 0 .. VersionMod - 1
                        /\ reserve'[a] \in {Erased, Torn, Written}
  BY <1>2 DEF Contents
<1>11. TypeOK'
  <2>1. free' \in Nat /\ gcTo' \in Nat
    BY <1>1, <1>7, <1>8, Geometry DEF First
  <2> QED BY <1>1, <1>3, <1>7, <1>8, <1>9, <1>10, <2>1 DEF TypeOK, Scalars, First
<1> QED BY <1>1, <1>2, <1>3, <1>4, <1>11 DEF Types, Scalars

\* The parts of the invariant that hold on every layout hold at the start.
LEMMA BasicInit ==
  ASSUME Init, Assured
  PROVE  Types /\ CallInv /\ RangeInv /\ EraseInv /\ NamedInv
<1> USE DEF Init
<1>1. geo \in Geometries
  OBVIOUS
<1>2. geo.size \in Nat \ {0} /\ RecSize \in Nat
  BY <1>1, Geometry
<1>3. table \in Seq(Entry) /\ Len(table) = 0 /\ table \in Seq([key : Names, at : Nat])
  BY EmptySeq
<1>4. TypeOK
  <2>1. /\ geo \in Geometries /\ 0 \in Areas /\ First \in First .. geo.size
        /\ 0 \in 0 .. VersionMod - 1 /\ 0 \in 0 .. geo.limit /\ First \in Nat
    BY <1>1, <1>2, CountAssumption, GeometryAssumption DEF Areas, First
  <2>2. \A a \in Areas : /\ log[a] \in [Units -> {Erased, Torn} \cup (Records \X (0 .. RecSize))]
                          /\ master[a] \in {Erased, Torn} \cup 0 .. VersionMod - 1
                          /\ reserve[a] \in {Erased, Torn, Written}
    OBVIOUS
  <2>3. \A i \in 1 .. Len(table) : table[i].at < geo.size
    BY <1>3
  <2>4. {free, gcInd, gcTo} \subseteq Nat /\ {free, gcTo} \subseteq First .. geo.size
    BY <2>1
  <2>5. /\ active \in Areas /\ version \in 0 .. VersionMod - 1
        /\ open \in BOOLEAN /\ committed \in BOOLEAN
        /\ call \in Calls \cup {Idle} /\ result \in {"none", "ok", "error"} /\ faults \in 0 .. geo.limit
    BY <2>1
  <2> QED BY ONLY <1>1, <1>3, <2>2, <2>3, <2>4, <2>5 DEF TypeOK
<1>5. Types
  BY <1>3, <1>4 DEF Types, Contents, Areas, Pcs, Rets
<1>6. CallInv
  BY DEF CallInv, Collecting, Writing, Idle
<1>7. RangeInv
  <2>1. 0 \in 0 .. MaxRecords /\ Offset(0 + 1) = First
    <3>1. MaxRecords \in Nat /\ Offset(1) = First
      BY <1>1, Offsets
    <3> QED BY <3>1
  <2> QED BY <1>3, <2>1 DEF RangeInv, Writing
<1>8. EraseInv
  BY DEF EraseInv, ProgramsErased, Writing
<1>9. NamedInv
  BY <1>3 DEF NamedInv, Sorted
<1> QED BY <1>5, <1>6, <1>7, <1>8, <1>9

-----------------------------------------------------------------------------
(* Erased flash *)

\* EraseInv, of the values before and after a step.
CleanInv(lg, act, f, p, op, to) ==
  /\ p \in {"ready", "open", "start", "room", "clear", "return", "reserve", "trailer"} /\ ~op =>
       Clean(lg[act], f)
  /\ p \in {"start", "room", "clear", "gcReset"} => ~op
  /\ p \in Writing => op
  /\ Assured /\ p = "data" => \A u \in f .. f + RecSize - 1 : lg[act][u] = Erased
  /\ p \in Writing \cup {"update"} => Clean(lg[act], f + RecSize)
  /\ p \in {"gcReserve", "gcCopy"} => Clean(lg[1 - act], to)
  /\ p \in {"master", "gcReset"} => Clean(lg[act], f)
  /\ p = "resetSecond" => Clean(lg[0], First)

\* EraseInv is CleanInv of the values before a step, and of those after it.
LEMMA ErasePrime ==
  ASSUME geo' = geo
  PROVE  /\ EraseInv <=> CleanInv(log, active, free, pc, open, gcTo)
         /\ EraseInv' <=> CleanInv(log', active', free', pc', open', gcTo')
BY Fixed DEF EraseInv, CleanInv, ProgramsErased, Clean, RecSize, Units, First, Writing

\* EraseHead touches the areas it is given only.
LEMMA HeadErased ==
  ASSUME geo \in Geometries, NEW as, EraseHead(as)
  PROVE  \A a \in Areas : /\ a \notin as => log'[a] = log[a]
                          /\ a \in as => Clean(log'[a], First)
<1>1. \A a \in Areas : Clean(EraseStarting(log[a], 0, 1), First)
  BY HeadClean
<1> QED BY <1>1 DEF EraseHead

\* A program touches the record it writes only.
LEMMA Programmed ==
  ASSUME Types, NEW a \in Areas, NEW o \in Nat, NEW from \in Nat, NEW r, Program(a, o, from, r)
  PROVE  /\ \A b \in Areas : b # a => log'[b] = log[b]
         /\ \A u \in Units : u < o + from \/ u >= o + RecSize => log'[a][u] = log[a][u]
         /\ \A u \in Units : u \in o + from .. o + RecSize - 1 =>
              log'[a][u] = IF r = Torn THEN Torn ELSE <<r, u - o>>
<1>1. RecSize \in Nat /\ \A u \in Units : u \in Nat
  BY TypeFacts, Geometry DEF Units
<1>2. /\ log' = [log EXCEPT ![a] = log'[a]]
      /\ \A u \in Units : log'[a][u] = IF u \in o + from .. o + RecSize - 1
                                        THEN IF r = Torn THEN Torn ELSE <<r, u - o>> ELSE log[a][u]
  BY TypeFacts DEF Program
<1>3. \A u \in Units : u < o + from \/ u >= o + RecSize => u \notin o + from .. o + RecSize - 1
  BY <1>1
<1> QED BY <1>2, <1>3, TypeFacts

\* The end of a log is a number.
LEMMA EndIsNumber ==
  ASSUME Types
  PROVE  EndOfLog(ChooseArea) \in Int
<1>1. geo \in Geometries /\ ChooseArea \in Areas
  BY TypeFacts DEF ChooseArea, Areas
<1>2. PICK n \in 0 .. MaxRecords : Ends(ChooseArea, n)
  BY <1>1, LogEnds
<1>3. EndOfLog(ChooseArea) = Offset(n + 1)
  BY <1>1, <1>2, LogHolds DEF LogLaw
<1>4. n + 1 \in Int
  BY <1>1, Offsets
<1> QED BY <1>1, <1>3, <1>4, Offsets

\* What comes behind the log stays clean to the end of its erase unit.
LEMMA EraseStep ==
  ASSUME Types, CallInv, RangeInv, EraseInv, [Normal]_vars
  PROVE  EraseInv'
<1> SUFFICES CleanInv(log', active', free', pc', open', gcTo')
  BY GeoKept, ErasePrime
<1> USE DEF ramVars, gcVars, apiVars, Writing
<1>0. /\ geo \in Geometries /\ active \in Areas /\ 1 - active \in Areas /\ active # 1 - active
      /\ free \in Nat /\ gcTo \in Nat /\ 0 \in Areas /\ 1 \in Areas
  BY TypeFacts DEF Areas
<1>g. /\ RecSize \in Nat /\ RecSize > 1 /\ geo.hdr \in Nat /\ geo.size \in Nat
      /\ \A u \in Units : u \in Nat /\ u < geo.size
  BY <1>0, Geometry DEF Units
<1>e. CleanInv(log, active, free, pc, open, gcTo)
  BY GeoKept, ErasePrime
<1>1. CASE InitEmpty
  <2>1. EraseHead(Areas) /\ active' = 0 /\ free' = First /\ pc' = "master"
    BY <1>1 DEF InitEmpty
  <2>2. Clean(log'[0], First)
    BY <1>0, <2>1, HeadErased
  <2> QED BY <2>1, <2>2 DEF CleanInv
<1>2. CASE InitScan
  <2> DEFINE a == ChooseArea
  <2>1. a \in Areas /\ a \notin {1 - a}
    BY DEF ChooseArea, Areas
  <2>2. EraseHead({1 - a}) /\ active' = a /\ pc' \in {"halted", "gc", "ready"}
    BY <1>2 DEF InitScan
  <2>3. log'[active'] = log[a]
    <3> HIDE DEF a
    <3> QED BY <1>0, <2>1, <2>2, HeadErased
  <2>4. pc' = "ready" => ~(free' < geo.size) \/ ErasedFrom(a, free')
    BY <1>2 DEF InitScan
  <2>5. pc' = "ready" => Clean(log[a], free')
    <3> SUFFICES ASSUME pc' = "ready", NEW u \in Units, u >= free', u \div geo.eu = free' \div geo.eu
                 PROVE  log[a][u] = Erased
      BY DEF Clean
    <3>1. CASE ErasedFrom(a, free')
      BY <3>1 DEF ErasedFrom
    <3>2. CASE ~(free' < geo.size)
      <4>1. free' \in Int
        BY EndIsNumber, <1>2 DEF InitScan
      <4> QED BY <1>g, <3>2, <4>1
    <3> QED BY <2>4, <3>1, <3>2
  <2> QED BY <2>2, <2>3, <2>5 DEF CleanInv
<1>3. CASE InitAbort
  BY <1>e, <1>3 DEF CleanInv, InitAbort
<1>4. CASE GcErase
  <2>1. EraseHead({1 - active}) /\ gcTo' = First /\ active' = active /\ pc' \in {"gcReserve", "gcCopy"}
    BY <1>4 DEF GcErase
  <2>2. Clean(log'[1 - active], First)
    BY <1>0, <2>1, HeadErased
  <2> QED BY <2>1, <2>2 DEF CleanInv
<1>5. CASE GcReserve
  BY <1>e, <1>5 DEF CleanInv, GcReserve
<1>6. CASE GcCopy
  <2> DEFINE b == 1 - active
             to == EraseStarting(log[b], gcTo, RecSize)
             new == [u \in Units |-> IF u \in gcTo .. gcTo + RecSize - 1
                                     THEN Source(table[gcInd + 1].at, u - gcTo) ELSE to[u]]
  <2>1. log' = [log EXCEPT ![b] = new] /\ gcTo' = gcTo + RecSize /\ active' = active
        /\ pc' = "gcCopy" /\ pc = "gcCopy"
    BY <1>6 DEF GcCopy, CopyNext, Copied
  <2>2. Clean(log[b], gcTo)
    BY <1>e, <2>1 DEF CleanInv
  <2>3. Clean(to, gcTo + RecSize)
    BY <1>0, <1>g, <2>2, EraseGrows
  <2>4. \A u \in Units : u >= gcTo + RecSize => new[u] = to[u]
    <3> HIDE DEF to
    <3>1. \A u \in Units : u >= gcTo + RecSize => u \notin gcTo .. gcTo + RecSize - 1
      BY <1>0, <1>g
    <3> QED BY <3>1
  <2>5. Clean(new, gcTo + RecSize)
    BY <2>3, <2>4 DEF Clean
  <2>6. log'[b] = new
    <3> HIDE DEF new
    <3> QED BY <1>0, <2>1, TypeFacts
  <2> QED BY <2>1, <2>5, <2>6 DEF CleanInv
<1>7. CASE GcSwitch
  <2>1. /\ pc = "gcCopy" /\ pc' = "master" /\ free' = gcTo /\ active' = 1 - active /\ log' = log
    BY <1>7 DEF GcSwitch
  <2> QED BY <1>e, <2>1 DEF CleanInv
<1>8. CASE MasterTorn
  BY <1>e, <1>8 DEF CleanInv, MasterTorn
<1>9. CASE MasterDone
  BY <1>e, <1>9 DEF CleanInv, MasterDone, Reply
<1>10. CASE GcReset
  <2>1. /\ pc = "gcReset" /\ EraseHead({1 - active}) /\ UNCHANGED <<active, free, open>>
        /\ pc' \in {"init", "start", "room", "ready"}
    BY <1>10 DEF GcReset, Reply
  <2>2. log'[active] = log[active]
    BY <1>0, <2>1, HeadErased
  <2> QED BY <1>e, <2>1, <2>2 DEF CleanInv
<1>11. CASE StartAbandoned
  BY <1>e, <1>11 DEF CleanInv, StartAbandoned
<1>12. CASE StartRoom
  BY <1>e, <1>12 DEF CleanInv, StartRoom
<1>13. CASE StartRefused
  BY <1>e, <1>13 DEF CleanInv, StartRefused, Reply
<1>14. CASE StartErase
  <2>1. /\ pc = "room" /\ pc' = "data" /\ open' = TRUE /\ UNCHANGED <<active, free>>
        /\ log' = [log EXCEPT ![active] = EraseStarting(@, free, RecSize)]
        /\ ~(free + RecSize > geo.size)
    BY <1>14 DEF StartErase, Refused
  <2>2. Clean(log[active], free)
    BY <1>e, <2>1 DEF CleanInv
  <2>3. log'[active] = EraseStarting(log[active], free, RecSize)
    BY <1>0, <2>1, TypeFacts
  <2>4. /\ \A u \in Units : u \in free .. free + RecSize - 1 => log'[active][u] = Erased
        /\ Clean(log'[active], free + RecSize)
    <3> DEFINE x == log[active]
    <3>1. /\ \A u \in Units : u \in free .. free + RecSize - 1 => EraseStarting(x, free, RecSize)[u] = Erased
          /\ Clean(EraseStarting(x, free, RecSize), free + RecSize)
      <4> HIDE DEF x
      <4> QED BY <1>0, <1>g, <2>2, EraseGrows DEF x
    <3> QED BY <2>3, <3>1
  <2>5. \A u \in free .. free + RecSize - 1 : u \in Units
    <3>1. free >= 1
      BY TypeFacts
    <3> QED BY <1>0, <1>g, <2>1, <3>1 DEF Units
  <2> QED BY <2>1, <2>4, <2>5 DEF CleanInv
<1>15. CASE AddData
  <2>1. /\ pc \in Writing /\ Program(active, free, geo.hdr, Torn) /\ UNCHANGED <<active, free, open>>
        /\ pc' \in {"header"}
    BY <1>15 DEF AddData
  <2>2. Clean(log[active], free + RecSize) /\ open
    BY <1>e, <2>1 DEF CleanInv
  <2>3. \A u \in Units : u >= free + RecSize => log'[active][u] = log[active][u]
    BY <1>0, <1>g, <2>1, Programmed
  <2>4. Clean(log'[active], free + RecSize)
    BY <2>2, <2>3 DEF Clean
  <2> QED BY <2>1, <2>2, <2>4 DEF CleanInv
<1>16. CASE HeaderTorn
  <2>1. /\ pc \in Writing /\ Program(active, free, 0, Torn) /\ UNCHANGED <<active, free, open>>
        /\ pc' \in {"finalize"}
    BY <1>16 DEF HeaderTorn
  <2>2. Clean(log[active], free + RecSize) /\ open
    BY <1>e, <2>1 DEF CleanInv
  <2>3. \A u \in Units : u >= free + RecSize => log'[active][u] = log[active][u]
    BY <1>0, <1>g, <2>1, Programmed
  <2>4. Clean(log'[active], free + RecSize)
    BY <2>2, <2>3 DEF Clean
  <2> QED BY <2>1, <2>2, <2>4 DEF CleanInv
<1>17. CASE Finalize
  <2>1. /\ pc \in Writing /\ Program(active, free, 0, Record) /\ UNCHANGED <<active, free, open>>
        /\ pc' \in {"update", "gc"}
    BY <1>17 DEF Finalize
  <2>2. Clean(log[active], free + RecSize) /\ open
    BY <1>e, <2>1 DEF CleanInv
  <2>3. \A u \in Units : u >= free + RecSize => log'[active][u] = log[active][u]
    BY <1>0, <1>g, <2>1, Programmed
  <2>4. Clean(log'[active], free + RecSize)
    BY <2>2, <2>3 DEF Clean
  <2> QED BY <2>1, <2>2, <2>4 DEF CleanInv
<1>18. CASE UpdateTable
  <2>1. /\ pc = "update" /\ pc' \in {"clear", "return"} /\ free' = free + RecSize
        /\ open' = FALSE /\ UNCHANGED <<log, active>>
    BY <1>18 DEF UpdateTable
  <2> QED BY <1>e, <2>1 DEF CleanInv
<1>19. CASE ClearNext
  <2>1. /\ pc = "clear" /\ pc' = "return" /\ UNCHANGED <<active, free, open>>
        /\ log' = [log EXCEPT ![active] = EraseStarting(@, free, geo.hdr)]
    BY <1>19 DEF ClearNext
  <2>2. Clean(log[active], free) /\ ~open
    BY <1>e, <2>1 DEF CleanInv
  <2>3. log'[active] = EraseStarting(log[active], free, geo.hdr)
    BY <1>0, <2>1, TypeFacts
  <2>4. Clean(log'[active], free)
    <3>1. Clean(EraseStarting(log[active], free, geo.hdr), free)
      BY <1>0, <1>g, <2>2, EraseKeeps
    <3> QED BY <2>3, <3>1
  <2> QED BY <2>1, <2>2, <2>4 DEF CleanInv
<1>20. CASE SetReturns
  BY <1>e, <1>20 DEF CleanInv, SetReturns, Reply
<1>21. CASE ReserveRefused
  BY <1>e, <1>21 DEF CleanInv, ReserveRefused, Reply
<1>22. CASE ReserveData
  BY <1>e, <1>22 DEF CleanInv, ReserveData
<1>23. CASE ReserveTrailer
  BY <1>e, <1>23 DEF CleanInv, ReserveTrailer
<1>24. CASE ResetFirst
  <2>1. EraseHead({0}) /\ pc' = "resetSecond"
    BY <1>24 DEF ResetFirst
  <2>2. Clean(log'[0], First)
    BY <1>0, <2>1, HeadErased
  <2> QED BY <2>1, <2>2 DEF CleanInv
<1>25. CASE ResetSecond
  <2>1. pc = "resetSecond" /\ EraseHead({1}) /\ pc' = "master" /\ active' = 0 /\ free' = First
    BY <1>25 DEF ResetSecond
  <2>2. log'[0] = log[0]
    BY <1>0, <2>1, HeadErased
  <2> QED BY <1>e, <2>1, <2>2 DEF CleanInv
<1>26. CASE WriteFails
  BY <1>e, <1>26 DEF CleanInv, WriteFails
<1>27. CASE Abandon
  BY <1>e, <1>27 DEF CleanInv, Abandon, Reply
<1>28. CASE ReserveFails
  BY <1>e, <1>28 DEF CleanInv, ReserveFails, Reply
<1>29. CASE PowerLoss
  BY <1>e, <1>29 DEF CleanInv, PowerLoss
<1>30. ASSUME NEW c \in Calls, Begin(c) PROVE CleanInv(log', active', free', pc', open', gcTo')
  <2>1. c[1] \in {"set", "remove", "reserve", "reset", "idle"}
    BY CallKinds
  <2>2. /\ pc = "ready" /\ pc' \in {"open", "reserve", "reset", "idle"}
        /\ UNCHANGED <<log, active, free, open, gcTo>>
    BY <1>30, <2>1 DEF Begin
  <2> QED BY <1>e, <2>2 DEF CleanInv
<1>31. CASE UNCHANGED vars
  BY <1>e, <1>31 DEF vars
<1> QED BY <1>1, <1>2, <1>3, <1>4, <1>5, <1>6, <1>7, <1>8, <1>9, <1>10, <1>11, <1>12, <1>13, <1>14, <1>15, <1>16, <1>17, <1>18, <1>19, <1>20, <1>21, <1>22, <1>23, <1>24, <1>25, <1>26, <1>27, <1>28, <1>29, <1>30, <1>31 DEF Normal

-----------------------------------------------------------------------------
(* The contents of the RAM table *)

\* RamInv, of the values before and after a step.
PointsAt(lg, p, act, t, ind, m, i) ==
  /\ ReadRecord(lg[IF p = "gcCopy" /\ i <= ind THEN 1 - act ELSE act], t[i].at) = <<t[i].key, m[t[i].key]>>
  /\ m[t[i].key] # None

TableAt(lg, p, act, t, ind, cl, m) ==
  /\ \A i \in 1 .. Len(t) :
       t[i].key \in Keys /\ ~(p = "update" /\ t[i].key = cl[2]) => PointsAt(lg, p, act, t, ind, m, i)
  /\ \A k \in Keys : ~(p = "update" /\ k = cl[2]) /\ m[k] # None => \E i \in 1 .. Len(t) : t[i].key = k

RecordOf(cl) == <<cl[2], IF cl[1] = "set" THEN cl[3] ELSE None>>

RestAt(rs, p, r, act, f, t, cl, m, rd) ==
  /\ p \notin {"off", "halted", "resetSecond"} => (rs[act] = Written <=> rd)
  /\ p = "gcCopy" => (rs[1 - act] = Written <=> rd)
  /\ p = "gcReserve" => rs[act] = Written
  /\ p \in Writing => /\ m[cl[2]] = None \/ cl[2] \notin WriteOnce
                      /\ cl[1] = "remove" => m[cl[2]] # None
  /\ p = "update" => /\ m[cl[2]] = RecordOf(cl)[2]
                     /\ cl[1] = "remove" => \E i \in 1 .. Len(t) : t[i].key = cl[2]
  /\ p = "trailer" => rs[act] # Written
  /\ p = "resetSecond" => rs[0] = Erased /\ (act = 0 => m = [k \in Keys |-> None] /\ ~rd)
  /\ p = "master" /\ r \in {"booted", "reset"} =>
       m = [k \in Keys |-> None] /\ ~rd /\ t = <<>> /\ act = 0 /\ f = First

\* RamInv, of the values before a step and of those after it.
LEMMA RamPrime ==
  ASSUME geo' = geo
  PROVE  /\ RamInv <=> /\ pc \notin {"off", "halted", "resetSecond"} =>
                            TableAt(log, pc, active, table, gcInd, call, kv)
                       /\ RestAt(reserve, pc, ret, active, free, table, call, kv, reserved)
         /\ RamInv' <=> /\ pc' \notin {"off", "halted", "resetSecond"} =>
                             TableAt(log', pc', active', table', gcInd', call', kv')
                        /\ RestAt(reserve', pc', ret', active', free', table', call', kv', reserved')
<1>1. RamInv <=> /\ pc \notin {"off", "halted", "resetSecond"} =>
                      TableAt(log, pc, active, table, gcInd, call, kv)
                 /\ RestAt(reserve, pc, ret, active, free, table, call, kv, reserved)
  BY DEF RamInv, TableInv, Points, AreaOf, Listed, Record, Allowed, Empty, TableAt, PointsAt, RestAt, RecordOf, Writing
<1>2. \A u, o : ReadRecord(u, o)' = ReadRecord(u, o)
  BY DEF ReadRecord, Readable, RecSize
<1>3. TableInv' <=> TableAt(log', pc', active', table', gcInd', call', kv')
  BY <1>2 DEF TableInv, Points, AreaOf, Listed, TableAt, PointsAt, ReadRecord, Readable, RecSize
<1>4. RamInv' <=> /\ pc' \notin {"off", "halted", "resetSecond"} => TableInv'
                  /\ RestAt(reserve', pc', ret', active', free', table', call', kv', reserved')
  BY DEF RamInv, Listed, Record, Allowed, Empty, RestAt, RecordOf, Writing, First
<1> QED BY <1>1, <1>3, <1>4

\* NamedInv, of the values after a step.
NamedAt(lg, p, act, t, ind, i) ==
  \/ t[i] = [key |-> MasterKey, at |-> 0]
  \/ /\ t[i].at \in Units
     /\ ReadRecord(lg[IF p = "gcCopy" /\ i <= ind THEN 1 - act ELSE act], t[i].at) # Torn
     /\ ReadRecord(lg[IF p = "gcCopy" /\ i <= ind THEN 1 - act ELSE act], t[i].at)[1] = t[i].key

LEMMA NamedPrime ==
  ASSUME geo' = geo
  PROVE  /\ \A i : Named(i) <=> NamedAt(log, pc, active, table, gcInd, i)
         /\ NamedInv' <=>
              /\ Sorted(table')
              /\ pc' # "resetSecond" =>
                   \A i \in 1 .. Len(table') : NamedAt(log', pc', active', table', gcInd', i)
              /\ pc' = "update" => ReadRecord(log'[active'], free') = RecordOf(call')
<1>1. \A i : Named(i) <=> NamedAt(log, pc, active, table, gcInd, i)
  BY DEF Named, AreaOf, NamedAt
<1>2. \A i : Named(i)' <=> NamedAt(log', pc', active', table', gcInd', i)
  BY DEF Named, AreaOf, NamedAt, ReadRecord, Readable, RecSize, Units
<1>3. (pc = "update" => ReadRecord(log[active], free) = Record)'
        <=> (pc' = "update" => ReadRecord(log'[active'], free') = RecordOf(call'))
  BY DEF ReadRecord, Readable, RecSize, Record, RecordOf
<1>4. Sorted(table)' <=> Sorted(table')
  BY DEF Sorted
<1> QED BY <1>1, <1>2, <1>3, <1>4 DEF NamedInv

\* Records that lie before o are read as before when the flash before o is left alone.
LEMMA ReadBefore ==
  ASSUME geo \in Geometries, NEW units, NEW vnits, NEW o \in Int,
         \A u \in Units : u < o => units[u] = vnits[u], o <= geo.size,
         NEW p \in Int, p >= 1, p + RecSize <= o
  PROVE  ReadRecord(units, p) = ReadRecord(vnits, p)
<1>1. RecSize \in Nat /\ geo.size \in Nat
  BY Geometry
<1>2. \A u \in p .. p + RecSize - 1 : u \in Units /\ u < o
  BY <1>1 DEF Units
<1> QED BY <1>2, ReadSame

\* A copy of the units of a record is read as the record is.
LEMMA ReadMoved ==
  ASSUME geo \in Geometries, NEW units, NEW vnits, NEW o \in Int, NEW p \in Int,
         Readable(o), Readable(p), \A j \in 0 .. RecSize - 1 : units[o + j] = vnits[p + j]
  PROVE  ReadRecord(units, o) = ReadRecord(vnits, p)
<1>1. 0 \in 0 .. RecSize - 1 /\ o + 0 = o /\ p + 0 = p
  BY Geometry
<1>2. units[o] = vnits[p]
  BY <1>1
<1> QED BY <1>2 DEF ReadRecord

\* The i-th entry of the RAM table keeps its key; it points to the master record as before,
\* or to a record, the one before or a copy of it.
Kept(i) ==
  /\ table'[i].key = table[i].key
  /\ \/ table[i].at = 0 /\ table'[i] = table[i]
     \/ /\ table[i].at = 0 /\ table'[i].at \in Units
        /\ ReadRecord(log'[IF pc' = "gcCopy" /\ i <= gcInd' THEN 1 - active' ELSE active'], table'[i].at)
             = <<MasterKey, Master>>
     \/ /\ table[i].at # 0 /\ table'[i].at \in Units
        /\ ReadRecord(log'[IF pc' = "gcCopy" /\ i <= gcInd' THEN 1 - active' ELSE active'], table'[i].at)
             = ReadRecord(log[AreaOf(i)], table[i].at)

\* The steps that make or drop entries; the others keep them.
Retabling == InitEmpty \/ InitScan \/ UpdateTable \/ ResetFirst \/ ResetSecond \/ PowerLoss

\* What the copy of an entry is.
LEMMA CopyMade ==
  ASSUME Types, RangeInv, GcCopy
  PROVE  /\ pc = "gcCopy" /\ pc' = pc /\ active' = active /\ gcInd' = gcInd + 1
         /\ gcInd + 1 \in 1 .. Len(table) /\ Len(table') = Len(table)
         /\ \A i \in 1 .. Len(table) :
              table'[i] = IF i = gcInd + 1 THEN [key |-> table[i].key, at |-> gcTo] ELSE table[i]
         /\ gcTo = Offset(gcInd + 1) /\ gcTo \in Units /\ Readable(gcTo) /\ gcTo + RecSize <= geo.size
         /\ log'[active] = log[active]
         /\ \A u \in Units : u < gcTo => log'[1 - active][u] = log[1 - active][u]
         /\ \A j \in 0 .. RecSize - 1 : log'[1 - active][gcTo + j] = Source(table[gcInd + 1].at, j)
<1> DEFINE b == 1 - active
           x == gcInd + 1
           to == EraseStarting(log[b], gcTo, RecSize)
<1>0. /\ geo \in Geometries /\ active \in Areas /\ b \in Areas /\ active # b
      /\ gcTo \in Nat /\ gcTo >= 1 /\ gcInd \in Nat /\ Len(table) \in Nat
  BY TypeFacts
<1>g. RecSize \in Nat /\ RecSize > 1 /\ geo.size \in Nat /\ geo.pad \in BOOLEAN /\ \A u \in Units : u \in Nat
  BY <1>0, Geometry DEF Units
<1>1. /\ pc = "gcCopy" /\ pc' = pc /\ active' = active /\ gcInd' = x /\ gcInd < Len(table)
      /\ table' = [table EXCEPT ![x].at = gcTo] /\ log' = [log EXCEPT ![b] = Copied]
      /\ gcTo + RecSize <= geo.size
  BY DEF GcCopy, CopyNext, Copyable, Fits
<1>2. x \in 1 .. Len(table)
  BY <1>0, <1>1
<1>3. /\ Len(table') = Len(table)
      /\ \A i \in 1 .. Len(table) :
           table'[i] = IF i = x THEN [key |-> table[i].key, at |-> gcTo] ELSE table[i]
  <2>1. \A i \in 1 .. Len(table) : table[i] \in Entry
    BY TypeFacts
  <2>2. table \in Seq(Entry)
    BY TypeFacts
  <2>3. [table[x] EXCEPT !.at = gcTo] = [key |-> table[x].key, at |-> gcTo]
    BY <1>2, <2>1 DEF Entry
  <2>4. table' = [table EXCEPT ![x] = [key |-> table[x].key, at |-> gcTo]]
    BY <1>1, <2>3
  <2> HIDE DEF x
  <2> QED BY ONLY <1>2, <2>2, <2>4, LenProperties
<1>4. gcTo = Offset(x) /\ Readable(gcTo)
  BY <1>1, <1>2 DEF RangeInv
<1>5. gcTo \in Units
  BY <1>0, <1>g, <1>1 DEF Units
<1>6. log'[active] = log[active] /\ log'[b] = Copied
  BY <1>0, <1>1, TypeFacts
<1>7. Copied = [u \in Units |-> IF u \in gcTo .. gcTo + RecSize - 1
                                THEN Source(table[x].at, u - gcTo) ELSE to[u]]
  BY DEF Copied
<1>8. ASSUME NEW u \in Units, u < gcTo PROVE Copied[u] = log[b][u]
  <2>0. \A w \in Units : w < gcTo => EraseStarting(log[b], gcTo, RecSize)[w] = log[b][w]
    <3> HIDE DEF b
    <3> QED BY ONLY <1>0, <1>g, EraseBefore
  <2>1. to[u] = log[b][u]
    BY <1>8, <2>0
  <2>2. u \notin gcTo .. gcTo + RecSize - 1
    BY <1>0, <1>g, <1>8
  <2> HIDE DEF to
  <2> QED BY <1>7, <2>1, <2>2
<1>9. ASSUME NEW j \in 0 .. RecSize - 1 PROVE Copied[gcTo + j] = Source(table[x].at, j)
  <2>1. j \in Int /\ 0 <= j /\ j < RecSize
    BY <1>g
  <2>2. gcTo + j \in Units /\ gcTo + j \in gcTo .. gcTo + RecSize - 1 /\ (gcTo + j) - gcTo = j
    <3>1. \A l, m, r, z \in Int : 1 <= l /\ l + r <= z /\ 0 <= m /\ m < r =>
                                  /\ l + m \in 1 .. z - 1 /\ l + m \in l .. l + r - 1
                                  /\ (l + m) - l = m
      OBVIOUS
    <3> QED BY ONLY <1>0, <1>1, <1>g, <2>1, <3>1 DEF Units
  <2> HIDE DEF to
  <2> QED BY <1>7, <2>2
<1> QED BY <1>1, <1>2, <1>3, <1>4, <1>5, <1>6, <1>8, <1>9

\* Every other step keeps the entries.
LEMMA KeptStep ==
  ASSUME Types, CallInv, RangeInv, [Normal]_vars, ~Retabling
  PROVE  Len(table') = Len(table) /\ \A i \in 1 .. Len(table) : Kept(i)
<1> USE DEF ramVars, gcVars, apiVars, Writing
<1>0. /\ geo \in Geometries /\ active \in Areas /\ 1 - active \in Areas /\ active # 1 - active
      /\ free \in Nat /\ free <= geo.size /\ gcTo \in Nat /\ gcInd \in Nat /\ Len(table) \in Nat
  BY TypeFacts
<1>g. /\ RecSize \in Nat /\ RecSize > 1 /\ geo.hdr \in Nat /\ geo.size \in Nat
      /\ \A u \in Units : u \in Nat /\ u < geo.size
  BY <1>0, Geometry DEF Units
<1>t. \A i \in 1 .. Len(table) : /\ table[i].at = 0 \/ table[i].at \in Units
                                 /\ table[i].at \in Int /\ (table[i].at # 0 => table[i].at >= 1)
  <2> SUFFICES ASSUME NEW i \in 1 .. Len(table)
               PROVE  /\ table[i].at = 0 \/ table[i].at \in Units
                      /\ table[i].at \in Int /\ (table[i].at # 0 => table[i].at >= 1)
    OBVIOUS
  <2>1. table[i].at \in Nat /\ table[i].at < geo.size
    BY TypeFacts
  <2> QED BY <1>g, <2>1 DEF Units
<1>s. ASSUME table' = table,
             \A i \in 1 .. Len(table) :
               table[i].at # 0 =>
                 ReadRecord(log'[IF pc' = "gcCopy" /\ i <= gcInd' THEN 1 - active' ELSE active'], table[i].at)
                   = ReadRecord(log[IF pc = "gcCopy" /\ i <= gcInd THEN 1 - active ELSE active], table[i].at)
      PROVE  Len(table') = Len(table) /\ \A i \in 1 .. Len(table) : Kept(i)
  BY <1>s, <1>t DEF Kept, AreaOf
<1>f. ASSUME table' = table, active' = active, pc # "gcCopy", pc' # "gcCopy",
             \A u \in Units : u < free => log'[active][u] = log[active][u]
      PROVE  Len(table') = Len(table) /\ \A i \in 1 .. Len(table) : Kept(i)
  <2> SUFFICES ASSUME NEW i \in 1 .. Len(table), table[i].at # 0
               PROVE  ReadRecord(log'[active], table[i].at) = ReadRecord(log[active], table[i].at)
    BY <1>f, <1>s
  <2>1. table[i].at + RecSize <= free
    BY <1>f DEF RangeInv
  <2>2. table[i].at \in Int /\ table[i].at >= 1
    BY <1>t
  <2> QED BY ONLY <1>0, <1>f, <2>1, <2>2, ReadBefore
<1>u. ASSUME UNCHANGED <<log, table, active>>, pc # "gcCopy", pc' # "gcCopy"
      PROVE  Len(table') = Len(table) /\ \A i \in 1 .. Len(table) : Kept(i)
  BY <1>u, <1>f
<1>p. ASSUME UNCHANGED <<table, active>>, pc \in Writing, pc' # "gcCopy", NEW n \in Nat, NEW r,
             Program(active, free, n, r)
      PROVE  Len(table') = Len(table) /\ \A i \in 1 .. Len(table) : Kept(i)
  <2>1. \A u \in Units : u < free + n => log'[active][u] = log[active][u]
    BY <1>0, <1>p, Programmed
  <2>2. \A u \in Units : u < free => u < free + n
    BY <1>0, <1>g, <1>p
  <2> QED BY <1>f, <1>p, <2>1, <2>2
<1>e. ASSUME UNCHANGED <<table, active>>, pc \notin {"gcCopy"}, pc' # "gcCopy", NEW n \in Nat,
             log' = [log EXCEPT ![active] = EraseStarting(@, free, n)]
      PROVE  Len(table') = Len(table) /\ \A i \in 1 .. Len(table) : Kept(i)
  <2>1. log'[active] = EraseStarting(log[active], free, n)
    BY <1>0, <1>e, TypeFacts
  <2>2. \A u \in Units : u < free => EraseStarting(log[active], free, n)[u] = log[active][u]
    BY ONLY <1>0, <1>e, EraseBefore
  <2> QED BY <1>f, <1>e, <2>1, <2>2
<1>3. CASE InitAbort
  BY <1>u, <1>3 DEF InitAbort
<1>4. CASE GcErase
  <2>1. /\ pc = "gc" /\ EraseHead({1 - active}) /\ gcInd' = 0 /\ UNCHANGED <<active, table>>
    BY <1>4 DEF GcErase
  <2>2. log'[active] = log[active]
    BY <1>0, <2>1, HeadErased
  <2>3. \A i \in 1 .. Len(table) : ~(i <= gcInd')
    BY <1>0, <2>1
  <2> QED BY <1>s, <2>1, <2>2, <2>3
<1>5. CASE GcReserve
  <2>1. /\ pc = "gcReserve" /\ UNCHANGED <<log, active, table, gcInd>>
    BY <1>5 DEF GcReserve
  <2>2. \A i \in 1 .. Len(table) : ~(i <= gcInd)
    <3>1. gcInd = 0
      BY <2>1 DEF RangeInv
    <3> QED BY <1>0, <3>1
  <2> QED BY <1>s, <2>1, <2>2
<1>6. CASE GcCopy
  <2> DEFINE b == 1 - active
             x == gcInd + 1
  <2>1. /\ pc = "gcCopy" /\ pc' = pc /\ active' = active /\ gcInd' = gcInd + 1
        /\ x \in 1 .. Len(table) /\ Len(table') = Len(table)
        /\ \A i \in 1 .. Len(table) :
              table'[i] = IF i = x THEN [key |-> table[i].key, at |-> gcTo] ELSE table[i]
        /\ gcTo = Offset(x) /\ gcTo \in Units /\ Readable(gcTo) /\ gcTo + RecSize <= geo.size
        /\ log'[active] = log[active]
    BY <1>6, CopyMade
  <2>2. /\ \A u \in Units : u < gcTo => log'[b][u] = log[b][u]
        /\ \A j \in 0 .. RecSize - 1 : log'[b][gcTo + j] = Source(table[x].at, j)
    BY <1>6, CopyMade
  <2> HIDE DEF b
  <2>3. ASSUME NEW i \in 1 .. Len(table), i < x PROVE Kept(i)
    <3>1. i <= gcInd /\ i <= gcInd' /\ table'[i] = table[i]
      <4>1. i <= gcInd /\ i <= gcInd + 1 /\ i # gcInd + 1
        BY <1>0, <2>3
      <4>2. gcInd' = gcInd + 1 /\ (i # gcInd + 1 => table'[i] = table[i])
        BY <2>1
      <4> QED BY ONLY <4>1, <4>2
    <3>2. table[i].at = Offset(i)
      BY <2>1, <3>1 DEF RangeInv
    <3>3. Offset(i) + RecSize <= gcTo
      BY <1>0, <2>1, <2>3, Offsets
    <3>4. Offset(i) >= 1 /\ Offset(i) \in Int
      BY <1>0, RecordOffset
    <3>5. ReadRecord(log'[b], table[i].at) = ReadRecord(log[b], table[i].at)
      <4>1. gcTo \in Int /\ gcTo <= geo.size
        BY <1>0, <1>g, <2>1
      <4>2. \A u \in Units : u < gcTo => log'[b][u] = log[b][u]
        BY <2>2
      <4>3. ReadRecord(log'[b], Offset(i)) = ReadRecord(log[b], Offset(i))
        BY ONLY <1>0, <3>3, <3>4, <4>1, <4>2, ReadBefore
      <4> QED BY ONLY <3>2, <4>3
    <3>6. table[i].at # 0 /\ table[i].at \in Units
      BY <1>t, <3>2, <3>4
    <3> QED BY <2>1, <3>1, <3>5, <3>6 DEF Kept, AreaOf, b
  <2>4. Kept(x)
    <3>1. table'[x].at = gcTo /\ table'[x].key = table[x].key /\ x <= gcInd' /\ ~(x <= gcInd)
      <4>1. gcInd' = gcInd + 1 /\ table'[x] = [key |-> table[x].key, at |-> gcTo]
        BY <2>1
      <4>2. x <= gcInd + 1 /\ ~(x <= gcInd)
        BY <1>0
      <4> QED BY ONLY <4>1, <4>2
    <3>2. CASE table[x].at = 0
      <4>1. <<MasterKey, Master>> \in Records
        BY DEF Records, Names
      <4>2. \A j \in 0 .. RecSize - 1 : log'[b][gcTo + j] = <<<<MasterKey, Master>>, j>>
        BY <2>2, <3>2 DEF Source
      <4>3. ReadRecord(log'[b], gcTo) = <<MasterKey, Master>>
        BY ONLY <1>0, <2>1, <4>1, <4>2, ReadIs
      <4> QED BY <2>1, <3>1, <3>2, <4>3 DEF Kept, b
    <3>3. CASE table[x].at # 0
      <4>1. table[x].at \in Int /\ Readable(table[x].at)
        BY <1>t, <2>1 DEF RangeInv
      <4>2. \A j \in 0 .. RecSize - 1 : log'[b][gcTo + j] = log[active][table[x].at + j]
        BY <2>2, <3>3 DEF Source
      <4>3. gcTo \in Int /\ Readable(gcTo) /\ geo \in Geometries
        BY <1>0, <2>1
      <4>4. \A units, vnits, q :
              /\ q \in Int /\ Readable(q)
              /\ \A j \in 0 .. RecSize - 1 : units[gcTo + j] = vnits[q + j]
              => ReadRecord(units, gcTo) = ReadRecord(vnits, q)
        BY ONLY <4>3, ReadMoved
      <4>5. ReadRecord(log'[b], gcTo) = ReadRecord(log[active], table[x].at)
        BY ONLY <4>1, <4>2, <4>4
      <4> QED BY <2>1, <3>1, <3>3, <4>5 DEF Kept, AreaOf, b
    <3> QED BY <3>2, <3>3
  <2>5. ASSUME NEW i \in 1 .. Len(table), i > x PROVE Kept(i)
    <3>1. ~(i <= gcInd) /\ ~(i <= gcInd') /\ table'[i] = table[i]
      <4>1. ~(i <= gcInd) /\ ~(i <= gcInd + 1) /\ i # gcInd + 1
        BY <1>0, <2>5
      <4>2. gcInd' = gcInd + 1 /\ (i # gcInd + 1 => table'[i] = table[i])
        BY <2>1
      <4> QED BY ONLY <4>1, <4>2
    <3> QED BY <1>t, <2>1, <3>1 DEF Kept, AreaOf
  <2>6. \A i \in 1 .. Len(table) : i < x \/ i = x \/ i > x
    BY <1>0
  <2> QED BY <2>1, <2>3, <2>4, <2>5, <2>6
<1>7. CASE GcSwitch
  <2>1. /\ pc = "gcCopy" /\ pc' = "master" /\ active' = 1 - active /\ gcInd = Len(table)
        /\ UNCHANGED <<log, table>>
    BY <1>7 DEF GcSwitch
  <2>2. \A i \in 1 .. Len(table) : i <= gcInd
    BY <1>0, <2>1
  <2> QED BY <1>s, <2>1, <2>2
<1>8. CASE MasterTorn
  BY <1>u, <1>8 DEF MasterTorn
<1>9. CASE MasterDone
  BY <1>u, <1>9 DEF MasterDone, Reply
<1>10. CASE GcReset
  <2>1. /\ pc = "gcReset" /\ EraseHead({1 - active}) /\ UNCHANGED <<active, table>>
        /\ pc' \in {"init", "start", "room", "ready"}
    BY <1>10 DEF GcReset, Reply
  <2>2. log'[active] = log[active]
    BY <1>0, <2>1, HeadErased
  <2> QED BY <1>f, <2>1, <2>2
<1>11. CASE StartAbandoned
  BY <1>u, <1>11 DEF StartAbandoned
<1>12. CASE StartRoom
  BY <1>u, <1>12 DEF StartRoom
<1>13. CASE StartRefused
  BY <1>u, <1>13 DEF StartRefused, Reply
<1>14. CASE StartErase
  <2>1. /\ pc = "room" /\ pc' = "data" /\ UNCHANGED <<active, table>>
        /\ log' = [log EXCEPT ![active] = EraseStarting(@, free, RecSize)]
    BY <1>14 DEF StartErase
  <2> QED BY <1>e, <1>g, <2>1
<1>15. CASE AddData
  BY <1>p, <1>g, <1>15 DEF AddData
<1>16. CASE HeaderTorn
  BY <1>p, <1>16 DEF HeaderTorn
<1>17. CASE Finalize
  <2>1. pc = "finalize" /\ pc' # "gcCopy" /\ Program(active, free, 0, Record) /\ UNCHANGED <<active, table>>
    BY <1>17 DEF Finalize
  <2> QED BY <1>p, <2>1
<1>19. CASE ClearNext
  <2>1. /\ pc = "clear" /\ pc' = "return" /\ UNCHANGED <<active, table>>
        /\ log' = [log EXCEPT ![active] = EraseStarting(@, free, geo.hdr)]
    BY <1>19 DEF ClearNext
  <2> QED BY <1>e, <1>g, <2>1
<1>20. CASE SetReturns
  BY <1>u, <1>20 DEF SetReturns, Reply
<1>21. CASE ReserveRefused
  BY <1>u, <1>21 DEF ReserveRefused, Reply
<1>22. CASE ReserveData
  BY <1>u, <1>22 DEF ReserveData
<1>23. CASE ReserveTrailer
  BY <1>u, <1>23 DEF ReserveTrailer
<1>26. CASE WriteFails
  <2>1. /\ pc \in Writing /\ pc' # "gcCopy" /\ UNCHANGED <<active, table>>
        /\ Program(active, free, IF pc = "data" THEN geo.hdr ELSE 0, Torn)
    BY <1>26 DEF WriteFails
  <2>2. (IF pc = "data" THEN geo.hdr ELSE 0) \in Nat
    BY <1>g
  <2> QED BY <1>p, <2>1, <2>2
<1>27. CASE Abandon
  BY <1>u, <1>27 DEF Abandon, Reply
<1>28. CASE ReserveFails
  BY <1>u, <1>28 DEF ReserveFails, Reply
<1>30. ASSUME NEW c \in Calls, Begin(c)
       PROVE  Len(table') = Len(table) /\ \A i \in 1 .. Len(table) : Kept(i)
  <2>1. c[1] \in {"set", "remove", "reserve", "reset", "idle"}
    BY CallKinds
  <2>2. pc = "ready" /\ pc' # "gcCopy" /\ UNCHANGED <<log, active, table>>
    BY <1>30, <2>1 DEF Begin
  <2> QED BY <1>u, <2>2
<1>31. CASE UNCHANGED vars
  BY <1>s, <1>31 DEF vars
<1> QED BY <1>3, <1>4, <1>5, <1>6, <1>7, <1>8, <1>9, <1>10, <1>11, <1>12, <1>13, <1>14, <1>15, <1>16, <1>17, <1>19, <1>20, <1>21, <1>22, <1>23, <1>26, <1>27, <1>28, <1>30, <1>31 DEF Normal, Retabling

\* Every entry but that of the master record points to a record with its key.
LEMMA NamedStep ==
  ASSUME Types, CallInv, RangeInv, NamedInv, [Normal]_vars
  PROVE  NamedInv'
<1> DEFINE N(i) == NamedAt(log', pc', active', table', gcInd', i)
<1>0. geo \in Geometries /\ active \in Areas /\ free \in Nat /\ free >= 1
  BY TypeFacts
<1>g. RecSize \in Nat /\ geo.size \in Nat /\ geo.pad \in BOOLEAN
  BY <1>0, Geometry
<1>1. Sorted(table')
  BY TableStep
<1>2. ASSUME pc' = "update" PROVE ReadRecord(log'[active'], free') = RecordOf(call')
  <2>1. CASE Finalize
    <3>1. /\ pc = "finalize" /\ Program(active, free, 0, Record) /\ UNCHANGED <<active, free, call>>
          /\ ReadRecord(log'[active], free) # Torn
      BY <1>2, <2>1 DEF Finalize, ramVars
    <3>2. Record \in Records /\ Record = RecordOf(call)
      BY <3>1, CallShape, TypeFacts DEF CallInv, Writing, Record, RecordOf
    <3>3. Readable(free) /\ Torn \notin Records
      BY ONLY <1>0, <3>1, ReadTorn, Contain
    <3>4. ASSUME NEW j \in 0 .. RecSize - 1 PROVE log'[active][free + j] = <<Record, j>>
      <4>1. free + RecSize <= geo.size
        BY <1>0, <1>g, <3>3 DEF Readable
      <4>2. free + j \in Units /\ free + j \in free + 0 .. free + RecSize - 1 /\ (free + j) - free = j
        BY <1>0, <1>g, <4>1 DEF Units
      <4>3. \A u \in Units : u \in free + 0 .. free + RecSize - 1 =>
              log'[active][u] = IF Record = Torn THEN Torn ELSE <<Record, u - free>>
        BY <1>0, <3>1, Programmed
      <4> QED BY <3>2, <3>3, <4>2, <4>3
    <3>5. ReadRecord(log'[active], free) = Record
      BY <1>0, <3>2, <3>3, <3>4, ReadIs
    <3> QED BY <3>1, <3>2, <3>5
  <2>2. CASE UNCHANGED vars
    BY <1>2, <2>2 DEF vars, ramVars, apiVars, NamedInv, Record, RecordOf
  <2>3. Finalize \/ UNCHANGED vars
    <3>1. ASSUME NEW c \in Calls, Begin(c) PROVE pc' # "update"
      <4>1. c[1] \in {"set", "remove", "reserve", "reset", "idle"}
        BY CallKinds
      <4> QED BY <3>1, <4>1 DEF Begin
    <3>2. ~GcReset
      BY <1>2 DEF GcReset, Reply
    <3> QED BY <1>2, <3>1, <3>2 DEF Normal, InitEmpty, InitScan, InitAbort, GcErase, GcReserve, GcCopy, GcSwitch, MasterTorn, MasterDone, StartAbandoned, StartRoom, StartRefused, StartErase, AddData, HeaderTorn, UpdateTable, ClearNext, SetReturns, ReserveRefused, ReserveData, ReserveTrailer, ResetFirst, ResetSecond, WriteFails, Abandon, ReserveFails, PowerLoss, Reply
  <2> QED BY <2>1, <2>2, <2>3
<1>3. ASSUME pc' # "resetSecond", NEW i \in 1 .. Len(table') PROVE N(i)
  <2>1. CASE InitEmpty \/ ResetSecond \/ PowerLoss
    <3>1. table' = <<>>
      BY <2>1 DEF InitEmpty, ResetSecond, PowerLoss
    <3>2. Len(table') = 0
      BY <3>1
    <3> QED BY <1>3, <3>2
  <2>2. CASE InitScan
    <3> DEFINE a == ChooseArea
    <3>1. a \in Areas /\ a \notin {1 - a}
      BY DEF ChooseArea, Areas
    <3>2. EraseHead({1 - a}) /\ active' = a /\ table' = BuildRamTable(a) /\ pc' # "gcCopy"
      BY <2>2 DEF InitScan
    <3> HIDE DEF a
    <3>3. log'[a] = log[a]
      BY <1>0, <3>1, <3>2, HeadErased
    <3>4. PICK n \in 0 .. MaxRecords : Ends(a, n)
      BY <1>0, <3>1, LogEnds
    <3>5. EntryIs(a, n, table'[i])
      BY <1>0, <1>3, <3>1, <3>2, <3>4, TableBuilt, TypeFacts
    <3> QED BY <3>2, <3>3, <3>5 DEF NamedAt, EntryIs
  <2>3. CASE UpdateTable
    <3>1. /\ pc = "update" /\ pc' # "gcCopy" /\ table' = TableAfter /\ UNCHANGED <<log, active>>
      BY <2>3 DEF UpdateTable
    <3>2. Updated(table')
      BY <3>1, UpdateMade
    <3>3. CASE call[1] = "set" /\ table'[i] = [key |-> call[2], at |-> free]
      <4>1. ReadRecord(log[active], free) = Record /\ free \in Units
        BY <3>1, FreeRead DEF NamedInv
      <4>2. Record \in Records /\ Record[1] = call[2]
        BY <3>3, CallShape, TypeFacts DEF Record
      <4>3. Record # Torn
        BY <1>0, <4>2, Contain
      <4> QED BY <3>1, <3>3, <4>1, <4>2, <4>3 DEF NamedAt
    <3>4. ASSUME NEW j \in 1 .. Len(table), table'[i] = table[j] PROVE N(i)
      <4>1. NamedAt(log, pc, active, table, gcInd, j)
        BY <3>1, GeoKept, NamedPrime DEF NamedInv
      <4> QED BY <3>1, <3>4, <4>1 DEF NamedAt
    <3> QED BY <1>3, <3>2, <3>3, <3>4 DEF Updated
  <2>4. CASE ~Retabling
    <3>1. pc # "resetSecond"
      <4>1. pc = "resetSecond" => UNCHANGED vars
        <5>1. pc = "resetSecond" => \A c : ~Begin(c)
          BY DEF Begin
        <5> QED BY <2>4, <5>1 DEF Normal, Retabling, InitAbort, GcErase, GcReserve, GcCopy, GcSwitch, MasterTorn, MasterDone, GcReset, StartAbandoned, StartRoom, StartRefused, StartErase, AddData, HeaderTorn, Finalize, ClearNext, SetReturns, ReserveRefused, ReserveData, ReserveTrailer, WriteFails, Abandon, ReserveFails
      <4> QED BY <1>3, <4>1 DEF vars
    <3>2. Len(table') = Len(table) /\ Kept(i)
      BY <1>3, <2>4, KeptStep
    <3>3. NamedAt(log, pc, active, table, gcInd, i)
      BY <1>3, <3>1, <3>2, GeoKept, NamedPrime DEF NamedInv
    <3>4. CASE table[i].at = 0
      <4>1. table[i] = [key |-> MasterKey, at |-> 0]
        BY <1>g, <3>3, <3>4 DEF NamedAt, Units
      <4>2. <<MasterKey, Master>> \in Records
        BY DEF Records, Names
      <4>3. <<MasterKey, Master>> # Torn /\ <<MasterKey, Master>>[1] = MasterKey
        BY <1>0, <4>2, Contain
      <4> QED BY <3>2, <3>4, <4>1, <4>3 DEF Kept, NamedAt
    <3>5. CASE table[i].at # 0
      BY <3>2, <3>3, <3>5 DEF Kept, NamedAt, AreaOf
    <3> QED BY <3>4, <3>5
  <2>5. ResetFirst => pc' = "resetSecond"
    BY DEF ResetFirst
  <2> QED BY <1>3, <2>1, <2>2, <2>3, <2>4, <2>5 DEF Retabling
<1> QED BY <1>1, <1>2, <1>3, GeoKept, NamedPrime

\* get returns the item.
LEMMA GetIs ==
  ASSUME Types, NamedInv, TableAt(log, pc, active, table, gcInd, call, kv),
         pc \notin {"gcCopy", "update", "resetSecond"}, NEW k \in Keys
  PROVE  Get(k) = kv[k] /\ (Present(k) <=> kv[k] # None)
<1>1. \A i \in 1 .. Len(table) : table[i].key = k =>
        ReadRecord(log[active], table[i].at) = <<k, kv[k]>> /\ kv[k] # None
  BY DEF TableAt, PointsAt
<1>2. Present(k) <=> Listed(k)
  BY Finding
<1>3. CASE Present(k)
  <2>1. /\ Stop(k) \in 1 .. Len(table) /\ table[Stop(k)].key = k
        /\ Found(k) = ReadRecord(log[active], table[Stop(k)].at) /\ Found(k) # Torn
    BY <1>3, Finding
  <2>2. Found(k) = <<k, kv[k]>> /\ kv[k] # None
    BY <1>1, <2>1
  <2> QED BY <1>3, <2>1, <2>2 DEF Get
<1>4. CASE ~Present(k)
  <2>1. kv[k] = None
    BY <1>2, <1>4 DEF TableAt, Listed
  <2> QED BY <1>4, <2>1 DEF Get
<1> QED BY <1>3, <1>4

\* The area a start chooses holds the effect of the calls.
LEMMA BootChoice ==
  ASSUME Recoverable
  PROVE  /\ ChooseArea \in Areas
         /\ Valid(0) \/ Valid(1) => /\ Valid(ChooseArea)
                                    /\ \A k \in Keys : ValueIn(ChooseArea, k) = kv[k]
                                    /\ reserve[ChooseArea] = Written <=> reserved
         /\ ~Valid(0) /\ ~Valid(1) => kv = [k \in Keys |-> None] /\ ~reserved
<1>1. ChooseArea \in Areas
  BY DEF ChooseArea, Areas
<1>2. Valid(0) \/ Valid(1) => Valid(ChooseArea)
  <2>1. CASE Valid(0) /\ Valid(1)
    BY <2>1 DEF ChooseArea, Areas
  <2>2. CASE ~Valid(0) /\ Valid(1)
    BY <2>2 DEF ChooseArea, Areas
  <2>3. CASE Valid(0) /\ ~Valid(1)
    BY <2>3 DEF ChooseArea, Areas
  <2> QED BY <2>1, <2>2, <2>3
<1>3. ~Valid(0) /\ ~Valid(1) => ~Valid(ChooseArea)
  BY <1>1 DEF Areas
<1>4. /\ kv = [k \in Keys |-> IF Valid(ChooseArea) THEN ValueIn(ChooseArea, k) ELSE None]
      /\ reserved = (Valid(ChooseArea) /\ reserve[ChooseArea] = Written)
  BY DEF Recoverable, Recovered, RecoveredReserve
<1>5. Valid(ChooseArea) => /\ \A k \in Keys : ValueIn(ChooseArea, k) = kv[k]
                           /\ reserve[ChooseArea] = Written <=> reserved
  BY <1>4
<1>6. ~Valid(ChooseArea) => kv = [k \in Keys |-> None] /\ ~reserved
  BY <1>4
<1> QED BY <1>1, <1>2, <1>3, <1>5, <1>6

\* The RAM table is kept in step with the items.
LEMMA TableAtStep ==
  ASSUME Types, CallInv, RangeInv, NamedInv, RamInv, BootInv, [Normal]_vars,
         pc' \notin {"off", "halted", "resetSecond"}
  PROVE  TableAt(log', pc', active', table', gcInd', call', kv')
<1> USE DEF ramVars, gcVars, apiVars, Writing
<1>0. geo \in Geometries /\ active \in Areas /\ MasterKey \notin Keys
  BY TypeFacts, KeyAssumption
<1>r. /\ pc \notin {"off", "halted", "resetSecond"} =>
           TableAt(log, pc, active, table, gcInd, call, kv)
      /\ RestAt(reserve, pc, ret, active, free, table, call, kv, reserved)
  BY GeoKept, RamPrime
<1>e. ASSUME table' = <<>>, kv' = [k \in Keys |-> None]
      PROVE  TableAt(log', pc', active', table', gcInd', call', kv')
  <2>1. Len(table') = 0
    BY <1>e
  <2> QED BY <1>e, <2>1 DEF TableAt
<1>k. ASSUME ~Retabling, pc \notin {"off", "halted", "resetSecond"},
             \A k \in Keys : ~(pc' = "update" /\ k = call'[2]) => /\ kv'[k] = kv[k]
                                                                 /\ ~(pc = "update" /\ k = call[2])
      PROVE  TableAt(log', pc', active', table', gcInd', call', kv')
  <2>1. TableAt(log, pc, active, table, gcInd, call, kv)
    BY <1>r, <1>k
  <2>2. Len(table') = Len(table) /\ \A i \in 1 .. Len(table) : Kept(i)
    BY <1>k, KeptStep
  <2>3. ASSUME NEW i \in 1 .. Len(table'), table'[i].key \in Keys, ~(pc' = "update" /\ table'[i].key = call'[2])
        PROVE  PointsAt(log', pc', active', table', gcInd', kv', i)
    <3>1. i \in 1 .. Len(table) /\ Kept(i) /\ table'[i].key = table[i].key
      BY <2>2, <2>3 DEF Kept
    <3>2. table[i].at # 0
      <4>1. Named(i)
        BY <1>k, <3>1 DEF NamedInv
      <4>2. 0 \notin Units
        BY <1>0, Geometry DEF Units
      <4>3. table[i] # [key |-> MasterKey, at |-> 0]
        BY <1>0, <2>3, <3>1
      <4> QED BY <4>1, <4>2, <4>3 DEF Named
    <3>3. PointsAt(log, pc, active, table, gcInd, kv, i) /\ kv'[table[i].key] = kv[table[i].key]
      BY <1>k, <2>1, <2>3, <3>1 DEF TableAt
    <3> QED BY <3>1, <3>2, <3>3 DEF PointsAt, Kept, AreaOf
  <2>4. ASSUME NEW k \in Keys, ~(pc' = "update" /\ k = call'[2]), kv'[k] # None
        PROVE  \E i \in 1 .. Len(table') : table'[i].key = k
    <3>1. kv[k] # None /\ ~(pc = "update" /\ k = call[2])
      BY <1>k, <2>4
    <3>2. PICK i \in 1 .. Len(table) : table[i].key = k
      BY <2>1, <3>1 DEF TableAt
    <3> QED BY <2>2, <3>2 DEF Kept
  <2> QED BY <2>3, <2>4 DEF TableAt
<1>1. CASE InitEmpty
  <2>1. Recoverable /\ ~Valid(0) /\ ~Valid(1) /\ kv' = kv /\ table' = <<>>
    BY <1>1 DEF InitEmpty, BootInv
  <2>2. kv = [k \in Keys |-> None]
    BY <2>1, BootChoice
  <2> QED BY <1>e, <2>1, <2>2
<1>2. CASE InitScan
  <2> DEFINE a == ChooseArea
             t == BuildRamTable(a)
  <2>1. a \in Areas /\ \A k \in Keys : ValueIn(a, k) = kv[k]
    BY <1>2, BootChoice DEF InitScan, BootInv
  <2>2. EraseHead({1 - a}) /\ active' = a /\ pc' \in {"gc", "ready"} /\ table' = t /\ kv' = kv
    BY <1>2 DEF InitScan
  <2> HIDE DEF a
  <2>3. log'[a] = log[a]
    <3>1. a \notin {1 - a}
      BY <2>1 DEF Areas
    <3> QED BY <1>0, <2>1, <2>2, <3>1, HeadErased
  <2>4. PICK n \in 0 .. MaxRecords : Ends(a, n)
    BY <1>0, <2>1, LogEnds
  <2>5. /\ \A i \in 1 .. Len(t) : EntryIs(a, n, t[i])
        /\ \A k \in Keys : ValueIn(a, k) # None => \E i \in 1 .. Len(t) : t[i].key = k
    BY <1>0, <2>1, <2>4, TableBuilt, TypeFacts
  <2> HIDE DEF t
  <2>6. ASSUME NEW i \in 1 .. Len(t), t[i].key \in Keys
        PROVE  ReadRecord(log[a], t[i].at) = <<t[i].key, kv[t[i].key]>> /\ kv[t[i].key] # None
    <3>1. t[i] # [key |-> MasterKey, at |-> 0]
      BY <1>0, <2>6
    <3> QED BY <2>1, <2>5, <2>6, <3>1 DEF EntryIs
  <2> QED BY <2>1, <2>2, <2>3, <2>5, <2>6 DEF TableAt, PointsAt
<1>17. CASE Finalize
  <2>1. /\ pc = "finalize" /\ call' = call /\ pc' = (IF committed' THEN "update" ELSE "gc")
        /\ kv' = (IF committed' THEN [kv EXCEPT ![call[2]] = Record[2]] ELSE kv)
    BY <1>17 DEF Finalize
  <2>2. ASSUME NEW k \in Keys, ~(pc' = "update" /\ k = call'[2]) PROVE kv'[k] = kv[k]
    BY <2>1, <2>2 DEF Types
  <2>3. ~Retabling
    BY <2>1 DEF Retabling, InitEmpty, InitScan, UpdateTable, ResetFirst, ResetSecond, PowerLoss
  <2> QED BY <1>k, <2>1, <2>2, <2>3
<1>18. CASE UpdateTable
  <2>1. /\ pc = "update" /\ table' = TableAfter /\ UNCHANGED <<log, active, kv, call>>
        /\ pc' \in {"clear", "return"}
    BY <1>18 DEF UpdateTable
  <2>2. /\ TableAt(log, pc, active, table, gcInd, call, kv)
        /\ ReadRecord(log[active], free) = RecordOf(call) /\ kv[call[2]] = RecordOf(call)[2]
        /\ call[1] = "remove" => Listed(call[2])
    BY <1>r, <2>1 DEF RestAt, Listed, NamedInv, Record, RecordOf
  <2>3. call[1] \in {"set", "remove"} /\ call \in Calls \cup {Idle} /\ call[2] \in Keys
    BY <2>1, CallKinds, TypeFacts DEF CallInv
  <2>4. Updated(table')
    BY <2>1, UpdateMade
  <2>5. \A i \in 1 .. Len(table') :
          \/ call[1] = "set" /\ table'[i] = [key |-> call[2], at |-> free]
          \/ \E j \in 1 .. Len(table) : table'[i] = table[j] /\ table[j].key # call[2]
    BY <2>2, <2>3, <2>4 DEF Updated
  <2>6. ASSUME NEW i \in 1 .. Len(table'), table'[i].key \in Keys
        PROVE  PointsAt(log', pc', active', table', gcInd', kv', i)
    <3>1. CASE call[1] = "set" /\ table'[i] = [key |-> call[2], at |-> free]
      <4>1. table'[i].key = call[2] /\ table'[i].at = free
        BY <3>1
      <4>2. RecordOf(call) = <<call[2], call[3]>> /\ call[3] \in Values
        BY <2>3, <3>1, CallKinds DEF RecordOf
      <4>3. kv[call[2]] = call[3] /\ call[3] # None
        BY <2>2, <4>2, ValueAssumption
      <4> QED BY <2>1, <2>2, <4>1, <4>2, <4>3 DEF PointsAt
    <3>2. ASSUME NEW j \in 1 .. Len(table), table'[i] = table[j], table[j].key # call[2]
          PROVE  PointsAt(log', pc', active', table', gcInd', kv', i)
      BY <2>1, <2>2, <2>6, <3>2 DEF PointsAt, TableAt
    <3> QED BY <2>5, <3>1, <3>2
  <2>7. ASSUME NEW k \in Keys, kv'[k] # None
        PROVE  \E i \in 1 .. Len(table') : table'[i].key = k
    <3>1. CASE k = call[2]
      <4>1. call[1] = "set"
        <5>1. CASE call[1] = "remove"
          BY <2>1, <2>2, <2>7, <3>1, <5>1 DEF RecordOf
        <5> QED BY <2>3, <5>1
      <4> QED BY <2>4, <3>1, <4>1 DEF Updated
    <3>2. CASE k # call[2]
      <4>1. PICK j \in 1 .. Len(table) : table[j].key = k
        BY <2>1, <2>2, <2>7, <3>2 DEF TableAt
      <4>2. \E i \in 1 .. Len(table') : table'[i] = table[j]
        BY <2>2, <2>3, <2>4, <3>2, <4>1 DEF Updated
      <4> QED BY <4>1, <4>2
    <3> QED BY <3>1, <3>2
  <2> QED BY <2>1, <2>6, <2>7 DEF TableAt
<1>25. CASE ResetSecond
  BY <1>e, <1>25 DEF ResetSecond, Cleared
<1>32. CASE ~Retabling /\ ~Finalize
  <2>1. /\ kv' = kv /\ pc \notin {"off", "halted", "resetSecond"}
        /\ pc = "update" => pc' = "update" /\ call' = call
    BY <1>32 DEF Normal, vars, Retabling, Reply, InitAbort, GcErase, GcReserve, GcCopy, GcSwitch, MasterTorn, MasterDone, GcReset, StartAbandoned, StartRoom, StartRefused, StartErase, AddData, HeaderTorn, ClearNext, SetReturns, ReserveRefused, ReserveData, ReserveTrailer, WriteFails, Abandon, ReserveFails, Begin
  <2> QED BY <1>k, <1>32, <2>1
<1>33. ~ResetFirst /\ ~PowerLoss
  BY DEF ResetFirst, PowerLoss
<1> QED BY <1>1, <1>2, <1>17, <1>18, <1>25, <1>32, <1>33 DEF Retabling

\* The parts of RamInv other than the RAM table are kept.
LEMMA RestStep ==
  ASSUME Types, CallInv, RangeInv, NamedInv, RamInv, BootInv, [Normal]_vars
  PROVE  RestAt(reserve', pc', ret', active', free', table', call', kv', reserved')
<1> USE DEF ramVars, gcVars, apiVars, Writing
<1>0. /\ geo \in Geometries /\ active \in Areas /\ 1 - active \in Areas /\ active # 1 - active
      /\ 0 \in Areas /\ 1 \in Areas /\ active \in {0, 1}
  BY TypeFacts DEF Areas
<1>r. /\ pc \notin {"off", "halted", "resetSecond"} =>
           TableAt(log, pc, active, table, gcInd, call, kv)
      /\ RestAt(reserve, pc, ret, active, free, table, call, kv, reserved)
  BY GeoKept, RamPrime
<1>w. Written # Erased /\ Written # Torn /\ Erased # Torn
  BY ValueAssumption
<1>v. reserve \in [Areas -> {Erased, Torn, Written}]
  BY DEF Types
<1>1. CASE InitEmpty
  <2>1. Recoverable /\ ~Valid(0) /\ ~Valid(1)
    BY <1>1 DEF InitEmpty, BootInv
  <2>2. kv = [k \in Keys |-> None] /\ ~reserved
    BY <2>1, BootChoice
  <2>3. /\ pc' = "master" /\ ret' = "booted" /\ active' = 0 /\ free' = First /\ table' = <<>>
        /\ UNCHANGED <<kv, reserved>> /\ reserve'[0] = Erased
    BY <1>0, <1>1 DEF InitEmpty, EraseHead
  <2> QED BY <1>w, <2>2, <2>3 DEF RestAt
<1>2. CASE InitScan
  <2> DEFINE a == ChooseArea
  <2>1. a \in Areas /\ (reserve[a] = Written <=> reserved) /\ a # 1 - a
    <3>1. a \in Areas /\ (reserve[a] = Written <=> reserved)
      BY <1>2, BootChoice DEF InitScan, BootInv
    <3> HIDE DEF a
    <3> QED BY <3>1 DEF Areas
  <2>2. /\ EraseHead({1 - a}) /\ active' = a /\ pc' \in {"gc", "ready", "halted"} /\ reserved' = reserved
    BY <1>2 DEF InitScan
  <2> HIDE DEF a
  <2>3. reserve'[a] = reserve[a]
    BY <2>1, <2>2 DEF EraseHead
  <2> QED BY <2>1, <2>2, <2>3 DEF RestAt
<1>3. CASE InitAbort
  BY <1>r, <1>3 DEF RestAt, InitAbort
<1>4. CASE GcErase
  <2>1. /\ pc = "gc" /\ EraseHead({1 - active}) /\ UNCHANGED <<active, reserved>>
        /\ pc' = IF reserve[active] = Written THEN "gcReserve" ELSE "gcCopy"
    BY <1>4 DEF GcErase
  <2>2. reserve'[active] = reserve[active] /\ reserve'[1 - active] = Erased
    BY <1>0, <2>1 DEF EraseHead
  <2>3. reserve[active] = Written <=> reserved
    BY <1>r, <2>1 DEF RestAt
  <2> QED BY <1>w, <2>1, <2>2, <2>3 DEF RestAt
<1>5. CASE GcReserve
  <2>1. /\ pc = "gcReserve" /\ pc' = "gcCopy" /\ UNCHANGED <<active, reserved>>
        /\ reserve' = [reserve EXCEPT ![1 - active] = reserve[active]]
    BY <1>5 DEF GcReserve
  <2>2. reserve'[active] = reserve[active] /\ reserve'[1 - active] = reserve[active]
    BY <1>0, <1>v, <2>1
  <2> QED BY <1>r, <2>1, <2>2 DEF RestAt
<1>6. CASE GcCopy
  BY <1>r, <1>6 DEF RestAt, GcCopy
<1>7. CASE GcSwitch
  <2>1. /\ pc = "gcCopy" /\ pc' = "master" /\ active' = 1 - active /\ UNCHANGED <<reserve, reserved, ret>>
        /\ ret \notin {"booted", "reset"}
    BY <1>7 DEF GcSwitch, CallInv, Collecting
  <2> QED BY <1>r, <2>1 DEF RestAt
<1>8. CASE MasterTorn
  BY <1>r, <1>8 DEF RestAt, MasterTorn
<1>9. CASE MasterDone
  BY <1>r, <1>9 DEF RestAt, MasterDone, Reply
<1>10. CASE GcReset
  <2>1. /\ pc = "gcReset" /\ EraseHead({1 - active}) /\ UNCHANGED <<active, reserved>>
        /\ pc' \in {"init", "start", "room", "ready"}
    BY <1>10 DEF GcReset, Reply
  <2>2. reserve'[active] = reserve[active]
    BY <1>0, <2>1 DEF EraseHead
  <2> QED BY <1>r, <2>1, <2>2 DEF RestAt
<1>11. CASE StartAbandoned
  BY <1>r, <1>11 DEF RestAt, StartAbandoned
<1>12. CASE StartRoom
  BY <1>r, <1>12 DEF RestAt, StartRoom
<1>13. CASE StartRefused
  BY <1>r, <1>13 DEF RestAt, StartRefused, Reply
<1>14. CASE StartErase
  <2>1. /\ pc = "room" /\ pc' = "data" /\ ~Refused /\ UNCHANGED <<active, reserve, kv, reserved, call>>
    BY <1>14 DEF StartErase
  <2>2. call[1] \in {"set", "remove"} /\ call[2] \in Keys
    BY <2>1, CallKinds, TypeFacts DEF CallInv
  <2>3. Present(call[2]) <=> kv[call[2]] # None
    BY <1>r, <2>1, <2>2, GetIs
  <2>4. ~(kv[call[2]] # None /\ call[2] \in WriteOnce) /\ ~(kv[call[2]] = None /\ call[1] = "remove")
    BY <2>1, <2>3 DEF Refused
  <2> QED BY <1>r, <2>1, <2>4 DEF RestAt
<1>15. CASE AddData
  BY <1>r, <1>15 DEF RestAt, AddData
<1>16. CASE HeaderTorn
  BY <1>r, <1>16 DEF RestAt, HeaderTorn
<1>17. CASE Finalize
  <2>1. /\ pc = "finalize" /\ Program(active, free, 0, Record) /\ UNCHANGED <<active, free, table, call, reserve, reserved>>
        /\ pc' = IF committed' THEN "update" ELSE "gc"
        /\ committed' = (ReadRecord(log'[active], free) # Torn)
        /\ kv' = IF committed' THEN [kv EXCEPT ![call[2]] = Record[2]] ELSE kv
    BY <1>17 DEF Finalize
  <2>2. call[1] \in {"set", "remove"} /\ call[2] \in Keys /\ Record \in Records
    BY <2>1, CallKinds, CallShape, TypeFacts DEF CallInv
  <2>3. CASE ~committed'
    <3>1. pc' = "gc"
      BY <2>1, <2>3
    <3> QED BY <1>r, <2>1, <3>1 DEF RestAt
  <2>4. CASE committed'
    <3>3. kv'[call[2]] = Record[2]
      BY <2>1, <2>2, <2>4 DEF Types
    <3>4. call[1] = "remove" => \E i \in 1 .. Len(table) : table[i].key = call[2]
      BY <1>r, <2>1, <2>2 DEF RestAt, TableAt
    <3>5. pc' = "update" /\ RecordOf(call) = Record
      BY <2>1, <2>4 DEF RecordOf, Record
    <3> QED BY <1>r, <2>1, <3>3, <3>4, <3>5 DEF RestAt
  <2>5. committed' \/ ~committed'
    OBVIOUS
  <2> QED BY <2>3, <2>4, <2>5
<1>18. CASE UpdateTable
  BY <1>r, <1>18 DEF RestAt, UpdateTable
<1>19. CASE ClearNext
  BY <1>r, <1>19 DEF RestAt, ClearNext
<1>20. CASE SetReturns
  BY <1>r, <1>20 DEF RestAt, SetReturns, Reply
<1>21. CASE ReserveRefused
  BY <1>r, <1>21 DEF RestAt, ReserveRefused, Reply
<1>22. CASE ReserveData
  <2>1. /\ pc = "reserve" /\ pc' = "trailer" /\ reserve[active] = Erased /\ UNCHANGED <<active, reserved>>
        /\ reserve' = [reserve EXCEPT ![active] = Torn]
    BY <1>22 DEF ReserveData
  <2>2. reserve'[active] = Torn
    BY <1>0, <1>v, <2>1
  <2> QED BY <1>r, <1>w, <2>1, <2>2 DEF RestAt
<1>23. CASE ReserveTrailer
  <2>1. /\ pc' = "return" /\ active' = active /\ reserved' = TRUE
        /\ reserve' = [reserve EXCEPT ![active] = Written]
    BY <1>23 DEF ReserveTrailer
  <2>2. reserve'[active] = Written
    BY <1>0, <1>v, <2>1
  <2> QED BY <2>1, <2>2 DEF RestAt
<1>24. CASE ResetFirst
  <2>1. /\ pc' = "resetSecond" /\ EraseHead({0}) /\ active' = active
        /\ active = 0 => kv' = [k \in Keys |-> None] /\ ~reserved'
    BY <1>24 DEF ResetFirst, Cleared
  <2>2. reserve'[0] = Erased
    BY <1>0, <2>1 DEF EraseHead
  <2> QED BY <2>1, <2>2 DEF RestAt
<1>25. CASE ResetSecond
  <2>1. /\ pc = "resetSecond" /\ pc' = "master" /\ EraseHead({1}) /\ active' = 0
        /\ kv' = [k \in Keys |-> None] /\ ~reserved' /\ free' = First /\ table' = <<>>
    BY <1>25 DEF ResetSecond, Cleared
  <2>2. reserve'[0] = reserve[0] /\ reserve[0] = Erased
    BY <1>0, <1>r, <2>1 DEF EraseHead, RestAt
  <2> QED BY <1>w, <2>1, <2>2 DEF RestAt
<1>26. CASE WriteFails
  BY <1>r, <1>26 DEF RestAt, WriteFails
<1>27. CASE Abandon
  BY <1>r, <1>27 DEF RestAt, Abandon, Reply
<1>28. CASE ReserveFails
  BY <1>r, <1>28 DEF RestAt, ReserveFails, Reply
<1>29. CASE PowerLoss
  BY <1>r, <1>29 DEF RestAt, PowerLoss
<1>30. ASSUME NEW c \in Calls, Begin(c) PROVE RestAt(reserve', pc', ret', active', free', table', call', kv', reserved')
  <2>1. c[1] \in {"set", "remove", "reserve", "reset"}
    <3>1. c[1] # "idle"
      BY DEF Calls
    <3> QED BY <3>1, CallKinds
  <2>2. /\ pc = "ready" /\ pc' \in {"open", "reserve", "reset"}
        /\ UNCHANGED <<reserve, active, reserved>>
    BY <1>30, <2>1 DEF Begin
  <2> QED BY <1>r, <2>2 DEF RestAt
<1>31. CASE UNCHANGED vars
  BY <1>r, <1>31 DEF vars
<1> QED BY <1>1, <1>2, <1>3, <1>4, <1>5, <1>6, <1>7, <1>8, <1>9, <1>10, <1>11, <1>12, <1>13, <1>14, <1>15, <1>16, <1>17, <1>18, <1>19, <1>20, <1>21, <1>22, <1>23, <1>24, <1>25, <1>26, <1>27, <1>28, <1>29, <1>30, <1>31 DEF Normal

\* The RAM table and the reserved data agree with the calls so far after every step.
LEMMA RamStep ==
  ASSUME Types, CallInv, RangeInv, NamedInv, RamInv, BootInv, [Normal]_vars
  PROVE  RamInv'
BY GeoKept, RamPrime, RestStep, TableAtStep

-----------------------------------------------------------------------------
(* The contents of the flash *)

\* FlashInv after a step is FlashAt of the values after it.
LEMMA FlashPrime ==
  ASSUME geo' = geo
  PROVE  FlashInv' <=> FlashAt(log', master', reserve', pc', ret', active', free', gcInd', kv', reserved')
<1>1. \A units, i : RecordIn(units, i)' = RecordIn(units, i)
  BY DEF RecordIn, ReadRecord, Readable, Offset, First, RecSize
<1>2. \A i : Offset(i)' = Offset(i)
  BY DEF Offset, First, RecSize
<1>3. MaxRecords' = MaxRecords /\ RecSize' = RecSize
  BY DEF MaxRecords, First, RecSize
<1>4. \A units, n : EndsIn(units, n)' = EndsIn(units, n)
  BY <1>1, <1>3 DEF EndsIn
<1>5. \A units, n, m : Holds(units, n, m)' = Holds(units, n, m)
  BY <1>1, <1>3 DEF Holds
<1>6. \A units, o, v, m, rd : KeepsTo(units, o, v, m, rd)' = KeepsTo(units, o, v, m, rd)
  BY <1>2, <1>3, <1>4, <1>5 DEF KeepsTo
<1>7. \A units, v, m, rd : KeepsAt(units, v, m, rd)' = KeepsAt(units, v, m, rd)
  BY <1>2, <1>3, <1>6 DEF KeepsAt
<1>8. RecoverAt(log, master, reserve, kv, reserved)' = RecoverAt(log', master', reserve', kv', reserved')
  BY <1>7 DEF RecoverAt, Picked, IsVersion, Empty
<1> QED BY <1>3, <1>4, <1>6, <1>7, <1>8 DEF FlashInv, FlashAt, IsVersion

\* ValueIn and Holds agree.
HoldLaw ==
  geo \in Geometries /\ log \in [Areas -> [Units -> Contents]] =>
    \A a \in Areas : \A n \in 0 .. MaxRecords :
      EndsIn(log[a], n) => \A m : (\A k \in Keys : ValueIn(a, k) = m[k]) <=> Holds(log[a], n, m)

\* The proof of HoldLaw.
LEMMA HoldHolds == HoldLaw
<1> SUFFICES ASSUME geo \in Geometries, log \in [Areas -> [Units -> Contents]],
                    NEW a \in Areas, NEW n \in 0 .. MaxRecords, EndsIn(log[a], n), NEW m, NEW k \in Keys
             PROVE  ValueIn(a, k) = m[k] <=>
                      \/ m[k] = None /\ \A i \in 1 .. n : RecordIn(log[a], i)[1] # k
                      \/ \E i \in 1 .. n : /\ RecordIn(log[a], i) = <<k, m[k]>>
                                           /\ \A j \in i + 1 .. n : RecordIn(log[a], j)[1] # k
  BY DEF HoldLaw, Holds
<1>1. \A i : RecordIn(log[a], i) = RecordAt(a, i)
  BY DEF RecordIn, RecordAt
<1>2. Ends(a, n)
  BY <1>1 DEF EndsIn, Ends
<1>3. /\ \A i \in 1 .. n : LastFor(a, n, k, i) => ValueIn(a, k) = RecordAt(a, i)[2]
      /\ \/ \E i \in 1 .. n : LastFor(a, n, k, i)
         \/ (\A i \in 1 .. n : RecordAt(a, i)[1] # k) /\ ValueIn(a, k) = None
  BY <1>2, LogHolds DEF LogLaw, Names
<1>4. \A i \in 1 .. n : RecordAt(a, i) = <<RecordAt(a, i)[1], RecordAt(a, i)[2]>>
  <2> SUFFICES ASSUME NEW i \in 1 .. n PROVE RecordAt(a, i) \in Records
    BY DEF Records
  <2>1. i \in Int /\ i >= 1
    BY Offsets
  <2>2. Offset(i) \in Int /\ Offset(i) >= 1
    BY <2>1, RecordOffset
  <2>3. RecordAt(a, i) \in Records \cup {Torn}
    BY <2>2, ReadType DEF RecordAt
  <2> QED BY <1>2, <2>3 DEF Ends
<1>5. ASSUME NEW i \in 1 .. n, LastFor(a, n, k, i)
      PROVE  ValueIn(a, k) = m[k] <=> RecordAt(a, i) = <<k, m[k]>>
  BY <1>3, <1>4, <1>5 DEF LastFor
<1>6. CASE \E i \in 1 .. n : LastFor(a, n, k, i)
  <2>1. PICK i \in 1 .. n : LastFor(a, n, k, i)
    BY <1>6
  <2>2. RecordAt(a, i)[1] = k /\ \A j \in i + 1 .. n : RecordAt(a, j)[1] # k
    BY <2>1 DEF LastFor
  <2>3. ASSUME NEW j \in 1 .. n, RecordAt(a, j) = <<k, m[k]>>, \A l \in j + 1 .. n : RecordAt(a, l)[1] # k
        PROVE  j = i
    <3>1. RecordAt(a, j)[1] = k
      BY <2>3
    <3>2. n \in Nat
      BY Offsets
    <3>3. ~(j < i)
      <4> SUFFICES ASSUME j < i PROVE FALSE
        OBVIOUS
      <4>1. i \in j + 1 .. n
        BY <3>2
      <4> QED BY <2>2, <2>3, <4>1
    <3>4. ~(i < j)
      <4> SUFFICES ASSUME i < j PROVE FALSE
        OBVIOUS
      <4>1. j \in i + 1 .. n
        BY <3>2
      <4> QED BY <2>2, <3>1, <4>1
    <3> QED BY <3>2, <3>3, <3>4
  <2> QED BY <1>1, <1>5, <2>1, <2>2, <2>3
<1>7. CASE (\A i \in 1 .. n : RecordAt(a, i)[1] # k) /\ ValueIn(a, k) = None
  <2>1. \A i \in 1 .. n : RecordAt(a, i) # <<k, m[k]>>
    BY <1>7
  <2> QED BY <1>1, <1>7, <2>1
<1> QED BY <1>3, <1>6, <1>7

\* Every area keeps something, and the choice of init is the one of Picked.
LEMMA RecoverIs ==
  ASSUME Types
  PROVE  Recoverable <=> RecoverAt(log, master, reserve, kv, reserved)
<1>0. geo \in Geometries /\ log \in [Areas -> [Units -> Contents]] /\ HoldLaw
  BY TypeFacts, HoldHolds
<1>1. ASSUME NEW a \in Areas
      PROVE  KeepsAt(log[a], reserve[a], kv, reserved) <=>
               (\A k \in Keys : ValueIn(a, k) = kv[k]) /\ (reserve[a] = Written <=> reserved)
  <2>1. PICK n \in 0 .. MaxRecords : Ends(a, n)
    BY <1>0, LogEnds
  <2>2. EndsIn(log[a], n)
    BY <2>1 DEF Ends, EndsIn, RecordAt, RecordIn
  <2>3. Offset(n + 1) \in Int
    BY <1>0, Offsets
  <2>4. ASSUME NEW l \in 0 .. MaxRecords, EndsIn(log[a], l) PROVE l = n
    <3>1. MaxRecords \in Nat
      BY <1>0, Offsets
    <3> QED BY <2>2, <2>4, <3>1 DEF EndsIn
  <2>5. KeepsAt(log[a], reserve[a], kv, reserved) <=>
          Holds(log[a], n, kv) /\ (reserve[a] = Written <=> reserved)
    BY <2>2, <2>3, <2>4 DEF KeepsAt, KeepsTo
  <2>6. (\A k \in Keys : ValueIn(a, k) = kv[k]) <=> Holds(log[a], n, kv)
    BY <1>0, <2>2 DEF HoldLaw
  <2> QED BY <2>5, <2>6
<1>2. /\ \A a : Valid(a) <=> IsVersion(master[a])
      /\ 1 - 0 = 1 /\ 1 - 1 = 0
  BY DEF Valid, IsVersion
<1>3. /\ Recovered = kv <=> \A k \in Keys : kv[k] = IF Valid(ChooseArea) THEN ValueIn(ChooseArea, k) ELSE None
      /\ reserved \in BOOLEAN
  BY DEF Recovered, Types
<1>4. ASSUME NEW a \in Areas, Picked(master, a)
      PROVE  ChooseArea = a /\ Valid(a) /\ \A b \in Areas : Picked(master, b) => b = a
  BY <1>2, <1>4 DEF Picked, ChooseArea, Areas
<1>5. ASSUME NEW a \in Areas, Picked(master, a)
      PROVE  Recoverable <=> KeepsAt(log[a], reserve[a], kv, reserved)
  <2>1. ChooseArea = a /\ Valid(a)
    BY <1>4, <1>5
  <2>2. Recovered = kv <=> \A k \in Keys : kv[k] = ValueIn(a, k)
    BY <1>3, <2>1
  <2>3. RecoveredReserve = reserved <=> (reserve[a] = Written <=> reserved)
    BY <1>3, <2>1 DEF RecoveredReserve
  <2> QED BY <1>1, <2>2, <2>3 DEF Recoverable
<1>6. CASE Valid(0) \/ Valid(1)
  <2>1. \E a \in Areas : Picked(master, a)
    BY <1>2, <1>6 DEF Picked, Areas
  <2>2. PICK a \in Areas : Picked(master, a)
    BY <2>1
  <2>3. RecoverAt(log, master, reserve, kv, reserved) <=> KeepsAt(log[a], reserve[a], kv, reserved)
    BY <1>2, <1>4, <1>6, <2>2 DEF RecoverAt
  <2> QED BY <1>5, <2>2, <2>3
<1>7. CASE ~Valid(0) /\ ~Valid(1)
  <2>1. ~Valid(ChooseArea)
    BY <1>7 DEF ChooseArea
  <2>2. Recovered = kv <=> kv = Empty
    <3>1. kv \in [Keys -> Values \cup {None}]
      BY DEF Types
    <3> QED BY <1>3, <2>1, <3>1 DEF Empty
  <2>3. RecoveredReserve = reserved <=> ~reserved
    BY <1>3, <2>1 DEF RecoveredReserve
  <2>4. \A a \in Areas : ~Picked(master, a)
    BY <1>2, <1>7 DEF Picked, Areas
  <2> QED BY <1>2, <1>7, <2>2, <2>3, <2>4 DEF Recoverable, RecoverAt
<1> QED BY <1>6, <1>7

\* A record that would begin in clean flash is not one.
LEMMA CleanEnds ==
  ASSUME geo \in Geometries, Straddling, NEW units, NEW n \in 1 .. MaxRecords, Clean(units, Offset(n))
  PROVE  RecordIn(units, n) = Torn
<1>1. MaxRecords \in Nat /\ n \in Int /\ n >= 1 /\ n <= MaxRecords
  BY Offsets
<1>2. Offset(n) \in Int /\ Offset(n) >= 1 /\ Offset(n) + RecSize <= geo.size
  BY <1>1, RecordOffset, Offsets
<1>3. Offset(n) \in Units
  BY <1>2, Geometry DEF Units
<1>4. Offset(n) % geo.eu # 0
  BY DEF Straddling
<1>5. units[Offset(n)] = Erased
  BY <1>2, <1>3, <1>4 DEF Clean
<1> QED BY <1>5, ReadTorn DEF RecordIn

\* A log whose records are left alone and that ends where it did.
LEMMA LogKept ==
  ASSUME geo \in Geometries, NEW units, NEW vnits, NEW n \in 0 .. MaxRecords, EndsIn(units, n),
         \A u \in Units : u < Offset(n + 1) => vnits[u] = units[u],
         n < MaxRecords => RecordIn(vnits, n + 1) = Torn
  PROVE  EndsIn(vnits, n) /\ \A m : Holds(units, n, m) => Holds(vnits, n, m)
<1>1. MaxRecords \in Nat /\ n \in Nat /\ n <= MaxRecords
  BY Offsets
<1>2. Offset(n + 1) \in Int /\ Offset(n + 1) <= geo.size
  <2>1. Offset(n) + RecSize <= geo.size /\ Offset(n + 1) = Offset(n) + RecSize /\ Offset(n + 1) \in Int
    BY <1>1, Offsets
  <2> QED BY <2>1
<1>3. ASSUME NEW i \in 1 .. n PROVE RecordIn(vnits, i) = RecordIn(units, i)
  <2>1. i \in Int /\ i >= 1 /\ n + 1 \in Int /\ i < n + 1
    BY <1>1
  <2>2. Offset(i) \in Int /\ Offset(i) >= 1 /\ Offset(i) + RecSize <= Offset(n + 1)
    BY <2>1, RecordOffset, Offsets
  <2> QED BY <1>2, <2>2, ReadBefore DEF RecordIn
<1>4. EndsIn(vnits, n)
  BY <1>3 DEF EndsIn
<1>5. ASSUME NEW m, Holds(units, n, m) PROVE Holds(vnits, n, m)
  <2> SUFFICES ASSUME NEW k \in Keys
               PROVE  \/ m[k] = None /\ \A i \in 1 .. n : RecordIn(vnits, i)[1] # k
                      \/ \E i \in 1 .. n : /\ RecordIn(vnits, i) = <<k, m[k]>>
                                           /\ \A j \in i + 1 .. n : RecordIn(vnits, j)[1] # k
    BY DEF Holds
  <2>1. CASE m[k] = None /\ \A i \in 1 .. n : RecordIn(units, i)[1] # k
    BY <1>3, <2>1
  <2>2. CASE \E i \in 1 .. n : /\ RecordIn(units, i) = <<k, m[k]>>
                               /\ \A j \in i + 1 .. n : RecordIn(units, j)[1] # k
    <3>1. PICK i \in 1 .. n : /\ RecordIn(units, i) = <<k, m[k]>>
                              /\ \A j \in i + 1 .. n : RecordIn(units, j)[1] # k
      BY <2>2
    <3>2. \A j \in i + 1 .. n : j \in 1 .. n
      BY <1>1
    <3> QED BY <1>3, <3>1, <3>2
  <2> QED BY <1>5, <2>1, <2>2 DEF Holds
<1> QED BY <1>4, <1>5

\* A log to which a record is added.
LEMMA LogGrows ==
  ASSUME geo \in Geometries, NEW units, NEW vnits, NEW n \in 0 .. MaxRecords, n < MaxRecords, EndsIn(units, n),
         \A u \in Units : u < Offset(n + 1) => vnits[u] = units[u],
         NEW k \in Keys, NEW v, RecordIn(vnits, n + 1) = <<k, v>>, <<k, v>> # Torn,
         n + 1 < MaxRecords => RecordIn(vnits, (n + 1) + 1) = Torn,
         NEW S, NEW m \in [Keys -> S], Holds(units, n, m)
  PROVE  EndsIn(vnits, n + 1) /\ Holds(vnits, n + 1, [m EXCEPT ![k] = v])
<1>1. MaxRecords \in Nat /\ n \in Nat /\ n <= MaxRecords
  BY Offsets
<1>2. Offset(n + 1) \in Int /\ Offset(n + 1) <= geo.size
  <2>1. Offset(n) + RecSize <= geo.size /\ Offset(n + 1) = Offset(n) + RecSize /\ Offset(n + 1) \in Int
    BY <1>1, Offsets
  <2> QED BY <2>1
<1>3. ASSUME NEW i \in 1 .. n PROVE RecordIn(vnits, i) = RecordIn(units, i)
  <2>1. i \in Int /\ i >= 1 /\ n + 1 \in Int /\ i < n + 1
    BY <1>1
  <2>2. Offset(i) \in Int /\ Offset(i) >= 1 /\ Offset(i) + RecSize <= Offset(n + 1)
    BY <2>1, RecordOffset, Offsets
  <2> QED BY <1>2, <2>2, ReadBefore DEF RecordIn
<1>4. \A i \in 1 .. n + 1 : i \in 1 .. n \/ i = n + 1
  BY <1>1
<1>5. EndsIn(vnits, n + 1)
  BY <1>3, <1>4 DEF EndsIn
<1> DEFINE w == [m EXCEPT ![k] = v]
<1>6. w[k] = v /\ \A l \in Keys : l # k => w[l] = m[l]
  OBVIOUS
<1> HIDE DEF w
<1>7. RecordIn(vnits, n + 1)[1] = k
  OBVIOUS
<1>8. ASSUME NEW l \in Keys
      PROVE  \/ w[l] = None /\ \A i \in 1 .. n + 1 : RecordIn(vnits, i)[1] # l
             \/ \E i \in 1 .. n + 1 : /\ RecordIn(vnits, i) = <<l, w[l]>>
                                      /\ \A j \in i + 1 .. n + 1 : RecordIn(vnits, j)[1] # l
  <2>1. CASE l = k
    <3>1. n + 1 \in 1 .. n + 1 /\ \A j \in (n + 1) + 1 .. n + 1 : FALSE
      BY <1>1
    <3> QED BY <1>6, <2>1, <3>1
  <2>2. CASE l # k /\ m[l] = None /\ \A i \in 1 .. n : RecordIn(units, i)[1] # l
    BY <1>3, <1>4, <1>6, <1>7, <2>2
  <2>3. CASE l # k /\ \E i \in 1 .. n : /\ RecordIn(units, i) = <<l, m[l]>>
                                        /\ \A j \in i + 1 .. n : RecordIn(units, j)[1] # l
    <3>1. PICK i \in 1 .. n : /\ RecordIn(units, i) = <<l, m[l]>>
                              /\ \A j \in i + 1 .. n : RecordIn(units, j)[1] # l
      BY <2>3
    <3>2. i \in 1 .. n + 1 /\ RecordIn(vnits, i) = <<l, w[l]>>
      BY <1>1, <1>3, <1>6, <2>3, <3>1
    <3>3. ASSUME NEW j \in i + 1 .. n + 1 PROVE RecordIn(vnits, j)[1] # l
      <4>1. j = n + 1 \/ (j \in i + 1 .. n /\ j \in 1 .. n)
        BY <1>1
      <4> QED BY <1>3, <1>7, <2>3, <3>1, <4>1
    <3> QED BY <3>2, <3>3
  <2> QED BY <2>1, <2>2, <2>3 DEF Holds
<1> QED BY <1>5, <1>8 DEF Holds, w

\* An area whose head was erased has an empty log.
LEMMA HeadEnds ==
  ASSUME geo \in Geometries, Straddling, NEW units
  PROVE  EndsIn(EraseStarting(units, 0, 1), 0)
<1> DEFINE x == EraseStarting(units, 0, 1)
<1>1. Clean(x, First)
  BY HeadClean
<1> HIDE DEF x
<1>2. MaxRecords \in Nat /\ Offset(1) = First
  BY Offsets
<1>3. 0 < MaxRecords => RecordIn(x, 0 + 1) = Torn
  <2> SUFFICES ASSUME 0 < MaxRecords PROVE RecordIn(x, 1) = Torn
    OBVIOUS
  <2>1. 1 \in 1 .. MaxRecords
    BY <1>2
  <2> QED BY <1>1, <1>2, <2>1, CleanEnds
<1>4. EndsIn(x, 0)
  BY <1>3 DEF EndsIn
<1> QED BY <1>4 DEF x

\* An empty log holds nothing.
LEMMA EmptyHolds ==
  ASSUME geo \in Geometries, NEW units, EndsIn(units, 0), NEW v, v # Written
  PROVE  KeepsTo(units, First, v, Empty, FALSE)
<1>1. 0 \in 0 .. MaxRecords /\ Offset(0 + 1) = First
  <2>1. MaxRecords \in Nat /\ Offset(1) = First
    BY Offsets
  <2> QED BY <2>1
<1>2. Holds(units, 0, Empty)
  BY DEF Holds, Empty
<1> QED BY <1>1, <1>2 DEF KeepsTo

\* The log of a garbage collection holds what the RAM table points to.
LEMMA CopyHolds ==
  ASSUME NEW units, NEW t, NEW m, Len(t) \in Nat,
         \A i \in 1 .. Len(t) : /\ RecordIn(units, i)[1] = t[i].key /\ t[i].key \in Nat
                                /\ t[i].key \in Keys => RecordIn(units, i) = <<t[i].key, m[t[i].key]>>,
         Sorted(t), \A k \in Keys : m[k] # None => \E i \in 1 .. Len(t) : t[i].key = k
  PROVE  Holds(units, Len(t), m)
<1> DEFINE n == Len(t)
<1>1. \A i \in 1 .. n : RecordIn(units, i)[1] = t[i].key
  OBVIOUS
<1>2. \A i, j \in 1 .. n : i < j => t[i].key # t[j].key
  BY DEF Sorted
<1>3. ASSUME NEW k \in Keys
      PROVE  \/ m[k] = None /\ \A i \in 1 .. n : RecordIn(units, i)[1] # k
             \/ \E i \in 1 .. n : /\ RecordIn(units, i) = <<k, m[k]>>
                                  /\ \A j \in i + 1 .. n : RecordIn(units, j)[1] # k
  <2>1. CASE \E i \in 1 .. n : t[i].key = k
    <3>1. PICK i \in 1 .. n : t[i].key = k
      BY <2>1
    <3>2. \A j \in i + 1 .. n : j \in 1 .. n /\ i < j
      OBVIOUS
    <3>3. \A j \in i + 1 .. n : RecordIn(units, j)[1] # k
      BY <1>1, <1>2, <3>1, <3>2
    <3> QED BY <3>1, <3>3
  <2>2. CASE ~\E i \in 1 .. n : t[i].key = k
    BY <1>1, <2>2
  <2> QED BY <2>1, <2>2
<1> QED BY <1>3 DEF Holds

\* What an area keeps does not depend on where its log ends.
LEMMA KeepsAnywhere ==
  ASSUME NEW units, NEW o, NEW v, NEW m, NEW rd, KeepsTo(units, o, v, m, rd)
  PROVE  KeepsAt(units, v, m, rd)
BY DEF KeepsTo, KeepsAt

\* Nothing can be read behind the end of a log.
LEMMA KeepsEnd ==
  ASSUME geo \in Geometries, NEW units, NEW o, NEW v, NEW m, NEW rd, KeepsTo(units, o, v, m, rd)
  PROVE  ReadRecord(units, o) = Torn
<1>1. PICK n \in 0 .. MaxRecords : o = Offset(n + 1) /\ EndsIn(units, n)
  BY DEF KeepsTo
<1>2. MaxRecords \in Nat /\ n \in Nat /\ n <= MaxRecords
  BY Offsets
<1>3. CASE n < MaxRecords
  BY <1>1, <1>3 DEF EndsIn, RecordIn
<1>4. CASE ~(n < MaxRecords)
  <2>1. n + 1 \in Int /\ ~(n + 1 <= MaxRecords)
    BY <1>2, <1>4
  <2>2. o \in Int /\ ~(o + RecSize <= geo.size)
    BY <1>1, <2>1, Offsets
  <2>3. ~Readable(o)
    BY <2>2, Geometry DEF Readable
  <2> QED BY <2>3, ReadTorn
<1> QED BY <1>3, <1>4

\* What is programmed behind the end of a log and is no record leaves it as it was.
LEMMA KeepsSame ==
  ASSUME geo \in Geometries, NEW units, NEW vnits, NEW o, NEW v, NEW m, NEW rd, KeepsTo(units, o, v, m, rd),
         \A u \in Units : u < o => vnits[u] = units[u], ReadRecord(vnits, o) = Torn
  PROVE  KeepsTo(vnits, o, v, m, rd)
<1>1. PICK n \in 0 .. MaxRecords : o = Offset(n + 1) /\ EndsIn(units, n) /\ Holds(units, n, m)
  BY DEF KeepsTo
<1>2. RecordIn(vnits, n + 1) = Torn
  BY <1>1 DEF RecordIn
<1>3. EndsIn(vnits, n) /\ Holds(vnits, n, m)
  BY <1>1, <1>2, LogKept
<1> QED BY <1>1, <1>3 DEF KeepsTo

\* A set or remove that is complete.
LEMMA KeepsMore ==
  ASSUME geo \in Geometries, Straddling, NEW units, NEW vnits, NEW o, NEW v, NEW rd, NEW S, NEW m \in [Keys -> S],
         KeepsTo(units, o, v, m, rd), \A u \in Units : u < o => vnits[u] = units[u],
         NEW k \in Keys, NEW x, ReadRecord(vnits, o) = <<k, x>>, <<k, x>> # Torn, Clean(vnits, o + RecSize),
         NEW w, w = [m EXCEPT ![k] = x]
  PROVE  KeepsTo(vnits, o + RecSize, v, w, rd)
<1>1. PICK n \in 0 .. MaxRecords : o = Offset(n + 1) /\ EndsIn(units, n) /\ Holds(units, n, m)
  BY DEF KeepsTo
<1>2. MaxRecords \in Nat /\ n \in Nat /\ n <= MaxRecords /\ n + 1 \in Int /\ (n + 1) + 1 \in Int
  BY Offsets
<1>3. o + RecSize = Offset((n + 1) + 1)
  BY <1>1, <1>2, Offsets
<1>4. n < MaxRecords
  <2>1. Readable(o)
    <3> SUFFICES ASSUME ~Readable(o) PROVE FALSE
      OBVIOUS
    <3>1. ReadRecord(vnits, o) = Torn
      BY ReadTorn
    <3> QED BY <3>1
  <2>2. o \in Int /\ o + RecSize <= geo.size
    <3>1. o \in Int
      BY <1>1, <1>2, Offsets
    <3> QED BY <2>1, <3>1, Geometry DEF Readable
  <2>3. n + 1 <= MaxRecords
    BY <1>1, <1>2, <2>2, Offsets
  <2> QED BY <1>2, <2>3
<1>5. ASSUME n + 1 < MaxRecords PROVE RecordIn(vnits, (n + 1) + 1) = Torn
  <2>1. (n + 1) + 1 \in 1 .. MaxRecords
    BY <1>2, <1>5
  <2> QED BY <1>3, <2>1, CleanEnds
<1>6. RecordIn(vnits, n + 1) = <<k, x>>
  BY <1>1 DEF RecordIn
<1>7. EndsIn(vnits, n + 1) /\ Holds(vnits, n + 1, w)
  <2>1. EndsIn(vnits, n + 1) /\ Holds(vnits, n + 1, [m EXCEPT ![k] = x])
    BY <1>1, <1>4, <1>5, <1>6, LogGrows
  <2> QED BY <2>1
<1>8. n + 1 \in 0 .. MaxRecords
  BY <1>2, <1>4
<1>9. v = Written <=> rd
  BY DEF KeepsTo
<1> QED BY <1>3, <1>7, <1>8, <1>9 DEF KeepsTo

\* Erased and torn master records have no version.
LEMMA NoVersion == ~IsVersion(Erased) /\ ~IsVersion(Torn)
<1>1. Erased \notin Nat /\ Torn \notin Nat
  BY ValueAssumption
<1>2. VersionMod \in Nat
  BY CountAssumption
<1>3. 0 .. VersionMod - 1 \subseteq Nat
  BY <1>2
<1> QED BY <1>1, <1>3 DEF IsVersion

\* A power loss at any instant loses nothing.
LEMMA FlashRecoverable ==
  ASSUME Types, CallInv, RamInv, FlashInv
  PROVE  RecoverAt(log, master, reserve, kv, reserved)
<1>f. FlashAt(log, master, reserve, pc, ret, active, free, gcInd, kv, reserved)
  BY DEF FlashInv
<1>0. active \in Areas /\ 1 - active \in Areas /\ 1 - (1 - active) = active /\ 0 \in Areas /\ 1 \in Areas
      /\ active \in {0, 1} /\ 1 - 1 = 0
  BY TypeFacts DEF Areas
<1>a. ASSUME NEW a \in Areas, IsVersion(master[a]), ~IsVersion(master[1 - a])
      PROVE  Picked(master, a)
  BY <1>a DEF Picked
<1>k. ASSUME NEW a \in Areas, NEW o, KeepsTo(log[a], o, reserve[a], kv, reserved)
      PROVE  KeepsAt(log[a], reserve[a], kv, reserved)
  BY <1>k, KeepsAnywhere
<1>1. CASE pc \in {"off", "halted"}
  BY <1>f, <1>1 DEF FlashAt
<1>2. CASE pc \notin {"off", "halted", "master", "gcReset", "resetSecond"}
  <2>1. /\ IsVersion(master[active]) /\ ~IsVersion(master[1 - active])
        /\ KeepsTo(log[active], IF pc = "update" THEN free + RecSize ELSE free, reserve[active], kv, reserved)
    BY <1>f, <1>2 DEF FlashAt
  <2>2. Picked(master, active) /\ KeepsAt(log[active], reserve[active], kv, reserved)
    BY <1>0, <1>a, <1>k, <2>1
  <2> QED BY <1>0, <2>2 DEF RecoverAt
<1>3. CASE pc = "gcReset" \/ (pc = "master" /\ ret \notin {"booted", "reset"})
  <2>1. /\ IsVersion(master[1 - active]) /\ KeepsAt(log[1 - active], reserve[1 - active], kv, reserved)
        /\ KeepsTo(log[active], free, reserve[active], kv, reserved)
    BY <1>f, <1>3 DEF FlashAt
  <2>2. \A a \in Areas : KeepsAt(log[a], reserve[a], kv, reserved)
    <3>1. KeepsAt(log[active], reserve[active], kv, reserved)
      BY <1>0, <1>k, <2>1
    <3> QED BY <1>0, <2>1, <3>1 DEF Areas
  <2>3. \E a \in Areas : Picked(master, a)
    BY <1>0, <2>1 DEF Picked, Areas
  <2> QED BY <2>2, <2>3 DEF RecoverAt
<1>4. CASE pc = "master" /\ ret \in {"booted", "reset"}
  <2>1. ~IsVersion(master[0]) /\ ~IsVersion(master[1])
    BY <1>f, <1>4 DEF FlashAt
  <2>2. kv = Empty /\ ~reserved
    BY <1>4 DEF RamInv
  <2> QED BY <2>1, <2>2 DEF RecoverAt
<1>5. CASE pc = "resetSecond"
  <2>1. /\ ~IsVersion(master[0])
        /\ IF active = 0 THEN ~IsVersion(master[1])
           ELSE IsVersion(master[1]) /\ KeepsAt(log[1], reserve[1], kv, reserved)
    BY <1>f, <1>5 DEF FlashAt
  <2>2. CASE active = 0
    <3>1. kv = Empty /\ ~reserved
      BY <1>5, <2>2 DEF RamInv
    <3> QED BY <2>1, <2>2, <3>1 DEF RecoverAt
  <2>3. CASE active # 0
    <3>1. Picked(master, 1)
      BY <1>0, <2>1, <2>3, <1>a
    <3> QED BY <1>0, <2>1, <2>3, <3>1 DEF RecoverAt
  <2> QED BY <2>2, <2>3
<1> QED BY <1>1, <1>2, <1>3, <1>4, <1>5

\* A set that is under way, at any point before it is complete.
LEMMA KeepsProgram ==
  ASSUME Types, KeepsTo(log[active], free, reserve[active], kv, reserved),
         NEW from \in Nat, NEW r, Program(active, free, from, r), ReadRecord(log'[active], free) = Torn
  PROVE  KeepsTo(log'[active], free, reserve[active], kv, reserved)
<1>1. geo \in Geometries /\ active \in Areas /\ free \in Nat
  BY TypeFacts
<1>2. \A u \in Units : u < free => log'[active][u] = log[active][u]
  <2>1. \A u \in Units : u < free + from \/ u >= free + RecSize => log'[active][u] = log[active][u]
    BY <1>1, Programmed
  <2>2. \A u \in Units : u < free => u < free + from
    BY <1>1, Geometry DEF Units
  <2> QED BY <2>1, <2>2
<1> QED BY <1>1, <1>2, KeepsSame

\* An unprogrammed or torn first unit.
LEMMA TornProgram ==
  ASSUME Types, RangeInv, pc \in Writing, NEW from \in Nat, Program(active, free, from, Torn),
         from = 0 \/ log[active][free] \in {Erased, Torn}
  PROVE  ReadRecord(log'[active], free) = Torn
<1>1. geo \in Geometries /\ active \in Areas /\ free \in Nat /\ free >= 1 /\ free + RecSize <= geo.size
  BY TypeFacts DEF RangeInv
<1>2. RecSize \in Nat /\ RecSize > 1 /\ geo.size \in Nat
  BY <1>1, Geometry
<1>3. free \in Units
  BY <1>1, <1>2 DEF Units
<1>4. /\ \A u \in Units : u < free + from \/ u >= free + RecSize => log'[active][u] = log[active][u]
      /\ \A u \in Units : u \in free + from .. free + RecSize - 1 =>
              log'[active][u] = IF Torn = Torn THEN Torn ELSE <<Torn, u - free>>
  BY <1>1, Programmed
<1>5. log'[active][free] \in {Erased, Torn}
  <2>1. CASE from = 0
    <3>1. free \in free + from .. free + RecSize - 1
      BY <1>1, <1>2, <2>1
    <3> QED BY <1>3, <1>4, <3>1
  <2>2. CASE from # 0
    <3>1. free < free + from
      BY <1>1, <2>2
    <3> QED BY <1>3, <1>4, <2>2, <3>1
  <2> QED BY <2>1, <2>2
<1> QED BY <1>5, ReadTorn

\* The parts of the invariant about contents hold at the start.
LEMMA FlashInit ==
  ASSUME Init, Assured
  PROVE  RamInv /\ BootInv /\ FlashInv
<1>1. ~IsVersion(master[0]) /\ ~IsVersion(master[1])
  BY NoVersion DEF Init, Areas
<1>2. RecoverAt(log, master, reserve, kv, reserved)
  BY <1>1 DEF Init, RecoverAt, Empty
<1>3. FlashInv
  BY <1>2 DEF Init, FlashInv, FlashAt
<1>4. RamInv
  BY DEF Init, RamInv, Writing
<1>5. Recoverable
  BY <1>2, BasicInit, RecoverIs
<1>6. BootInv
  BY <1>1, <1>5 DEF Init, BootInv, Valid, IsVersion
<1> QED BY <1>3, <1>4, <1>6

\* Steps that leave the flash and its contents alone.
LEMMA FlashFrame ==
  ASSUME FlashInv, pc \notin {"off", "halted", "master", "gcReset", "resetSecond", "update"},
         pc' \notin {"off", "halted", "master", "gcReset", "resetSecond", "update", "clear", "gcReserve", "gcCopy"},
         UNCHANGED <<log, master, reserve, active, free, kv, reserved>>
  PROVE  FlashAt(log', master', reserve', pc', ret', active', free', gcInd', kv', reserved')
BY DEF FlashInv, FlashAt

\* Every step keeps one area from which a start recovers everything.
LEMMA FlashInvStep ==
  ASSUME Types, CallInv, RangeInv, EraseInv, NamedInv, RamInv, BootInv, Straddling, FlashInv, [Normal]_vars
  PROVE  FlashInv'
<1> DEFINE Goal == FlashAt(log', master', reserve', pc', ret', active', free', gcInd', kv', reserved')
<1> SUFFICES Goal
  BY GeoKept, FlashPrime
<1> USE DEF ramVars, gcVars, apiVars, Writing
<1>0. /\ geo \in Geometries /\ active \in Areas /\ 1 - active \in Areas /\ active # 1 - active
      /\ 0 \in Areas /\ 1 \in Areas /\ active \in {0, 1} /\ 1 - (1 - active) = active
      /\ 0 # 1 /\ 1 - 0 = 1 /\ 1 - 1 = 0 /\ free \in Nat
  BY TypeFacts DEF Areas
<1>v. /\ master \in [Areas -> {Erased, Torn} \cup 0 .. VersionMod - 1]
      /\ reserve \in [Areas -> {Erased, Torn, Written}]
      /\ log \in [Areas -> [Units -> Contents]]
  BY DEF Types
<1>w. Written # Erased /\ Written # Torn /\ Erased # Torn
  BY ValueAssumption
<1>n. ~IsVersion(Erased) /\ ~IsVersion(Torn)
  BY NoVersion
<1>a. Assured
  BY DEF Types
<1>f. FlashAt(log, master, reserve, pc, ret, active, free, gcInd, kv, reserved)
  BY DEF FlashInv
<1>i. /\ pc \notin {"off", "halted", "master", "gcReset", "resetSecond", "update"} =>
           /\ IsVersion(master[active]) /\ ~IsVersion(master[1 - active])
           /\ KeepsTo(log[active], free, reserve[active], kv, reserved)
      /\ pc # "clear"
  BY <1>f DEF FlashAt
<1>h. ASSUME NEW as, EraseHead(as)
      PROVE  \A a \in Areas : /\ a \in as => /\ EndsIn(log'[a], 0) /\ ~IsVersion(master'[a])
                                             /\ reserve'[a] = Erased
                              /\ a \notin as => /\ log'[a] = log[a] /\ master'[a] = master[a]
                                                /\ reserve'[a] = reserve[a]
  <2>1. \A a \in Areas : EndsIn(EraseStarting(log[a], 0, 1), 0)
    BY <1>0, HeadEnds
  <2> QED BY <1>h, <1>n, <2>1 DEF EraseHead
<1>r. RecoverAt(log, master, reserve, kv, reserved)
  BY FlashRecoverable
<1>1. CASE InitEmpty
  <2>1. EraseHead(Areas) /\ pc' = "master" /\ ret' = "booted"
    BY <1>1 DEF InitEmpty
  <2>2. EndsIn(log'[0], 0) /\ ~IsVersion(master'[0]) /\ ~IsVersion(master'[1])
    BY <1>0, <1>h, <2>1
  <2> QED BY <2>1, <2>2 DEF FlashAt
<1>2. CASE InitScan
  <2> DEFINE a == ChooseArea
  <2>1. /\ pc = "off" /\ (Valid(0) \/ Valid(1)) /\ EraseHead({1 - a}) /\ active' = a
        /\ free' = EndOfLog(a) /\ pc' \in {"halted", "gc", "ready"} /\ UNCHANGED <<kv, reserved>>
    BY <1>2 DEF InitScan
  <2>2. a \in Areas /\ 1 - a \in Areas /\ a # 1 - a /\ 1 - (1 - a) = a
    BY DEF ChooseArea, Areas
  <2>3. \A b \in Areas : Picked(master, b) => b = a
    BY <1>0 DEF Picked, ChooseArea, Areas, Valid, IsVersion
  <2>4. \E b \in Areas : Picked(master, b) /\ KeepsAt(log[b], reserve[b], kv, reserved)
    BY <1>r, <2>1 DEF RecoverAt, Valid, IsVersion
  <2> HIDE DEF a
  <2>5. Picked(master, a) /\ KeepsAt(log[a], reserve[a], kv, reserved)
    BY <2>3, <2>4
  <2>6. IsVersion(master[a])
    BY <2>5 DEF Picked
  <2>7. log'[a] = log[a] /\ reserve'[a] = reserve[a] /\ master'[a] = master[a] /\ ~IsVersion(master'[1 - a])
    BY <1>h, <2>1, <2>2
  <2>8. CASE pc' = "halted"
    <3>1. Picked(master', a)
      BY <2>6, <2>7 DEF Picked
    <3>2. RecoverAt(log', master', reserve', kv', reserved')
      BY <2>1, <2>2, <2>5, <2>7, <3>1 DEF RecoverAt
    <3> QED BY <2>8, <3>2 DEF FlashAt
  <2>9. CASE pc' \in {"gc", "ready"}
    <3>1. PICK n \in 0 .. MaxRecords : KeepsTo(log[a], Offset(n + 1), reserve[a], kv, reserved)
      BY <2>5 DEF KeepsAt
    <3>2. PICK l \in 0 .. MaxRecords : Offset(n + 1) = Offset(l + 1) /\ EndsIn(log[a], l)
      BY <3>1 DEF KeepsTo
    <3>3. Ends(a, l)
      BY <3>2 DEF Ends, EndsIn, RecordAt, RecordIn
    <3>4. EndOfLog(a) = Offset(l + 1)
      BY <1>0, <2>2, <3>3, LogHolds DEF LogLaw
    <3>5. KeepsTo(log'[a], free', reserve'[a], kv', reserved')
      BY <2>1, <2>7, <3>1, <3>2, <3>4
    <3> QED BY <2>1, <2>6, <2>7, <2>9, <3>5 DEF FlashAt
  <2> QED BY <2>1, <2>8, <2>9
<1>3. CASE InitAbort
  <2>1. UNCHANGED <<log, master, reserve, kv, reserved>> /\ pc' = "off"
    BY <1>3 DEF InitAbort
  <2> QED BY <1>r, <2>1 DEF FlashAt
<1>4. CASE GcErase
  <2>1. /\ pc = "gc" /\ EraseHead({1 - active}) /\ UNCHANGED <<active, free, kv, reserved>>
        /\ pc' \in {"gcReserve", "gcCopy"} /\ gcInd' = 0
    BY <1>4 DEF GcErase
  <2>2. /\ log'[active] = log[active] /\ reserve'[active] = reserve[active] /\ master'[active] = master[active]
        /\ ~IsVersion(master'[1 - active]) /\ EndsIn(log'[1 - active], 0)
    BY <1>0, <1>h, <2>1
  <2> QED BY <1>i, <2>1, <2>2 DEF FlashAt
<1>5. CASE GcReserve
  <2>1. /\ pc = "gcReserve" /\ pc' = "gcCopy" /\ UNCHANGED <<log, master, active, free, kv, reserved, gcInd>>
        /\ reserve' = [reserve EXCEPT ![1 - active] = reserve[active]]
    BY <1>5 DEF GcReserve
  <2>2. reserve'[active] = reserve[active]
    BY <1>0, <1>v, <2>1
  <2>3. EndsIn(log[1 - active], gcInd)
    BY <1>f, <2>1 DEF FlashAt
  <2> QED BY <1>i, <2>1, <2>2, <2>3 DEF FlashAt
<1>6. CASE GcCopy
  <2>1. /\ pc = "gcCopy" /\ pc' = "gcCopy" /\ UNCHANGED <<master, reserve, active, free, kv, reserved>>
        /\ log'[active] = log[active] /\ gcInd' = gcInd + 1
    BY <1>6, CopyMade DEF GcCopy
  <2> DEFINE new == log'[1 - active]
  <2>2. EndsIn(new, gcInd')
    <3>1. /\ NamedInv' /\ Sorted(table')
          /\ \A i \in 1 .. Len(table') : NamedAt(log', pc', active', table', gcInd', i)
      <4>1. NamedInv'
        BY NamedStep
      <4> QED BY <2>1, <4>1, GeoKept, NamedPrime
    <3>2. Clean(new, gcTo')
      <4>1. CleanInv(log', active', free', pc', open', gcTo')
        BY EraseStep, GeoKept, ErasePrime
      <4> QED BY <2>1, <4>1 DEF CleanInv
    <3>3. /\ gcInd' <= Len(table') /\ gcTo' = Offset(gcInd' + 1)
          /\ \A i \in 1 .. Len(table') : i <= gcInd' => table'[i].at = Offset(i)
      <4>1. InRange(free', table', pc', gcInd', gcTo')
        BY RangeStep, GeoKept, RangePrime
      <4> QED BY <2>1, <4>1 DEF InRange
    <3>4. Len(table') \in Nat /\ gcInd' \in Nat
      <4>1. Len(table') = Len(table) /\ Len(table) \in Nat /\ gcInd \in Nat
        BY <1>6, CopyMade, TypeFacts
      <4> QED BY <2>1, <4>1
    <3>5. ASSUME NEW i \in 1 .. gcInd' PROVE RecordIn(new, i) # Torn
      <4>1. i \in 1 .. Len(table') /\ i <= gcInd' /\ i \in Int /\ i >= 1
        BY <3>3, <3>4
      <4>2. table'[i].at = Offset(i) /\ Offset(i) >= 1
        BY <1>0, <3>3, <4>1, RecordOffset
      <4>3. table'[i] # [key |-> MasterKey, at |-> 0]
        BY <4>2
      <4> QED BY <2>1, <3>1, <4>1, <4>2, <4>3 DEF NamedAt, RecordIn
    <3>6. ASSUME gcInd' < MaxRecords PROVE RecordIn(new, gcInd' + 1) = Torn
      <4>1. MaxRecords \in Nat
        BY <1>0, Offsets
      <4>2. gcInd' + 1 \in 1 .. MaxRecords
        <5>1. gcInd' \in Nat
          BY <3>4
        <5>2. \A j, l \in Nat : j < l => j + 1 \in 1 .. l
          OBVIOUS
        <5> HIDE DEF new
        <5> QED BY <3>6, <4>1, <5>1, <5>2
      <4> HIDE DEF new
      <4> QED BY <1>0, <3>2, <3>3, <4>2, CleanEnds
    <3> QED BY <3>5, <3>6 DEF EndsIn
  <2> QED BY <1>i, <2>1, <2>2 DEF FlashAt
<1>7. CASE GcSwitch
  <2>1. /\ pc = "gcCopy" /\ gcInd = Len(table) /\ pc' = "master" /\ free' = gcTo /\ active' = 1 - active
        /\ UNCHANGED <<log, master, reserve, table, ret, kv, reserved>> /\ ret \notin {"booted", "reset"}
    BY <1>7 DEF GcSwitch, CallInv, Collecting
  <2>2. KeepsAt(log[active], reserve[active], kv, reserved)
    BY <1>i, <2>1, KeepsAnywhere
  <2> DEFINE n == Len(table)
             units == log[1 - active]
  <2>3. n \in 0 .. MaxRecords /\ n \in Nat
    <3>1. n \in Nat /\ MaxRecords \in Nat
      BY <1>0, TypeFacts, Offsets
    <3>2. CASE n # 0
      <4>1. n \in 1 .. n
        BY <3>1, <3>2
      <4>2. Readable(Offset(n))
        BY <4>1 DEF RangeInv
      <4>3. Offset(n) + RecSize <= geo.size
        <5>1. Offset(n) \in Int /\ RecSize \in Nat /\ geo.size \in Nat
          <6>1. n \in Int
            BY <3>1
          <6> HIDE DEF n
          <6> QED BY ONLY <1>0, <6>1, Geometry, Offsets
        <5> QED BY <4>2, <5>1 DEF Readable
      <4> QED BY <1>0, <3>1, <4>3, Offsets
    <3> QED BY <3>1, <3>2
  <2>4. gcTo = Offset(n + 1) /\ \A i \in 1 .. n : table[i].at = Offset(i)
    BY <2>1, <2>3 DEF RangeInv
  <2>5. TableAt(log, pc, active, table, gcInd, call, kv)
    BY <2>1, GeoKept, RamPrime
  <2>6. ASSUME NEW i \in 1 .. n
        PROVE  /\ RecordIn(units, i)[1] = table[i].key /\ table[i].key \in Nat
               /\ table[i].key \in Keys => RecordIn(units, i) = <<table[i].key, kv[table[i].key]>>
    <3>1. i <= gcInd /\ i \in Int /\ i >= 1
      BY <2>1, <2>3
    <3>2. Offset(i) >= 1 /\ table[i].at = Offset(i)
      BY <1>0, <2>4, <3>1, RecordOffset
    <3>3. Named(i) /\ table[i] # [key |-> MasterKey, at |-> 0]
      BY <2>1, <3>2 DEF NamedInv
    <3>4. RecordIn(units, i)[1] = table[i].key
      BY <2>1, <3>1, <3>2, <3>3 DEF Named, AreaOf, RecordIn
    <3>5. table[i].key \in Keys => RecordIn(units, i) = <<table[i].key, kv[table[i].key]>>
      BY <2>1, <2>5, <3>1, <3>2 DEF TableAt, PointsAt, RecordIn
    <3> QED BY <3>4, <3>5, TypeFacts
  <2>7. \A k \in Keys : kv[k] # None => \E i \in 1 .. n : table[i].key = k
    BY <2>1, <2>5 DEF TableAt
  <2>8. Holds(units, n, kv)
    BY <2>3, <2>6, <2>7, CopyHolds DEF NamedInv
  <2>9. EndsIn(units, n)
    BY <1>f, <2>1 DEF FlashAt
  <2>10. reserve[1 - active] = Written <=> reserved
    BY <2>1 DEF RamInv
  <2>11. KeepsTo(units, gcTo, reserve[1 - active], kv, reserved)
    BY <2>3, <2>4, <2>8, <2>9, <2>10 DEF KeepsTo
  <2> QED BY <1>0, <1>i, <2>1, <2>2, <2>11 DEF FlashAt
<1>8. CASE MasterTorn
  <2>1. /\ pc = "master" /\ pc' = "master" /\ master' = [master EXCEPT ![active] = Torn]
        /\ UNCHANGED <<log, reserve, active, ret, free, kv, reserved>>
    BY <1>8 DEF MasterTorn
  <2>2. master'[active] = Torn /\ master'[1 - active] = master[1 - active]
    BY <1>0, <1>v, <2>1
  <2>3. CASE ret \in {"booted", "reset"}
    <3>1. active = 0
      BY <2>1, <2>3 DEF RamInv
    <3> QED BY <1>f, <1>n, <1>0, <2>1, <2>2, <2>3, <3>1 DEF FlashAt
  <2>4. CASE ret \notin {"booted", "reset"}
    BY <1>f, <1>n, <2>1, <2>2, <2>4 DEF FlashAt
  <2> QED BY <2>3, <2>4
<1>9. CASE MasterDone
  <2>1. /\ pc = "master" /\ master' = [master EXCEPT ![active] = version]
        /\ UNCHANGED <<log, reserve, active, free, kv, reserved>>
        /\ ret \in {"booted", "reset"} => pc' = "ready"
        /\ ret \notin {"booted", "reset"} => pc' = "gcReset"
    BY <1>9 DEF MasterDone, Reply
  <2>2. master'[active] = version /\ master'[1 - active] = master[1 - active] /\ IsVersion(version)
    BY <1>0, <1>v, <2>1 DEF Types, TypeOK, IsVersion
  <2>3. CASE ret \in {"booted", "reset"}
    <3>1. active = 0 /\ free = First /\ kv = Empty /\ ~reserved /\ (reserve[active] = Written <=> reserved)
      BY <2>1, <2>3 DEF RamInv
    <3>2. reserved = FALSE
      BY <3>1 DEF Types
    <3>3. EndsIn(log[0], 0) /\ ~IsVersion(master[1])
      BY <1>f, <2>1, <2>3 DEF FlashAt
    <3>4. KeepsTo(log[active], free, reserve[active], kv, reserved)
      BY <1>0, <3>1, <3>2, <3>3, EmptyHolds
    <3> QED BY <1>0, <2>1, <2>2, <2>3, <3>1, <3>3, <3>4 DEF FlashAt
  <2>4. CASE ret \notin {"booted", "reset"}
    BY <1>f, <2>1, <2>2, <2>4 DEF FlashAt
  <2> QED BY <2>3, <2>4
<1>10. CASE GcReset
  <2>1. /\ pc = "gcReset" /\ EraseHead({1 - active}) /\ UNCHANGED <<active, free, kv, reserved>>
        /\ pc' \in {"init", "start", "room", "ready"}
    BY <1>10 DEF GcReset, Reply
  <2>2. /\ log'[active] = log[active] /\ reserve'[active] = reserve[active] /\ master'[active] = master[active]
        /\ ~IsVersion(master'[1 - active])
    BY <1>0, <1>h, <2>1
  <2>3. IsVersion(master[active]) /\ KeepsTo(log[active], free, reserve[active], kv, reserved)
    BY <1>f, <2>1 DEF FlashAt
  <2> QED BY <2>1, <2>2, <2>3 DEF FlashAt
<1>11. CASE StartAbandoned
  BY <1>11, FlashFrame DEF StartAbandoned
<1>12. CASE StartRoom
  BY <1>12, FlashFrame DEF StartRoom
<1>13. CASE StartRefused
  BY <1>13, FlashFrame DEF StartRefused, Reply
<1>14. CASE StartErase
  <2> DEFINE new == EraseStarting(log[active], free, RecSize)
  <2>1. /\ pc = "room" /\ pc' = "data" /\ ~Refused /\ log' = [log EXCEPT ![active] = new]
        /\ UNCHANGED <<master, reserve, active, free, kv, reserved>>
    BY <1>14 DEF StartErase
  <2>2. Clean(log[active], free) /\ ~(free + RecSize > geo.size)
    BY <2>1 DEF EraseInv, Refused
  <2>3. RecSize \in Nat /\ RecSize > 1 /\ geo.size \in Nat /\ free >= 1
    BY <1>0, Geometry, TypeFacts
  <2>4. /\ \A u \in Units : u < free => new[u] = log[active][u]
        /\ \A u \in Units : u \in free .. free + RecSize - 1 => new[u] = Erased
    <3>1. \A u \in Units : u < free => new[u] = log[active][u]
      BY ONLY <1>0, <2>3, EraseBefore
    <3>2. \A u \in Units : u \in free .. free + RecSize - 1 => new[u] = Erased
      BY <1>0, <2>2, <2>3, EraseGrows
    <3> QED BY <3>1, <3>2
  <2>5. free \in Units /\ free \in free .. free + RecSize - 1
    BY <1>0, <2>2, <2>3 DEF Units
  <2>6. ReadRecord(new, free) = Torn
    BY <2>4, <2>5, ReadTorn
  <2>7. log'[active] = new
    BY <1>0, <1>v, <2>1
  <2> HIDE DEF new
  <2>8. KeepsTo(new, free, reserve[active], kv, reserved)
    BY <1>0, <1>i, <2>1, <2>4, <2>6, KeepsSame
  <2> QED BY <1>i, <2>1, <2>7, <2>8 DEF FlashAt
<1>15. CASE AddData
  <2>1. /\ pc = "data" /\ pc' = "header" /\ Program(active, free, geo.hdr, Torn)
        /\ UNCHANGED <<master, reserve, active, free, kv, reserved>>
    BY <1>15 DEF AddData
  <2>2. log[active][free] = Erased /\ geo.hdr \in Nat
    <3>1. free \in free .. free + RecSize - 1 /\ geo.hdr \in Nat
      BY <1>0, Geometry
    <3> QED BY <1>a, <2>1, <3>1 DEF EraseInv, ProgramsErased
  <2>3. ReadRecord(log'[active], free) = Torn
    BY <2>1, <2>2, TornProgram
  <2>4. KeepsTo(log'[active], free, reserve[active], kv, reserved)
    BY <1>i, <2>1, <2>2, <2>3, KeepsProgram
  <2> QED BY <1>i, <2>1, <2>4 DEF FlashAt
<1>16. CASE HeaderTorn
  <2>1. /\ pc = "header" /\ pc' = "finalize" /\ Program(active, free, 0, Torn) /\ 0 \in Nat
        /\ UNCHANGED <<master, reserve, active, free, kv, reserved>>
    BY <1>16 DEF HeaderTorn
  <2>2. ReadRecord(log'[active], free) = Torn
    BY <2>1, TornProgram
  <2>3. KeepsTo(log'[active], free, reserve[active], kv, reserved)
    BY <1>i, <2>1, <2>2, KeepsProgram
  <2> QED BY <1>i, <2>1, <2>3 DEF FlashAt
<1>17. CASE Finalize
  <2>1. /\ pc = "finalize" /\ Program(active, free, 0, Record) /\ 0 \in Nat
        /\ UNCHANGED <<master, reserve, active, free, call, reserved>>
        /\ pc' = IF committed' THEN "update" ELSE "gc"
        /\ committed' = (ReadRecord(log'[active], free) # Torn)
        /\ kv' = IF committed' THEN [kv EXCEPT ![call[2]] = Record[2]] ELSE kv
    BY <1>17 DEF Finalize
  <2>2. CASE ~committed'
    <3>1. KeepsTo(log'[active], free, reserve[active], kv, reserved)
      BY <1>i, <2>1, <2>2, KeepsProgram
    <3> QED BY <1>i, <2>1, <2>2, <3>1 DEF FlashAt
  <2>3. CASE committed'
    <3>1. call[1] \in {"set", "remove"} /\ call[2] \in Keys /\ Record \in Records /\ Record = <<call[2], Record[2]>>
      <4>1. call[1] \in {"set", "remove"} /\ call[2] \in Keys /\ Record \in Records
        BY <2>1, CallShape, TypeFacts DEF CallInv
      <4> QED BY <4>1 DEF Record
    <3>2. ReadRecord(log'[active], free) = Record
      <4>1. NamedInv'
        BY NamedStep
      <4> QED BY <2>1, <2>3, <4>1, GeoKept, NamedPrime DEF RecordOf, Record
    <3>3. Clean(log'[active], free + RecSize)
      <4>1. CleanInv(log', active', free', pc', open', gcTo')
        BY EraseStep, GeoKept, ErasePrime
      <4> QED BY <2>1, <2>3, <4>1 DEF CleanInv
    <3>4. \A u \in Units : u < free => log'[active][u] = log[active][u]
      <4>1. \A u \in Units : u < free + 0 \/ u >= free + RecSize => log'[active][u] = log[active][u]
        BY <1>0, <2>1, Programmed
      <4>2. \A u \in Units : u < free => u < free + 0
        BY <1>0
      <4> QED BY <4>1, <4>2
    <3>5. <<call[2], Record[2]>> # Torn /\ kv \in [Keys -> Values \cup {None}]
      BY <1>0, <3>1, Contain DEF Types
    <3>6. KeepsTo(log[active], free, reserve[active], kv, reserved)
      BY <1>i, <2>1
    <3>7. ReadRecord(log'[active], free) = <<call[2], Record[2]>>
      BY <3>1, <3>2
    <3> DEFINE k == call[2]
               x == Record[2]
               units == log[active]
               vnits == log'[active]
               v == reserve[active]
               w == kv'
    <3>a. /\ KeepsTo(units, free, v, kv, reserved) /\ \A u \in Units : u < free => vnits[u] = units[u]
          /\ k \in Keys /\ ReadRecord(vnits, free) = <<k, x>> /\ <<k, x>> # Torn
          /\ Clean(vnits, free + RecSize)
      BY <3>1, <3>3, <3>4, <3>5, <3>6, <3>7
    <3>b. w = [kv EXCEPT ![k] = x] /\ kv \in [Keys -> Values \cup {None}]
      BY <2>1, <2>3, <3>5
    <3>8. KeepsTo(vnits, free + RecSize, v, w, reserved)
      <4> HIDE DEF k, x, units, vnits, v, w
      <4> QED BY ONLY <1>0, Straddling, <3>a, <3>b, KeepsMore
    <3>9. KeepsTo(log'[active'], free' + RecSize, reserve'[active'], kv', reserved') /\ pc' = "update"
      BY <2>1, <2>3, <3>8
    <3> QED BY <1>i, <2>1, <3>9 DEF FlashAt
  <2> QED BY <2>2, <2>3
<1>18. CASE UpdateTable
  <2>1. /\ pc = "update" /\ free' = free + RecSize
        /\ pc' = IF ReadRecord(log[active], free') # Torn THEN "clear" ELSE "return"
        /\ UNCHANGED <<log, master, reserve, active, kv, reserved>>
    BY <1>18 DEF UpdateTable
  <2>2. /\ IsVersion(master[active]) /\ ~IsVersion(master[1 - active])
        /\ KeepsTo(log[active], free', reserve[active], kv, reserved)
    BY <1>f, <2>1 DEF FlashAt
  <2>3. pc' = "return"
    BY <1>0, <2>1, <2>2, KeepsEnd
  <2> QED BY <2>1, <2>2, <2>3 DEF FlashAt
<1>19. CASE ClearNext
  BY <1>i, <1>19 DEF ClearNext
<1>20. CASE SetReturns
  BY <1>20, FlashFrame DEF SetReturns, Reply
<1>21. CASE ReserveRefused
  BY <1>21, FlashFrame DEF ReserveRefused, Reply
<1>22. CASE ReserveData
  <2>1. /\ pc = "reserve" /\ pc' = "trailer" /\ reserve[active] = Erased
        /\ reserve' = [reserve EXCEPT ![active] = Torn]
        /\ UNCHANGED <<log, master, active, free, kv, reserved>>
    BY <1>22 DEF ReserveData
  <2>2. reserve'[active] = Torn
    BY <1>0, <1>v, <2>1
  <2>3. KeepsTo(log[active], free, Erased, kv, reserved) => KeepsTo(log[active], free, Torn, kv, reserved)
    BY <1>w DEF KeepsTo
  <2> QED BY <1>i, <2>1, <2>2, <2>3 DEF FlashAt
<1>23. CASE ReserveTrailer
  <2>1. /\ pc = "trailer" /\ pc' = "return" /\ reserved' = TRUE
        /\ reserve' = [reserve EXCEPT ![active] = Written]
        /\ UNCHANGED <<log, master, active, free, kv>>
    BY <1>23 DEF ReserveTrailer
  <2>2. reserve'[active] = Written
    BY <1>0, <1>v, <2>1
  <2>3. KeepsTo(log[active], free, reserve[active], kv, reserved) => KeepsTo(log[active], free, Written, kv, TRUE)
    BY DEF KeepsTo
  <2> QED BY <1>i, <2>1, <2>2, <2>3 DEF FlashAt
<1>24. CASE ResetFirst
  <2>1. /\ pc = "reset" /\ pc' = "resetSecond" /\ EraseHead({0}) /\ active' = active
        /\ active # 0 => UNCHANGED <<kv, reserved>>
    BY <1>24 DEF ResetFirst
  <2>2. /\ EndsIn(log'[0], 0) /\ ~IsVersion(master'[0])
        /\ log'[1] = log[1] /\ master'[1] = master[1] /\ reserve'[1] = reserve[1]
    BY <1>0, <1>h, <2>1
  <2>3. CASE active = 0
    BY <1>0, <1>i, <2>1, <2>2, <2>3 DEF FlashAt
  <2>4. CASE active = 1
    <3>1. KeepsAt(log[1], reserve[1], kv, reserved) /\ IsVersion(master[1])
      BY <1>i, <2>1, <2>4, KeepsAnywhere
    <3> QED BY <1>0, <2>1, <2>2, <2>4, <3>1 DEF FlashAt
  <2> QED BY <1>0, <2>3, <2>4
<1>25. CASE ResetSecond
  <2>1. pc = "resetSecond" /\ pc' = "master" /\ ret' = "reset" /\ EraseHead({1})
    BY <1>25 DEF ResetSecond
  <2>2. ~IsVersion(master'[1]) /\ log'[0] = log[0] /\ master'[0] = master[0]
    BY <1>0, <1>h, <2>1
  <2>3. ~IsVersion(master[0]) /\ EndsIn(log[0], 0)
    BY <1>f, <2>1 DEF FlashAt
  <2> QED BY <2>1, <2>2, <2>3 DEF FlashAt
<1>26. CASE WriteFails
  <2> DEFINE from == IF pc = "data" THEN geo.hdr ELSE 0
  <2>1. /\ pc \in Writing /\ pc' = "gc" /\ Program(active, free, from, Torn)
        /\ UNCHANGED <<master, reserve, active, free, kv, reserved>>
    BY <1>26 DEF WriteFails
  <2>2. from \in Nat /\ (from = 0 \/ log[active][free] = Erased)
    <3>1. free \in free .. free + RecSize - 1 /\ geo.hdr \in Nat
      BY <1>0, Geometry
    <3> QED BY <1>a, <3>1 DEF EraseInv, ProgramsErased
  <2> HIDE DEF from
  <2>3. ReadRecord(log'[active], free) = Torn
    BY <2>1, <2>2, TornProgram
  <2>4. KeepsTo(log'[active], free, reserve[active], kv, reserved)
    BY <1>i, <2>1, <2>2, <2>3, KeepsProgram
  <2> QED BY <1>i, <2>1, <2>4 DEF FlashAt
<1>27. CASE Abandon
  BY <1>27, FlashFrame DEF Abandon, Reply
<1>28. CASE ReserveFails
  BY <1>28, FlashFrame DEF ReserveFails, Reply
<1>29. CASE PowerLoss
  <2>1. UNCHANGED <<log, master, reserve, kv, reserved>> /\ pc' = "off"
    BY <1>29 DEF PowerLoss
  <2> QED BY <1>r, <2>1 DEF FlashAt
<1>30. ASSUME NEW c \in Calls, Begin(c) PROVE Goal
  <2>1. c[1] \in {"set", "remove", "reserve", "reset"}
    <3>1. c[1] # "idle"
      BY DEF Calls
    <3> QED BY <3>1, CallKinds
  <2>2. pc = "ready" /\ pc' \in {"open", "reserve", "reset"} /\ UNCHANGED <<log, master, reserve, active, free, kv, reserved>>
    BY <1>30, <2>1 DEF Begin
  <2> QED BY <2>2, FlashFrame
<1>31. CASE UNCHANGED vars
  BY <1>f, <1>31 DEF vars
<1> QED BY <1>1, <1>2, <1>3, <1>4, <1>5, <1>6, <1>7, <1>8, <1>9, <1>10, <1>11, <1>12, <1>13, <1>14, <1>15, <1>16, <1>17, <1>18, <1>19, <1>20, <1>21, <1>22, <1>23, <1>24, <1>25, <1>26, <1>27, <1>28, <1>29, <1>30, <1>31 DEF Normal

-----------------------------------------------------------------------------
(* The invariant *)

\* What a start finds, where power may be lost.
BootLaw == Types /\ FlashInv /\ pc = "off" => Recoverable

\* The proof of BootLaw.
LEMMA BootHolds == BootLaw
BY RecoverIs DEF BootLaw, FlashInv, FlashAt

\* Where power is not lost, the device starts once.
LEMMA BootOnce ==
  ASSUME CallInv, BootInv, [Normal]_vars, "crash" \notin geo.faults
  PROVE  /\ pc' \notin {"init", "halted"} /\ ret' # "init"
         /\ pc' = "off" => UNCHANGED vars
<1> USE DEF ramVars, gcVars, apiVars
<1>b. pc \notin {"init", "halted"} /\ ret # "init" /\ (pc = "off" => ~Valid(0) /\ ~Valid(1))
  BY DEF BootInv
<1>1. CASE InitEmpty \/ InitScan \/ InitAbort
  BY <1>b, <1>1 DEF InitEmpty, InitScan, InitAbort
<1>2. CASE GcErase \/ GcReserve \/ GcCopy \/ GcSwitch
  BY <1>b, <1>2 DEF GcErase, GcReserve, GcCopy, GcSwitch
<1>3. CASE MasterTorn \/ MasterDone \/ GcReset
  BY <1>b, <1>3 DEF MasterTorn, MasterDone, GcReset, Reply
<1>4. CASE StartAbandoned \/ StartRoom \/ StartRefused \/ StartErase
  BY <1>b, <1>4 DEF StartAbandoned, StartRoom, StartRefused, StartErase, Reply
<1>5. CASE AddData \/ HeaderTorn \/ Finalize
  BY <1>b, <1>5 DEF AddData, HeaderTorn, Finalize
<1>6. CASE UpdateTable \/ ClearNext \/ SetReturns
  BY <1>b, <1>6 DEF UpdateTable, ClearNext, SetReturns, Reply
<1>7. CASE ReserveRefused \/ ReserveData \/ ReserveTrailer \/ ReserveFails
  BY <1>b, <1>7 DEF ReserveRefused, ReserveData, ReserveTrailer, ReserveFails, Reply
<1>8. CASE ResetFirst \/ ResetSecond
  BY <1>b, <1>8 DEF ResetFirst, ResetSecond
<1>9. CASE WriteFails \/ Abandon
  BY <1>b, <1>9 DEF WriteFails, Abandon, Reply
<1>10. CASE PowerLoss
  BY <1>10 DEF PowerLoss, Fault
<1>11. ASSUME NEW c \in Calls, Begin(c) PROVE pc' \in {"open", "reserve", "reset"} /\ ret' # "init"
  <2>1. c[1] \in {"set", "remove", "reserve", "reset"}
    <3>1. c[1] # "idle"
      BY DEF Calls
    <3> QED BY <3>1, CallKinds
  <2> QED BY <1>b, <1>11, <2>1 DEF Begin
<1>12. CASE UNCHANGED vars
  BY <1>b, <1>12 DEF vars
<1> QED BY <1>1, <1>2, <1>3, <1>4, <1>5, <1>6, <1>7, <1>8, <1>9, <1>10, <1>11, <1>12 DEF Normal

\* A start finds what the calls so far have left.
LEMMA BootStep ==
  ASSUME Types, CallInv, BootInv, [Normal]_vars, Types', Reliable, Straddling => FlashInv'
  PROVE  BootInv'
<1>g. geo' = geo
  BY GeoKept
<1>1. ASSUME pc' = "off" PROVE Recoverable'
  <2>1. CASE Straddling
    <3>1. BootLaw'
      BY BootHolds, PTL
    <3> QED BY <1>1, <2>1, <3>1 DEF BootLaw
  <2>2. CASE ~Straddling
    <3>1. "crash" \notin geo.faults
      BY <2>2 DEF Reliable
    <3>2. UNCHANGED vars /\ pc = "off"
      <4>1. UNCHANGED vars
        BY <1>1, <3>1, BootOnce
      <4> QED BY <1>1, <4>1 DEF vars
    <3>3. Recoverable
      BY <3>2 DEF BootInv
    <3>4. UNCHANGED <<geo, log, master, reserve, kv, reserved>>
      BY <3>2 DEF vars, apiVars
    <3>5. \A a, i : RecordAt(a, i)' = RecordAt(a, i)
      BY <3>4, RecordPrime DEF RecordAt
    <3>6. MaxRecords' = MaxRecords
      BY <3>4, Fixed
    <3>7. \A a, i : InLog(a, i)' = InLog(a, i)
      BY <3>5 DEF InLog
    <3>8. \A a, k, i : IsLatest(a, k, i)' = IsLatest(a, k, i)
      BY <3>5, <3>6, <3>7 DEF IsLatest
    <3>9. \A a, k : LatestOf(a, k)' = LatestOf(a, k)
      BY <3>6, <3>8 DEF LatestOf
    <3>10. ASSUME NEW a, NEW k PROVE ValueIn(a, k)' = ValueIn(a, k)
      <4> DEFINE c == CHOOSE i \in LatestOf(a, k) : TRUE
      <4>1. c' = c
        BY <3>9
      <4>2. RecordAt(a, c)' = RecordAt(a, c)
        <5> HIDE DEF c
        <5> QED BY <4>1, <3>4 DEF RecordAt, ReadRecord, Readable, Offset, RecSize, First
      <4>3. /\ ValueIn(a, k) = IF LatestOf(a, k) = {} THEN None ELSE RecordAt(a, c)[2]
            /\ ValueIn(a, k)' = IF LatestOf(a, k)' = {} THEN None ELSE RecordAt(a, c)'[2]
        BY DEF ValueIn
      <4> HIDE DEF c
      <4> QED BY <3>9, <4>2, <4>3
    <3>11. ChooseArea' = ChooseArea /\ \A a : Valid(a)' = Valid(a)
      BY <3>4 DEF ChooseArea, Valid
    <3>12. Recovered' = Recovered
      BY <3>10, <3>11 DEF Recovered
    <3>13. RecoveredReserve' = RecoveredReserve
      BY <3>4, <3>11 DEF RecoveredReserve
    <3> QED BY <3>3, <3>4, <3>12, <3>13 DEF Recoverable
  <2> QED BY <2>1, <2>2
<1>2. ASSUME "crash" \notin geo'.faults
      PROVE  pc' \notin {"init", "halted"} /\ ret' # "init" /\ (pc' = "off" => ~Valid(0)' /\ ~Valid(1)')
  <2>1. "crash" \notin geo.faults
    BY <1>2, <1>g
  <2>2. pc' \notin {"init", "halted"} /\ ret' # "init" /\ (pc' = "off" => UNCHANGED vars)
    BY <2>1, BootOnce
  <2>3. ASSUME pc' = "off" PROVE ~Valid(0)' /\ ~Valid(1)'
    <3>1. UNCHANGED vars
      BY <2>2, <2>3
    <3>2. pc = "off" /\ master' = master
      BY <2>3, <3>1 DEF vars
    <3> QED BY <2>1, <3>2 DEF BootInv, Valid
  <2> QED BY <2>2, <2>3
<1> QED BY <1>1, <1>2 DEF BootInv

\* The layout does not change.
LEMMA LayoutKept ==
  ASSUME [Next]_vars
  PROVE  geo' = geo /\ Assured' = Assured /\ Straddling' = Straddling /\ Reliable' = Reliable
<1>1. ASSUME [Normal]_vars PROVE geo' = geo
  BY <1>1, GeoKept
<1>2. ASSUME GcOverrun \/ GcStuck \/ GcFails \/ ResetFails PROVE geo' = geo
  BY <1>2 DEF GcOverrun, GcStuck, GcFails, GcError, ResetFails
<1>3. geo' = geo
  BY <1>1, <1>2 DEF Next, Step, Normal
<1> QED BY <1>3, Fixed

\* The invariant holds at the start of an assured layout and no step breaks it.
THEOREM StoreInductive ==
  /\ Init /\ Assured => IInv
  /\ IInv /\ [Next]_vars => IInv'
<1>1. Init /\ Assured => IInv
  BY BasicInit, FlashInit DEF IInv
<1>2. ASSUME IInv, [Next]_vars PROVE IInv'
  <2>1. /\ Types /\ CallInv /\ RangeInv /\ EraseInv /\ NamedInv
        /\ Reliable => RamInv /\ BootInv
        /\ Straddling => FlashInv
    BY <1>2 DEF IInv
  <2>n. [Normal]_vars
    BY <1>2, <2>1, NormalStep
  <2>2. Types' /\ CallInv' /\ RangeInv' /\ EraseInv' /\ NamedInv'
    BY <2>n, <2>1, TypesStep, CallStep, RangeStep, EraseStep, NamedStep
  <2>3. Straddling' = Straddling /\ Reliable' = Reliable
    BY <1>2, LayoutKept
  <2>4. Straddling => Reliable
    BY DEF Reliable
  <2>5. ASSUME Straddling PROVE FlashInv'
    BY <2>n, <2>1, <2>4, <2>5, FlashInvStep
  <2>6. ASSUME Reliable PROVE RamInv' /\ BootInv'
    <3>1. RamInv'
      BY <2>n, <2>1, <2>6, RamStep
    <3>2. BootInv'
      BY <2>n, <2>1, <2>2, <2>5, <2>6, BootStep
    <3> QED BY <3>1, <3>2
  <2> QED BY <2>2, <2>3, <2>5, <2>6 DEF IInv
<1> QED BY <1>1, <1>2

\* Every state of the store on an assured layout satisfies the inductive invariant.
THEOREM StoreInvariant == Spec /\ Assured => []IInv
BY StoreInductive, PTL DEF Spec

\* A layout that is not assured stays so.
LEMMA NotAssured == Spec /\ ~Assured => []~Assured
<1>1. ~Assured /\ [Next]_vars => ~Assured'
  BY LayoutKept
<1> QED BY <1>1, PTL DEF Spec

\* Offsets, versions and flash contents of the store have their types and never leave the area,
\* with the entry of the master record that a start adds and its copies, across every wrap of
\* the version and every garbage collection, for every assured layout and any number of faults.
THEOREM StoreTyped == Spec /\ Assured => []TypeOK
<1>1. IInv => TypeOK
  BY DEF IInv, Types
<1> QED BY <1>1, StoreInvariant, PTL

\* check_erase_before_write is enough: what set_start is about to program is erased, on every
\* assured layout, straddling or not, and after any history of power losses and failed sets.
THEOREM StoreProgramsErased == Spec => []ProgramsErased
<1>1. IInv => ProgramsErased
  BY DEF IInv, EraseInv
<1>2. ~Assured => ProgramsErased
  BY DEF ProgramsErased
<1> QED BY <1>1, <1>2, StoreInvariant, NotAssured, PTL

\* At every instant a power loss loses nothing, on every assured layout on which no record
\* begins with an erase unit.
THEOREM StoreDurable == Spec => []Durable
<1>1. IInv => Durable
  <2> SUFFICES ASSUME IInv, Straddling PROVE Recoverable
    BY DEF Durable
  <2>1. Types /\ CallInv /\ RamInv /\ FlashInv
    BY DEF IInv, Reliable
  <2> QED BY <2>1, FlashRecoverable, RecoverIs
<1>2. ~Assured => Durable
  BY DEF Durable
<1> QED BY <1>1, <1>2, StoreInvariant, NotAssured, PTL

\* Between calls get returns what a start would recover, though entries have moved and the
\* table has one that is nobody's.
THEOREM StoreGetAgrees == Spec => []GetAgrees
<1>1. IInv => GetAgrees
  <2> SUFFICES ASSUME IInv, Straddling, pc = "ready", NEW k \in Keys PROVE Get(k) = Recovered[k]
    BY DEF GetAgrees
  <2>1. Types /\ CallInv /\ RangeInv /\ NamedInv /\ RamInv /\ FlashInv
    BY DEF IInv, Reliable
  <2>2. Recovered = kv
    BY <2>1, FlashRecoverable, RecoverIs DEF Recoverable
  <2>3. TableAt(log, pc, active, table, gcInd, call, kv)
    BY <2>1 DEF RamInv, TableInv, TableAt, Points, PointsAt, AreaOf, Listed
  <2> QED BY <2>1, <2>2, <2>3, GetIs
<1>2. ~Assured => GetAgrees
  BY DEF GetAgrees
<1> QED BY <1>1, <1>2, StoreInvariant, NotAssured, PTL

-----------------------------------------------------------------------------
(* The interface *)

\* Every step is a step of the interface or none.
LEMMA InterfaceStep ==
  ASSUME Types, CallInv, RamInv, [Normal]_vars
  PROVE  [Interface!Next]_(Interface!kvVars)
<1> DEFINE Same == UNCHANGED <<kv, reserved, call, committed, result>>
<1> USE DEF ramVars, gcVars, apiVars, Writing, Collecting
<1>0. committed \in BOOLEAN /\ reserved \in BOOLEAN /\ call \in Calls \cup {Idle}
      /\ kv \in [Keys -> Values \cup {None}]
  BY DEF Types, TypeOK
<1>k. /\ call[1] \in {"set", "remove"} => call[2] \in Keys /\ call # Idle
      /\ call = <<"reserve">> => call # Idle
      /\ call = <<"reset">> => call # Idle
      /\ call[1] = "set" => Record = <<call[2], call[3]>>
      /\ call[1] = "remove" => Record = <<call[2], None>>
  BY <1>0, CallShape DEF Idle
<1>s. Same => [Interface!Next]_(Interface!kvVars)
  BY DEF Interface!kvVars
<1>r. ASSUME NEW res, Reply(res), call # Idle, res = IF committed THEN "ok" ELSE "error"
      PROVE  [Interface!Next]_(Interface!kvVars)
  BY <1>r DEF Reply, Interface!Next, Interface!Return, Interface!Idle, Idle
<1>c. ASSUME call # Idle, ~committed, Interface!Permitted(call), kv' = Interface!Applied(kv, call),
             reserved' = (call[1] # "reset" /\ (reserved \/ call[1] = "reserve")), committed' = TRUE,
             UNCHANGED <<call, result>>
      PROVE  [Interface!Next]_(Interface!kvVars)
  BY <1>c DEF Interface!Next, Interface!Commit, Interface!Idle, Idle
<1>1. CASE InitEmpty \/ InitScan \/ InitAbort
  BY <1>1, <1>s DEF InitEmpty, InitScan, InitAbort
<1>2. CASE GcErase \/ GcReserve \/ GcCopy \/ GcSwitch \/ MasterTorn
  BY <1>2, <1>s DEF GcErase, GcReserve, GcCopy, GcSwitch, MasterTorn
<1>3. CASE MasterDone
  <2>1. CASE ret # "reset"
    BY <1>3, <1>s, <2>1 DEF MasterDone
  <2>2. CASE ret = "reset"
    <3>1. Reply("ok") /\ pc = "master" /\ call = <<"reset">> /\ committed
      BY <1>3, <2>2 DEF MasterDone, CallInv
    <3> QED BY <1>k, <1>r, <3>1
  <2> QED BY <2>1, <2>2
<1>4. CASE GcReset
  <2>1. CASE ret \in {"init", "start", "room"}
    BY <1>4, <1>s, <2>1 DEF GcReset
  <2>2. CASE ret = "failed"
    <3>1. Reply("error") /\ call[1] \in {"set", "remove"} /\ ~committed
      BY <1>4, <2>2 DEF GcReset, CallInv
    <3> QED BY <1>k, <1>r, <3>1
  <2> QED BY <1>4, <2>1, <2>2 DEF GcReset
<1>5. CASE StartAbandoned \/ StartRoom \/ StartErase \/ AddData \/ HeaderTorn
  BY <1>5, <1>s DEF StartAbandoned, StartRoom, StartErase, AddData, HeaderTorn
<1>6. CASE StartRefused
  <2>1. Reply("error") /\ call[1] \in {"set", "remove"} /\ ~committed
    BY <1>6 DEF StartRefused, CallInv
  <2> QED BY <1>k, <1>r, <2>1
<1>7. CASE Finalize
  <2>1. /\ pc = "finalize" /\ UNCHANGED <<call, result, reserved>>
        /\ committed' \in BOOLEAN
        /\ kv' = IF committed' THEN [kv EXCEPT ![call[2]] = Record[2]] ELSE kv
    BY <1>7 DEF Finalize
  <2>2. call[1] \in {"set", "remove"} /\ ~committed
    BY <2>1 DEF CallInv
  <2>3. CASE ~committed'
    BY <1>0, <1>s, <2>1, <2>2, <2>3
  <2>4. CASE committed'
    <3>1. Interface!Permitted(call)
      BY <2>1, <2>2 DEF RamInv, Allowed, Interface!Permitted
    <3>2. kv' = Interface!Applied(kv, call)
      <4>1. kv' = [kv EXCEPT ![call[2]] = Record[2]]
        BY <2>1, <2>4
      <4>2. CASE call[1] = "set"
        <5>1. Record[2] = call[3]
          BY <1>k, <4>2
        <5>2. Interface!Applied(kv, call) = [kv EXCEPT ![call[2]] = call[3]]
          BY <4>2 DEF Interface!Applied
        <5> QED BY <4>1, <5>1, <5>2
      <4>3. CASE call[1] = "remove"
        <5>1. Record[2] = None
          BY <1>k, <4>3
        <5>2. Interface!Applied(kv, call) = [kv EXCEPT ![call[2]] = None]
          BY <4>3 DEF Interface!Applied
        <5> QED BY <4>1, <5>1, <5>2
      <4> QED BY <2>2, <4>2, <4>3
    <3>3. reserved' = (call[1] # "reset" /\ (reserved \/ call[1] = "reserve"))
      BY <1>0, <2>1, <2>2
    <3> QED BY <1>c, <1>k, <2>1, <2>2, <2>4, <3>1, <3>2, <3>3
  <2> QED BY <2>3, <2>4
<1>8. CASE UpdateTable \/ ClearNext \/ ReserveData
  BY <1>8, <1>s DEF UpdateTable, ClearNext, ReserveData
<1>9. CASE SetReturns
  <2>1. Reply("ok") /\ call # Idle /\ committed
    BY <1>9 DEF SetReturns, CallInv
  <2> QED BY <1>r, <2>1
<1>10. CASE ReserveRefused \/ ReserveFails
  <2>1. Reply("error") /\ call = <<"reserve">> /\ ~committed
    BY <1>10 DEF ReserveRefused, ReserveFails, CallInv
  <2> QED BY <1>k, <1>r, <2>1
<1>11. CASE ReserveTrailer
  <2>1. /\ pc = "trailer" /\ committed' = TRUE /\ reserved' = TRUE /\ UNCHANGED <<call, result, kv>>
    BY <1>11 DEF ReserveTrailer
  <2>2. call = <<"reserve">> /\ ~committed /\ call[1] = "reserve"
    BY <2>1 DEF CallInv
  <2>3. ~reserved
    BY <2>1 DEF RamInv
  <2>4. Interface!Permitted(call) /\ kv' = Interface!Applied(kv, call)
    BY <2>1, <2>2, <2>3 DEF Interface!Permitted, Interface!Applied
  <2> QED BY <1>c, <1>k, <2>1, <2>2, <2>4
<1>12. CASE ResetFirst
  <2>1. pc = "reset" /\ UNCHANGED <<call, result>>
    BY <1>12 DEF ResetFirst
  <2>2. call = <<"reset">> /\ ~committed /\ call[1] = "reset"
    BY <2>1 DEF CallInv
  <2>3. CASE active = 0
    <3>1. committed' = TRUE /\ kv' = [k \in Keys |-> None] /\ reserved' = FALSE
      BY <1>12, <2>3 DEF ResetFirst, Cleared
    <3>2. Interface!Permitted(call) /\ kv' = Interface!Applied(kv, call)
      BY <2>2, <3>1 DEF Interface!Permitted, Interface!Applied, Interface!Empty
    <3> QED BY <1>c, <1>k, <2>1, <2>2, <3>1, <3>2
  <2>4. CASE active # 0
    BY <1>12, <1>s, <2>4 DEF ResetFirst
  <2> QED BY <2>3, <2>4
<1>13. CASE ResetSecond
  <2>1. /\ pc = "resetSecond" /\ UNCHANGED <<call, result>>
        /\ committed' = TRUE /\ kv' = [k \in Keys |-> None] /\ reserved' = FALSE
    BY <1>13 DEF ResetSecond, Cleared
  <2>2. call = <<"reset">> /\ call[1] = "reset" /\ (committed <=> active = 0)
    BY <2>1 DEF CallInv
  <2>3. CASE active = 0
    <3>1. kv = [k \in Keys |-> None] /\ reserved = FALSE /\ committed = TRUE
      BY <1>0, <2>1, <2>2, <2>3 DEF RamInv, Empty
    <3> QED BY <1>s, <2>1, <3>1
  <2>4. CASE active # 0
    <3>1. Interface!Permitted(call) /\ kv' = Interface!Applied(kv, call)
      BY <2>1, <2>2 DEF Interface!Permitted, Interface!Applied, Interface!Empty
    <3> QED BY <1>c, <1>k, <2>1, <2>2, <2>4, <3>1
  <2> QED BY <2>3, <2>4
<1>14. CASE WriteFails
  BY <1>14, <1>s DEF WriteFails
<1>15. CASE Abandon
  <2>1. Reply("error") /\ call[1] \in {"set", "remove"} /\ ~committed
    BY <1>15 DEF Abandon, CallInv
  <2> QED BY <1>k, <1>r, <2>1
<1>16. CASE PowerLoss
  BY <1>16 DEF PowerLoss, Idle, Interface!Next, Interface!PowerLoss, Interface!Idle
<1>17. ASSUME NEW c \in Calls, Begin(c) PROVE [Interface!Next]_(Interface!kvVars)
  <2>1. Interface!Begin(c)
    BY <1>17 DEF Begin, Idle, Interface!Begin, Interface!Idle
  <2>2. c \in Interface!Calls
    BY DEF Calls, Interface!Calls
  <2> QED BY <2>1, <2>2 DEF Interface!Next
<1>18. CASE UNCHANGED vars
  BY <1>18, <1>s DEF vars
<1> QED BY <1>1, <1>2, <1>3, <1>4, <1>5, <1>6, <1>7, <1>8, <1>9, <1>10, <1>11, <1>12, <1>13, <1>14, <1>15, <1>16, <1>17, <1>18 DEF Normal

\* TDBStore implements KVStore where no record begins with an erase unit or no power is lost:
\* a call takes effect at one instant, only if it is permitted, and its result tells the truth.
THEOREM StoreImplementsKVStore == Spec /\ Reliable => ImplementsKVStore
<1>1. Init => Interface!Init
  BY DEF Init, Idle, Interface!Init, Interface!Idle, Interface!Empty
<1>2. IInv /\ Reliable /\ [Next]_vars => [Assured => Interface!Next]_(Interface!kvVars)
  <2> SUFFICES ASSUME IInv, Reliable, [Next]_vars PROVE [Interface!Next]_(Interface!kvVars)
    OBVIOUS
  <2>1. Types /\ CallInv /\ RangeInv /\ NamedInv /\ RamInv
    BY DEF IInv
  <2>2. [Normal]_vars
    BY <2>1, NormalStep
  <2> QED BY <2>1, <2>2, InterfaceStep
<1>3. Reliable /\ [Next]_vars => Reliable'
  BY LayoutKept
<1>4. ~Assured => [Assured => Interface!Next]_(Interface!kvVars)
  OBVIOUS
<1> QED BY <1>1, <1>2, <1>3, <1>4, StoreInvariant, NotAssured, PTL DEF Spec, ImplementsKVStore

=============================================================================
