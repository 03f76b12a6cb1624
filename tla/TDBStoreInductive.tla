------------------------- MODULE TDBStoreInductive -------------------------
(***************************************************************************)
(* The inductive invariant of TDBStore, in the parts it is proved in.      *)
(***************************************************************************)
EXTENDS TDBStore

Collecting == {"gc", "gcReserve", "gcCopy"}
Writing == {"data", "header", "finalize"}
Pcs == {"off", "halted", "init", "ready", "master", "gcReset", "open", "start", "room", "update",
        "clear", "return", "reserve", "trailer", "reset", "resetSecond"} \cup Collecting \cup Writing
Rets == {"none", "booted", "reset", "init", "start", "room", "failed"}

Contents == {Erased, Torn} \cup (Records \X (0 .. RecSize))

\* Entries of the RAM table.
Entry == [key : Names, at : 0 .. geo.size - 1]

Types == /\ Assured /\ TypeOK
         /\ log \in [Areas -> [Units -> Contents]]
         /\ master \in [Areas -> {Erased, Torn} \cup 0 .. VersionMod - 1]
         /\ reserve \in [Areas -> {Erased, Torn, Written}]
         /\ table \in Seq(Entry)
         /\ kv \in [Keys -> Values \cup {None}] /\ reserved \in BOOLEAN
         /\ pc \in Pcs /\ ret \in Rets

-----------------------------------------------------------------------------
(***************************************************************************)
(* The point a call has reached says which call it is, and whether it has  *)
(* taken effect.                                                           *)
(***************************************************************************)
CallInv ==
  /\ pc \in Writing \cup {"open", "start", "room", "update", "clear"} \/ ret \in {"start", "room", "failed"} =>
       call[1] \in {"set", "remove"}
  /\ pc = "return" => call # Idle
  /\ pc \in {"reserve", "trailer"} => call = <<"reserve">>
  /\ pc \in {"reset", "resetSecond"} \/ ret = "reset" => call = <<"reset">>
  /\ pc \in {"off", "halted", "init", "ready"} \/ ret \in {"init", "booted"} => call = Idle
  /\ pc \in Collecting \cup {"gcReset"} => ret \in {"init", "start", "room", "failed"}
  /\ pc = "master" => ret # "none"
  /\ pc \notin Collecting \cup {"gcReset", "master"} => ret = "none"
  /\ committed <=> \/ pc \in {"update", "clear", "return"}
                   \/ pc = "resetSecond" /\ active = 0
                   \/ pc = "master" /\ ret = "reset"

-----------------------------------------------------------------------------
(***************************************************************************)
(* The log is full of records that can be read.  Without restarts the RAM  *)
(* table has no more entries than the log has records; after one it may    *)
(* have one more, for the master record, but never more than an area has   *)
(* room for.  So a copy of its records fits.                               *)
(***************************************************************************)
RangeInv ==
  /\ \E n \in 0 .. MaxRecords : /\ free = Offset(n + 1)
                                /\ ("crash" \in geo.faults \/ Len(table) <= n)
                                /\ \A i \in 1 .. n : Readable(Offset(i))
  /\ \A i \in 1 .. Len(table) : Readable(Offset(i)) /\ Readable(table[i].at)
  /\ \A i \in 1 .. Len(table) : IF pc = "gcCopy" /\ i <= gcInd THEN table[i].at = Offset(i)
                                 ELSE table[i].at = 0 \/ table[i].at + RecSize <= free
  /\ pc = "gcReserve" => gcInd = 0
  /\ pc \in {"gcReserve", "gcCopy"} => gcInd <= Len(table) /\ gcTo = Offset(gcInd + 1)
  /\ pc \in Writing => free + RecSize <= geo.size

-----------------------------------------------------------------------------
(***************************************************************************)
(* From o on the erase unit that o lies in is erased, unless it begins     *)
(* with o: then it is erased before it is used.                            *)
(***************************************************************************)
Clean(units, o) ==
  o % geo.eu # 0 => \A u \in Units : u >= o /\ u \div geo.eu = o \div geo.eu => units[u] = Erased

EraseInv ==
  /\ pc \in {"ready", "open", "start", "room", "clear", "return", "reserve", "trailer"} /\ ~open =>
       Clean(log[active], free)
  /\ pc \in {"start", "room", "clear", "gcReset"} => ~open
  /\ pc \in Writing => open
  /\ ProgramsErased
  /\ pc \in Writing \cup {"update"} => Clean(log[active], free + RecSize)
  /\ pc \in {"gcReserve", "gcCopy"} => Clean(log[1 - active], gcTo)
  /\ pc \in {"master", "gcReset"} => Clean(log[active], free)
  /\ pc = "resetSecond" => Clean(log[0], First)

-----------------------------------------------------------------------------
(***************************************************************************)
(* The RAM table.                                                          *)
(***************************************************************************)
\* The layout permits power losses, or there are none.
Reliable == Straddling \/ "crash" \notin geo.faults

Empty == [k \in Keys |-> None]

Sorted(t) == \A i, j \in 1 .. Len(t) : i < j => t[i].key > t[j].key

\* The area in which the i-th entry of the table finds its record.
AreaOf(i) == IF pc = "gcCopy" /\ i <= gcInd THEN 1 - active ELSE active

\* An entry is that of the master record, or that of a record with its key.
Named(i) == \/ table[i] = [key |-> MasterKey, at |-> 0]
            \/ /\ table[i].at \in Units
               /\ ReadRecord(log[AreaOf(i)], table[i].at) # Torn
               /\ ReadRecord(log[AreaOf(i)], table[i].at)[1] = table[i].key

\* What find_record reads is an entry of the key that it is asked for.
NamedInv == /\ Sorted(table)
            /\ pc # "resetSecond" => \A i \in 1 .. Len(table) : Named(i)
            /\ pc = "update" => ReadRecord(log[active], free) = Record

Points(i) == /\ ReadRecord(log[AreaOf(i)], table[i].at) = <<table[i].key, kv[table[i].key]>>
             /\ kv[table[i].key] # None

Listed(k) == \E i \in 1 .. Len(table) : table[i].key = k

\* Every item but the one that is being set has its entry, and no other key has one.
TableInv ==
  /\ \A i \in 1 .. Len(table) :
       table[i].key \in Keys /\ ~(pc = "update" /\ table[i].key = call[2]) => Points(i)
  /\ \A k \in Keys : ~(pc = "update" /\ k = call[2]) /\ kv[k] # None => Listed(k)

\* The interface permits the set or remove that is under way.
Allowed == /\ kv[call[2]] = None \/ call[2] \notin WriteOnce
           /\ call[1] = "remove" => kv[call[2]] # None

RamInv ==
  /\ pc \notin {"off", "halted", "resetSecond"} => /\ TableInv
                                                   /\ reserve[active] = Written <=> reserved
  /\ pc = "gcCopy" => (reserve[1 - active] = Written <=> reserved)
  /\ pc = "gcReserve" => reserve[active] = Written
  /\ pc \in Writing => Allowed
  /\ pc = "update" => /\ kv[call[2]] = Record[2]
                      /\ call[1] = "remove" => Listed(call[2])
  /\ pc = "trailer" => reserve[active] # Written
  /\ pc = "resetSecond" => reserve[0] = Erased /\ (active = 0 => kv = Empty /\ ~reserved)
  /\ pc = "master" /\ ret \in {"booted", "reset"} =>
       kv = Empty /\ ~reserved /\ table = <<>> /\ active = 0 /\ free = First

\* Where power is not lost, a start finds an empty flash.
BootInv ==
  /\ pc = "off" => Recoverable
  /\ "crash" \notin geo.faults => /\ pc \notin {"init", "halted"} /\ ret # "init"
                                  /\ pc = "off" => ~Valid(0) /\ ~Valid(1)

-----------------------------------------------------------------------------
(***************************************************************************)
(* The flash.                                                              *)
(***************************************************************************)
\* A log of n records, and the items they leave.
Ends(a, n) == /\ \A i \in 1 .. n : RecordAt(a, i) # Torn
              /\ n < MaxRecords => RecordAt(a, n + 1) = Torn

RecordIn(units, i) == ReadRecord(units, Offset(i))

EndsIn(units, n) == /\ \A i \in 1 .. n : RecordIn(units, i) # Torn
                    /\ n < MaxRecords => RecordIn(units, n + 1) = Torn

Holds(units, n, m) ==
  \A k \in Keys :
    \/ m[k] = None /\ \A i \in 1 .. n : RecordIn(units, i)[1] # k
    \/ \E i \in 1 .. n : /\ RecordIn(units, i) = <<k, m[k]>>
                         /\ \A j \in i + 1 .. n : RecordIn(units, j)[1] # k

\* A start that chooses an area with this log and this reserved data recovers m and rd.
KeepsTo(units, o, v, m, rd) ==
  /\ \E n \in 0 .. MaxRecords : o = Offset(n + 1) /\ EndsIn(units, n) /\ Holds(units, n, m)
  /\ v = Written <=> rd
KeepsAt(units, v, m, rd) == \E n \in 0 .. MaxRecords : KeepsTo(units, Offset(n + 1), v, m, rd)

\* The choice of init, and what it recovers.
IsVersion(v) == v \in 0 .. VersionMod - 1
Picked(ms, a) == /\ IsVersion(ms[a])
                 /\ IsVersion(ms[1 - a]) => (a = 0 <=> ms[0] > ms[1] \/ ms[0] = 0)
RecoverAt(lg, ms, rs, m, rd) ==
  \/ ~IsVersion(ms[0]) /\ ~IsVersion(ms[1]) /\ m = Empty /\ ~rd
  \/ \E a \in Areas : Picked(ms, a) /\ KeepsAt(lg[a], rs[a], m, rd)

FlashAt(lg, ms, rs, p, r, act, f, ind, m, rd) ==
  /\ p \in {"off", "halted"} => RecoverAt(lg, ms, rs, m, rd)
  /\ p \notin {"off", "halted", "master", "gcReset", "resetSecond"} =>
       /\ IsVersion(ms[act]) /\ ~IsVersion(ms[1 - act])
       /\ KeepsTo(lg[act], IF p = "update" THEN f + RecSize ELSE f, rs[act], m, rd)
  /\ p # "clear"
  /\ p \in {"gcReserve", "gcCopy"} => EndsIn(lg[1 - act], ind)
  /\ p = "gcReset" \/ (p = "master" /\ r \notin {"booted", "reset"}) =>
       /\ IsVersion(ms[1 - act]) /\ KeepsAt(lg[1 - act], rs[1 - act], m, rd)
       /\ IsVersion(ms[act]) <=> p = "gcReset"
       /\ KeepsTo(lg[act], f, rs[act], m, rd)
  /\ p = "master" /\ r \in {"booted", "reset"} =>
       ~IsVersion(ms[0]) /\ ~IsVersion(ms[1]) /\ EndsIn(lg[0], 0)
  /\ p = "resetSecond" => /\ ~IsVersion(ms[0]) /\ EndsIn(lg[0], 0)
                          /\ IF act = 0 THEN ~IsVersion(ms[1])
                             ELSE IsVersion(ms[1]) /\ KeepsAt(lg[1], rs[1], m, rd)

FlashInv == FlashAt(log, master, reserve, pc, ret, active, free, gcInd, kv, reserved)

IInv == /\ Types /\ CallInv /\ RangeInv /\ EraseInv /\ NamedInv
        /\ Reliable => RamInv /\ BootInv
        /\ Straddling => FlashInv
=============================================================================
