------------------------------ MODULE TDBStore ------------------------------
(***************************************************************************)
(* The log-structured key-value store of the client                        *)
(* (kvstore/tdbstore/TDBStore.cpp): two flash areas, each a master record  *)
(* with a version and a log of records; a RAM table of the latest records; *)
(* a garbage collection that copies them to the other area and switches.   *)
(* Power may be lost between any two programs or erases, and a program may *)
(* fail.  The store implements KVStore.                                    *)
(*                                                                         *)
(* Offsets count units of flash.  Unit 0 of an area holds the reserved     *)
(* data and the master record, a record takes geo.hdr units of header and  *)
(* geo.body units of key and data, an erase unit has geo.eu units.         *)
(***************************************************************************)
EXTENDS Integers, Sequences, FiniteSets, SequencesExt

CONSTANTS Keys,        \* numbers that stand for the hashes of the keys
          Values,      \* contents of items
          None,        \* absence of an item
          Written,     \* complete reserved data
          Erased,      \* an erased unit
          Torn,        \* a unit whose program was cut or is part of a record cut short
          MasterKey, Master,  \* the hash of "TDBS" and the content of a master record
          WriteOnce,   \* keys created with WRITE_ONCE_FLAG
          Geometries,  \* the flash layouts to consider, and on each which of the faults
                       \* "crash", "write", "gc" and "abandon" may happen, up to its limit
          VersionMod   \* number of versions of the master record (2^16 in the code)

(***************************************************************************)
(* A record is a pair of key and value, None for one with delete_flag; its *)
(* i-th unit is <<record, i>>.  The garbage collection may copy the master *)
(* record into the log: it takes as much room there as any other.          *)
(***************************************************************************)
Names == Keys \cup {MasterKey}
Records == Names \X (Values \cup {None, Master})

ASSUME KeyAssumption == /\ Keys \subseteq Nat /\ IsFiniteSet(Keys)
                        /\ WriteOnce \subseteq Keys
                        /\ MasterKey \in Nat \ Keys
ASSUME ValueAssumption == /\ {None, Erased, Torn} \cap Values = {}
                          /\ None # Erased /\ None # Torn /\ Erased # Torn
                          /\ Written \notin {Erased, Torn}
                          /\ {Erased, Torn} \cap Nat = {}
                          /\ {Erased, Torn} \cap (Records \cup (Records \X Nat)) = {}
ASSUME GeometryAssumption ==
  \A g \in Geometries : /\ {g.eu, g.hdr, g.body} \subseteq Nat \ {0}
                        /\ g.size \in Nat \ {0} /\ g.size % g.eu = 0
                        /\ g.pad \in BOOLEAN
                        /\ g.faults \subseteq {"crash", "write", "gc", "abandon"}
                        /\ g.limit \in Nat
ASSUME CountAssumption == VersionMod \in Nat /\ VersionMod > 1

VARIABLES geo,       \* the layout of this device
          log,       \* per area, the units behind the master record
          master,    \* per area, the version of the master record
          reserve,   \* per area, the reserved data
          pc,        \* the point the running call has reached
          ret,       \* where the garbage collection returns to
          active, version, free,  \* _active_area, _active_area_version, _free_space_offset
          table,     \* _ram_table: keys and offsets, hashes descending
          open,      \* the magic of the incremental set handle
          gcInd,     \* entries the garbage collection has copied
          gcTo,      \* where it copies the next one to
          call, committed, result, \* the call under way, whether it has taken effect, its result
          kv, reserved,            \* history: the effect of the calls so far
          faults

ramVars == <<active, version, free, table, open>>
gcVars == <<ret, gcInd, gcTo>>
apiVars == <<call, committed, result, kv, reserved>>
vars == <<geo, log, master, reserve, pc, ramVars, gcVars, apiVars, faults>>

Areas == {0, 1}
Idle == <<"idle">>
RecSize == geo.hdr + geo.body
Units == 1 .. geo.size - 1
First == 1   \* _master_record_offset + _master_record_size

Calls == {<<"set", k, v>> : k \in Keys, v \in Values}
         \cup {<<"remove", k>> : k \in Keys}
         \cup {<<"reserve">>, <<"reset">>}

-----------------------------------------------------------------------------
(* Reading the flash *)

(***************************************************************************)
(* read_record: the record at offset o, or Torn for invalid data.  The     *)
(* last test of the size is strict, so a record whose data end with the    *)
(* area is not read back.                                                  *)
(***************************************************************************)
Readable(o) == IF geo.pad THEN o + RecSize <= geo.size ELSE o + RecSize < geo.size
ReadRecord(units, o) ==
  IF /\ Readable(o)
     /\ units[o] \notin {Erased, Torn}
     /\ \A i \in 0 .. RecSize - 1 : units[o + i] = <<units[o][1], i>>
  THEN units[o][1]
  ELSE Torn

(***************************************************************************)
(* build_ram_table: the valid records of the log, its end, and whether     *)
(* what lies behind cannot be read at all: fewer units than a header has.  *)
(***************************************************************************)
Offset(i) == First + (i - 1) * RecSize
MaxRecords == (geo.size - First) \div RecSize
RecordAt(a, i) == ReadRecord(log[a], Offset(i))
InLog(a, i) == \A j \in 1 .. i : RecordAt(a, j) # Torn
NumRecords(a) == Cardinality({i \in 1 .. MaxRecords : InLog(a, i)})
EndOfLog(a) == Offset(NumRecords(a) + 1)
ReadFails(a) == EndOfLog(a) < geo.size /\ EndOfLog(a) + geo.hdr > geo.size

IsLatest(a, k, i) ==
  /\ InLog(a, i) /\ RecordAt(a, i)[1] = k
  /\ \A j \in i + 1 .. MaxRecords : InLog(a, j) => RecordAt(a, j)[1] # k
LatestOf(a, k) == {i \in 1 .. MaxRecords : IsLatest(a, k, i)}
ValueIn(a, k) == LET latest == LatestOf(a, k)
                 IN IF latest = {} THEN None ELSE RecordAt(a, CHOOSE i \in latest : TRUE)[2]

(***************************************************************************)
(* The scan begins with the master record, so the table has an entry for   *)
(* it too, at offset 0 unless the log holds a copy of it.                  *)
(***************************************************************************)
BuildRamTable(a) ==
  LET live == {k \in Keys : ValueIn(a, k) # None} \cup {MasterKey}
      entry(k) == [key |-> k,
                   at |-> IF LatestOf(a, k) = {} THEN 0
                          ELSE Offset(CHOOSE i \in LatestOf(a, k) : TRUE)]
  IN CHOOSE t \in [1 .. Cardinality(live) -> {entry(k) : k \in live}] :
       \A i, j \in DOMAIN t : i < j => t[i].key > t[j].key

(***************************************************************************)
(* init: the area that is taken as the active one.                         *)
(***************************************************************************)
Valid(a) == master[a] \in 0 .. VersionMod - 1
ChooseArea == CASE Valid(0) /\ Valid(1) ->
                     IF master[0] > master[1] \/ master[0] = 0 THEN 0 ELSE 1
                [] Valid(1) /\ ~Valid(0) -> 1
                [] OTHER -> 0

(***************************************************************************)
(* What a start of the device would find in the flash.                     *)
(***************************************************************************)
Recovered == [k \in Keys |-> IF Valid(ChooseArea) THEN ValueIn(ChooseArea, k) ELSE None]
RecoveredReserve == Valid(ChooseArea) /\ reserve[ChooseArea] = Written

(***************************************************************************)
(* is_erase_unit_erased: from the offset to the end of its erase unit.     *)
(***************************************************************************)
ErasedFrom(a, o) == \A u \in Units : u >= o /\ u \div geo.eu = o \div geo.eu => log[a][u] = Erased

(***************************************************************************)
(* find_record stops at the first entry with the hash of the key that has  *)
(* the key or cannot be read.  An entry may point elsewhere only after a   *)
(* garbage collection that failed.                                         *)
(***************************************************************************)
Stops(k) == {i \in 1 .. Len(table) : /\ table[i].key = k
                                     /\ LET r == ReadRecord(log[active], table[i].at)
                                        IN r = Torn \/ r[1] = k}
Present(k) == Stops(k) # {}
Stop(k) == CHOOSE i \in Stops(k) : \A j \in Stops(k) : i <= j
Found(k) == ReadRecord(log[active], table[Stop(k)].at)
Get(k) == IF Present(k) /\ Found(k) # Torn THEN Found(k)[2] ELSE None

-----------------------------------------------------------------------------
(* Writing the flash *)

(***************************************************************************)
(* check_erase_before_write: the erase units that start in the range;      *)
(* unit 0 is erased by EraseHead.                                          *)
(***************************************************************************)
EraseStarting(units, o, n) ==
  [u \in Units |-> IF (u \div geo.eu) * geo.eu \in o .. o + n - 1 THEN Erased ELSE units[u]]

(***************************************************************************)
(* reset_area, and what init and garbage_collection do to an area that is  *)
(* not in use: the erase unit of reserved data and master record goes.     *)
(***************************************************************************)
EraseHead(as) ==
  /\ log' = [a \in Areas |-> IF a \in as THEN EraseStarting(log[a], 0, 1) ELSE log[a]]
  /\ master' = [a \in Areas |-> IF a \in as THEN Erased ELSE master[a]]
  /\ reserve' = [a \in Areas |-> IF a \in as THEN Erased ELSE reserve[a]]

Program(a, o, from, r) ==
  log' = [log EXCEPT ![a] = [u \in Units |-> IF u \in o + from .. o + RecSize - 1
                                             THEN IF r = Torn THEN Torn ELSE <<r, u - o>>
                                             ELSE log[a][u]]]

Fault(f) == /\ f \in geo.faults /\ faults < geo.limit
            /\ faults' = faults + 1

Reply(res) == /\ call' = Idle
              /\ committed' = FALSE
              /\ result' = res
              /\ pc' = "ready"
              /\ UNCHANGED <<kv, reserved>>

-----------------------------------------------------------------------------
Init == /\ geo \in Geometries
        /\ log = [a \in Areas |-> [u \in Units |-> Erased]]
        /\ master = [a \in Areas |-> Erased]
        /\ reserve = [a \in Areas |-> Erased]
        /\ pc = "off" /\ ret = "none"
        /\ active = 0 /\ version = 0 /\ free = First
        /\ table = <<>> /\ open = FALSE
        /\ gcInd = 0 /\ gcTo = First
        /\ call = Idle /\ committed = FALSE /\ result = "none"
        /\ kv = [k \in Keys |-> None] /\ reserved = FALSE
        /\ faults = 0

(***************************************************************************)
(* init on a device without a master record: area 0 becomes the active one *)
(***************************************************************************)
InitEmpty == /\ pc = "off" /\ ~Valid(0) /\ ~Valid(1)
             /\ EraseHead(Areas)
             /\ active' = 0 /\ version' = 1
             /\ free' = First /\ table' = <<>> /\ open' = FALSE
             /\ pc' = "master"
             /\ ret' = "booted"
             /\ UNCHANGED <<geo, gcInd, gcTo, apiVars, faults>>

(***************************************************************************)
(* init with one or two master records: the area that is not chosen is     *)
(* erased, the RAM table built, and a garbage collection cleans up after a *)
(* record or reserved data that were cut short.  A log that leaves less    *)
(* than a header cannot be read and ends in assert(0).                     *)
(***************************************************************************)
InitScan ==
  /\ pc = "off" /\ (Valid(0) \/ Valid(1))
  /\ EraseHead({1 - ChooseArea})
  /\ active' = ChooseArea /\ version' = master[ChooseArea]
  /\ free' = EndOfLog(ChooseArea)
  /\ table' = BuildRamTable(ChooseArea)
  /\ open' = FALSE
  /\ LET corrupt == \/ free' < geo.size /\ ~ErasedFrom(ChooseArea, free')
                    \/ reserve[ChooseArea] = Torn
     IN /\ pc' = CASE ReadFails(ChooseArea) -> "halted"
                   [] ~ReadFails(ChooseArea) /\ corrupt -> "gc"
                   [] OTHER -> "ready"
        /\ ret' = IF pc' = "gc" THEN "init" ELSE "none"
  /\ UNCHANGED <<geo, gcInd, gcTo, apiVars, faults>>

(***************************************************************************)
(* The end of init after a garbage collection: assert(os_ret) on the       *)
(* result of sync, which is 0 when it succeeds, so the device stops and is *)
(* started again.                                                          *)
(***************************************************************************)
InitAbort == /\ pc = "init"
             /\ pc' = "off"
             /\ UNCHANGED <<geo, log, master, reserve, ramVars, gcVars, apiVars, faults>>

-----------------------------------------------------------------------------
(* garbage_collection *)

GcErase == /\ pc = "gc"
           /\ EraseHead({1 - active})
           /\ gcInd' = 0 /\ gcTo' = First
           /\ pc' = IF reserve[active] = Written THEN "gcReserve" ELSE "gcCopy"
           /\ UNCHANGED <<geo, ret, ramVars, apiVars, faults>>

GcReserve == /\ pc = "gcReserve"
             /\ reserve' = [reserve EXCEPT ![1 - active] = reserve[active]]
             /\ pc' = "gcCopy"
             /\ UNCHANGED <<geo, log, master, ramVars, gcVars, apiVars, faults>>

(***************************************************************************)
(* copy_record: the units of the record, those of the master record for an *)
(* entry that points to it.                                                *)
(***************************************************************************)
Source(from, i) == IF from = 0 THEN <<<<MasterKey, Master>>, i>> ELSE log[active][from + i]
Copied == LET from == table[gcInd + 1].at
              to == EraseStarting(log[1 - active], gcTo, RecSize)
          IN [u \in Units |-> IF u \in gcTo .. gcTo + RecSize - 1
                              THEN Source(from, u - gcTo) ELSE to[u]]
Fits == gcTo + RecSize <= geo.size
Copyable == gcInd < Len(table) /\ table[gcInd + 1].at + RecSize <= geo.size

GcCopyTableKept ==
  /\ pc = "gcCopy" /\ Copyable /\ Fits
  /\ log' = [log EXCEPT ![1 - active] = Copied]
  /\ gcInd' = gcInd + 1 /\ gcTo' = gcTo + RecSize
  /\ UNCHANGED <<geo, master, reserve, pc, ret, ramVars, apiVars, faults>>

(***************************************************************************)
(* The entry of the RAM table moves with its record.                       *)
(***************************************************************************)
CopyNext == /\ table' = [table EXCEPT ![gcInd + 1].at = gcTo]
            /\ gcInd' = gcInd + 1 /\ gcTo' = gcTo + RecSize

GcCopy == /\ pc = "gcCopy" /\ Copyable /\ Fits
          /\ log' = [log EXCEPT ![1 - active] = Copied]
          /\ CopyNext
          /\ UNCHANGED <<geo, master, reserve, pc, ret, active, version, free, open,
                         apiVars, faults>>

(***************************************************************************)
(* Nothing checks that the copy fits.  Behind area 0 lies area 1, the one  *)
(* that is being collected: its head is erased and programmed over.        *)
(***************************************************************************)
GcOverrun ==
  /\ pc = "gcCopy" /\ Copyable /\ ~Fits /\ active = 1
  /\ LET over == gcTo + RecSize - geo.size
         tail(a, o, n) == [u \in Units |-> IF u \in o .. o + n - 1 THEN Torn
                                           ELSE EraseStarting(log[a], o, n)[u]]
     IN log' = [a \in Areas |-> IF a = 0 THEN tail(0, gcTo, RecSize) ELSE tail(1, 0, over)]
  /\ master' = [master EXCEPT ![1] = Torn]
  /\ reserve' = [reserve EXCEPT ![1] = Torn]
  /\ CopyNext
  /\ UNCHANGED <<geo, pc, ret, active, version, free, open, apiVars, faults>>

(***************************************************************************)
(* garbage_collection returns an error, the entries copied so far moved:   *)
(* an assertion stops init, so that the device is started again; set_start *)
(* fails and closes its handle; elsewhere the result is ignored and the    *)
(* handle may be left open.                                                *)
(***************************************************************************)
GcError == /\ \/ /\ ret \in {"init", "booted"}
                 /\ pc' = "off"
                 /\ UNCHANGED <<open, apiVars>>
              \/ /\ ret \in {"start", "room", "failed", "reset"}
                 /\ Reply("error")
                 /\ open' \in IF ret \in {"start", "room"} THEN {FALSE} ELSE BOOLEAN
           /\ ret' = "none" /\ gcInd' = 0 /\ gcTo' = First
           /\ UNCHANGED <<geo, active, version, free, table>>

(***************************************************************************)
(* Behind area 1 the device ends, and a record that a former overrun has   *)
(* placed across the end of the area cannot be read.                       *)
(***************************************************************************)
GcStuck == /\ pc = "gcCopy" /\ gcInd < Len(table)
           /\ \/ ~Copyable
              \/ ~Fits /\ active = 0
           /\ log' = [log EXCEPT ![1 - active] = EraseStarting(@, gcTo, RecSize)]
           /\ GcError
           /\ UNCHANGED <<master, reserve, faults>>

(***************************************************************************)
(* An erase or a program fails in the garbage collection, or the master    *)
(* record of init or reset cannot be written.                              *)
(***************************************************************************)
GcFails ==
  /\ pc \in {"gc", "gcReserve", "gcCopy", "master", "gcReset"}
  /\ pc = "gcCopy" => Copyable /\ Fits
  /\ Fault("gc")
  /\ reserve' = IF pc = "gcReserve" THEN [reserve EXCEPT ![1 - active] = Torn] ELSE reserve
  /\ IF pc = "gcCopy" THEN Program(1 - active, gcTo, 0, Torn) ELSE UNCHANGED log
  /\ master' = IF pc = "master" THEN [master EXCEPT ![active] = Torn] ELSE master
  /\ GcError

GcSwitchErasing == /\ pc = "gcCopy" /\ gcInd = Len(table)
                   /\ EraseHead({active})
                   /\ free' = gcTo
                   /\ active' = 1 - active
                   /\ version' = (version + 1) % VersionMod
                   /\ pc' = "master"
                   /\ UNCHANGED <<geo, table, open, gcVars, apiVars, faults>>

GcSwitchUnwrapped == /\ pc = "gcCopy" /\ gcInd = Len(table)
                     /\ free' = gcTo
                     /\ active' = 1 - active
                     /\ version' = version + 1
                     /\ pc' = "master"
                     /\ UNCHANGED <<geo, log, master, reserve, table, open, gcVars, apiVars, faults>>

GcSwitch == /\ pc = "gcCopy" /\ gcInd = Len(table)
            /\ free' = gcTo
            /\ active' = 1 - active
            /\ version' = (version + 1) % VersionMod
            /\ pc' = "master"
            /\ UNCHANGED <<geo, log, master, reserve, table, open, gcVars, apiVars, faults>>

(***************************************************************************)
(* write_master_record: torn until the header is programmed.  It uses the  *)
(* one incremental set handle and leaves it closed.                        *)
(***************************************************************************)
MasterTorn == /\ pc = "master" /\ master[active] # Torn
              /\ master' = [master EXCEPT ![active] = Torn]
              /\ UNCHANGED <<geo, log, reserve, pc, ramVars, gcVars, apiVars, faults>>

MasterDone == /\ pc = "master" /\ master[active] = Torn
              /\ master' = [master EXCEPT ![active] = version]
              /\ \/ /\ ret = "booted" /\ pc' = "ready" /\ ret' = "none"
                    /\ UNCHANGED apiVars
                 \/ /\ ret = "reset" /\ Reply("ok") /\ ret' = "none"
                 \/ /\ ret \notin {"booted", "reset"} /\ pc' = "gcReset"
                    /\ UNCHANGED <<ret, apiVars>>
              /\ open' = FALSE
              /\ UNCHANGED <<geo, log, reserve, active, version, free, table, gcInd, gcTo, faults>>

(***************************************************************************)
(* The old area is reset and the garbage collection returns: to init, to   *)
(* set_start, or from a failed program to the caller.                      *)
(***************************************************************************)
GcReset == /\ pc = "gcReset"
           /\ EraseHead({1 - active})
           /\ \/ /\ ret \in {"init", "start", "room"}
                 /\ pc' = ret /\ UNCHANGED apiVars
              \/ /\ ret = "failed" /\ Reply("error")
           /\ ret' = "none" /\ gcInd' = 0 /\ gcTo' = First
           /\ UNCHANGED <<geo, ramVars, faults>>

-----------------------------------------------------------------------------
(* set and remove *)

Begin(c) == /\ pc = "ready" /\ call = Idle
            /\ call' = c /\ result' = "none"
            /\ pc' = CASE c[1] \in {"set", "remove"} -> "open"
                       [] OTHER -> c[1]
            /\ UNCHANGED <<geo, log, master, reserve, ramVars, gcVars, committed, kv, reserved, faults>>

(***************************************************************************)
(* set_start: an abandoned incremental set, and then a log without room    *)
(* for the record, call for a garbage collection first.                    *)
(***************************************************************************)
StartAbandoned == /\ pc = "open"
                  /\ pc' = IF open THEN "gc" ELSE "start"
                  /\ ret' = IF open THEN "start" ELSE "none"
                  /\ UNCHANGED <<geo, log, master, reserve, ramVars, gcInd, gcTo,
                                 apiVars, faults>>

StartRoom == /\ pc = "start"
             /\ LET full == free + RecSize > geo.size
                IN /\ pc' = IF full THEN "gc" ELSE "room"
                   /\ ret' = IF full THEN "room" ELSE "none"
             /\ UNCHANGED <<geo, log, master, reserve, ramVars, gcInd, gcTo,
                            apiVars, faults>>

RefusedUnprotected == LET k == call[2]
                      IN \/ free + RecSize > geo.size
                         \/ Present(k) /\ Found(k) = Torn
                         \/ ~Present(k) /\ call[1] = "remove"

Refused == LET k == call[2]
           IN \/ free + RecSize > geo.size               \* MEDIA_FULL
              \/ Present(k) /\ k \in WriteOnce           \* WRITE_PROTECTED
              \/ Present(k) /\ Found(k) = Torn        \* an entry that points elsewhere
              \/ ~Present(k) /\ call[1] = "remove"       \* ITEM_NOT_FOUND

StartRefused == /\ pc = "room" /\ Refused
                /\ open' = FALSE
                /\ Reply("error")
                /\ UNCHANGED <<geo, log, master, reserve, active, version, free, table,
                               gcVars, faults>>

StartUnerased == /\ pc = "room" /\ ~Refused
                 /\ open' = TRUE
                 /\ pc' = "data"
                 /\ UNCHANGED <<geo, log, master, reserve, active, version, free, table,
                                gcVars, apiVars, faults>>

StartErase == /\ pc = "room" /\ ~Refused
              /\ log' = [log EXCEPT ![active] = EraseStarting(@, free, RecSize)]
              /\ open' = TRUE
              /\ pc' = "data"
              /\ UNCHANGED <<geo, master, reserve, active, version, free, table, gcVars,
                             apiVars, faults>>

Record == <<call[2], IF call[1] = "set" THEN call[3] ELSE None>>

(***************************************************************************)
(* The key is programmed by set_start, the data by set_add_data, both      *)
(* behind the header, which set_finalize programs at last.                 *)
(***************************************************************************)
AddData == /\ pc = "data"
           /\ Program(active, free, geo.hdr, Torn)
           /\ pc' = "header"
           /\ UNCHANGED <<geo, master, reserve, ramVars, gcVars, apiVars, faults>>

HeaderTorn == /\ pc = "header"
              /\ Program(active, free, 0, Torn)
              /\ pc' = "finalize"
              /\ UNCHANGED <<geo, master, reserve, ramVars, gcVars, apiVars, faults>>

(***************************************************************************)
(* set_finalize: the record is complete, and read back: what cannot be     *)
(* read ends in a garbage collection and an error.                         *)
(***************************************************************************)
Finalize == /\ pc = "finalize"
            /\ Program(active, free, 0, Record)
            /\ committed' = (ReadRecord(log'[active], free) # Torn)
            /\ pc' = IF committed' THEN "update" ELSE "gc"
            /\ ret' = IF committed' THEN "none" ELSE "failed"
            /\ kv' = IF committed' THEN [kv EXCEPT ![call[2]] = Record[2]] ELSE kv
            /\ UNCHANGED <<geo, master, reserve, ramVars, gcInd, gcTo, call, result, reserved, faults>>

(***************************************************************************)
(* A program fails: the garbage collection that follows leaves the handle  *)
(* closed.  A caller who gives up leaves it open.                          *)
(***************************************************************************)
WriteFails == /\ pc \in {"data", "header", "finalize"}
              /\ Fault("write")
              /\ pc' = "gc" /\ ret' = "failed"
              /\ Program(active, free, IF pc = "data" THEN geo.hdr ELSE 0, Torn)
              /\ UNCHANGED <<geo, master, reserve, ramVars, gcInd, gcTo, apiVars>>

Abandon == /\ pc \in {"data", "header"}
           /\ Fault("abandon")
           /\ Reply("error")
           /\ UNCHANGED <<geo, log, master, reserve, ramVars, gcVars>>

(***************************************************************************)
(* The RAM table of set_finalize.                                          *)
(***************************************************************************)
InsertPos(k) == IF Present(k) THEN Stop(k)
                ELSE 1 + Cardinality({i \in 1 .. Len(table) : table[i].key >= k})

TableAfter ==
  LET k == call[2]
      pos == InsertPos(k)
      e == [key |-> k, at |-> free]
  IN CASE call[1] = "remove" -> RemoveAt(table, pos)
       [] call[1] = "set" /\ Present(k) -> [table EXCEPT ![pos] = e]
       [] OTHER -> InsertAt(table, pos, e)

(***************************************************************************)
(* A record that seems to follow at once is the rest of an earlier log:    *)
(* its erase unit is erased.                                               *)
(***************************************************************************)
UpdateTable == /\ pc = "update"
               /\ table' = TableAfter
               /\ free' = free + RecSize
               /\ open' = FALSE
               /\ pc' = IF ReadRecord(log[active], free') # Torn THEN "clear" ELSE "return"
               /\ UNCHANGED <<geo, log, master, reserve, active, version, gcVars, apiVars, faults>>

ClearNext == /\ pc = "clear"
             /\ log' = [log EXCEPT ![active] = EraseStarting(@, free, geo.hdr)]
             /\ pc' = "return"
             /\ UNCHANGED <<geo, master, reserve, ramVars, gcVars, apiVars, faults>>

SetReturns == /\ pc = "return"
              /\ Reply("ok")
              /\ UNCHANGED <<geo, log, master, reserve, ramVars, gcVars, faults>>

-----------------------------------------------------------------------------
(* reserved_data_set, reset *)

ReserveRefused == /\ pc = "reserve" /\ reserve[active] # Erased
                  /\ Reply("error")
                  /\ UNCHANGED <<geo, log, master, reserve, ramVars, gcVars, faults>>

ReserveData == /\ pc = "reserve" /\ reserve[active] = Erased
               /\ reserve' = [reserve EXCEPT ![active] = Torn]
               /\ pc' = "trailer"
               /\ UNCHANGED <<geo, log, master, ramVars, gcVars, apiVars, faults>>

ReserveTrailer == /\ pc = "trailer"
                  /\ reserve' = [reserve EXCEPT ![active] = Written]
                  /\ committed' = TRUE /\ reserved' = TRUE
                  /\ pc' = "return"
                  /\ UNCHANGED <<geo, log, master, ramVars, gcVars, call, result, kv, faults>>

ReserveFails == /\ pc = "trailer"
                /\ Fault("write")
                /\ Reply("error")
                /\ UNCHANGED <<geo, log, master, reserve, ramVars, gcVars>>

(***************************************************************************)
(* reset: area 0, then area 1, then an empty area 0 becomes active.        *)
(***************************************************************************)
Cleared == /\ committed' = TRUE
           /\ kv' = [k \in Keys |-> None] /\ reserved' = FALSE

ResetFirst == /\ pc = "reset"
              /\ EraseHead({0})
              /\ IF active = 0 THEN Cleared ELSE UNCHANGED <<committed, kv, reserved>>
              /\ pc' = "resetSecond"
              /\ UNCHANGED <<geo, ramVars, gcVars, call, result, faults>>

ResetSecond == /\ pc = "resetSecond"
               /\ EraseHead({1})
               /\ Cleared
               /\ active' = 0 /\ version' = 1 /\ free' = First /\ table' = <<>>
               /\ pc' = "master" /\ ret' = "reset"
               /\ UNCHANGED <<geo, open, gcInd, gcTo, call, result, faults>>

ResetFails == /\ pc \in {"reset", "resetSecond"}
              /\ Fault("gc")
              /\ Reply("error")
              /\ UNCHANGED <<geo, log, master, reserve, ramVars, gcVars>>

PowerLoss == /\ pc \notin {"off", "halted"}
             /\ Fault("crash")
             /\ pc' = "off" /\ ret' = "none"
             /\ call' = Idle /\ committed' = FALSE /\ result' = "none"
             /\ active' = 0 /\ version' = 0 /\ free' = First /\ table' = <<>> /\ open' = FALSE
             /\ gcInd' = 0 /\ gcTo' = First
             /\ UNCHANGED <<geo, log, master, reserve, kv, reserved>>

Step == \/ InitEmpty \/ InitScan \/ InitAbort
        \/ GcErase \/ GcReserve \/ GcCopy \/ GcOverrun \/ GcStuck \/ GcSwitch \/ MasterTorn \/ MasterDone \/ GcReset
        \/ StartAbandoned \/ StartRoom \/ StartRefused \/ StartErase
        \/ AddData \/ HeaderTorn \/ Finalize \/ UpdateTable \/ ClearNext \/ SetReturns
        \/ ReserveRefused \/ ReserveData \/ ReserveTrailer
        \/ ResetFirst \/ ResetSecond

Next == \/ Step
        \/ \E c \in Calls : Begin(c)
        \/ WriteFails \/ GcFails \/ Abandon \/ ReserveFails \/ ResetFails
        \/ PowerLoss

Spec == Init /\ [][Next]_vars

-----------------------------------------------------------------------------
(* Properties *)

(***************************************************************************)
(* An area has room for a record of every key and, where the store may be  *)
(* restarted, the copy of the master record; otherwise a garbage           *)
(* collection may overrun it.                                              *)
(***************************************************************************)
Roomy == "crash" \in geo.faults => Readable(Offset(Cardinality(Keys) + 1))

(***************************************************************************)
(* What the guarantees below presuppose.  A garbage collection that        *)
(* overruns the area or fails halfway loses items: see the full and the    *)
(* failing layouts of MCTDBStore.                                          *)
(***************************************************************************)
Assured == Roomy /\ "gc" \notin geo.faults

(***************************************************************************)
(* The free offset, the offsets of the RAM table and the destination of    *)
(* the garbage collection lie inside the area, and versions have the width *)
(* of the master record, across every wrap of the version.                 *)
(***************************************************************************)
TypeOK == /\ geo \in Geometries
          /\ \A a \in Areas : /\ log[a] \in [Units -> {Erased, Torn} \cup (Records \X (0 .. RecSize))]
                              /\ master[a] \in {Erased, Torn} \cup 0 .. VersionMod - 1
                              /\ reserve[a] \in {Erased, Torn, Written}
          /\ active \in Areas /\ version \in 0 .. VersionMod - 1
          /\ open \in BOOLEAN /\ committed \in BOOLEAN
          /\ {free, gcInd, gcTo} \subseteq Nat
          /\ table \in Seq([key : Names, at : Nat])
          /\ Assured => /\ {free, gcTo} \subseteq First .. geo.size
                        /\ \A i \in 1 .. Len(table) : table[i].at < geo.size
          /\ call \in Calls \cup {Idle}
          /\ result \in {"none", "ok", "error"}
          /\ faults \in 0 .. geo.limit

(***************************************************************************)
(* What a power loss at this instant would leave is the effect of the      *)
(* calls so far.                                                           *)
(***************************************************************************)
Recoverable == Recovered = kv /\ RecoveredReserve = reserved

(***************************************************************************)
(* No record begins with an erase unit.  Where one does, whole records of  *)
(* an earlier log may follow the last one, after set_finalize for an       *)
(* instant and after garbage_collection until the next set.                *)
(***************************************************************************)
Straddling == \A i \in 1 .. MaxRecords : Offset(i) % geo.eu # 0

(***************************************************************************)
(* At every instant, in the middle of a garbage collection, a set, a reset *)
(* or a start too, a power loss loses nothing: the next start recovers     *)
(* exactly the effect of the calls so far.                                 *)
(***************************************************************************)
Durable == Assured /\ Straddling => Recoverable

(***************************************************************************)
(* The store implements the interface: a call takes effect at one instant  *)
(* and only if the interface permits it; it returns success if and only if *)
(* it has taken effect, also when the program of a record or of reserved   *)
(* data fails.                                                             *)
(***************************************************************************)
Interface == INSTANCE KVStore WITH kv <- kv, reserved <- reserved, call <- call,
                                   committed <- committed, result <- result
ImplementsKVStore == Interface!Init /\ [][Assured => Interface!Next]_(Interface!kvVars)

(***************************************************************************)
(* Between calls get returns what a start would recover: the RAM table     *)
(* agrees with the flash after every garbage collection and set_finalize.  *)
(***************************************************************************)
GetAgrees == Assured /\ Straddling /\ pc = "ready" => \A k \in Keys : Get(k) = Recovered[k]

(***************************************************************************)
(* The log grows into erased flash only: what set_start is about to        *)
(* program has no bit programmed, though most of an area is never erased   *)
(* as a whole (check_erase_before_write).                                  *)
(***************************************************************************)
ProgramsErased ==
  Assured /\ pc = "data" => \A u \in free .. free + RecSize - 1 : log[active][u] = Erased

(***************************************************************************)
(* init always comes to an end with a store that can be used: a log that   *)
(* leaves less room than a header must not stop the device for good.       *)
(***************************************************************************)
InitSucceeds == pc # "halted"

=============================================================================
