------------------------------ MODULE FotaSemver ------------------------------
(***************************************************************************)
(* Versions of components (fota_component.c): a version is packed in one   *)
(* integer, printed as "major.minor.split" and parsed back when fota_init  *)
(* registers the main component with the version of its boot header.  The  *)
(* packed version is what handle_manifest compares.                        *)
(*                                                                         *)
(* A printed number is the sequence of its digits.  The widths of the      *)
(* packed fields are parameters: the code has 24, 24 and 16 bits.          *)
(***************************************************************************)
EXTENDS Integers, Sequences

CONSTANTS
  Numbers,     \* values of major, minor and split
  MAX_VER,     \* the largest of them that can be printed
  FieldSize    \* two to the number of bits of the minor and the split field

ASSUME SemverAssumption ==
  /\ MAX_VER = 999
  /\ FieldSize \in Nat /\ FieldSize > MAX_VER
  /\ Numbers \subseteq 0..MAX_VER

VARIABLES
  header,     \* packed version in the header of the running firmware
  text,       \* its printed form
  registered, \* packed version in the component table
  manifest,   \* major, minor and split of a manifest
  phase       \* "boot", "print", "idle", "accepted" or "rejected"

vars == <<header, text, registered, manifest, phase>>

\* The fields of a version are put together ...
Pack(major, minor, split) == split + minor * FieldSize + major * FieldSize * FieldSize

\* ... and taken apart.
Fields(v) == <<v \div (FieldSize * FieldSize), (v \div FieldSize) % FieldSize, v % FieldSize>>

\* append_number_to_string: the digits of n
AppendOnes(n) ==
  (IF n > 100 THEN <<n \div 100>> ELSE <<>>) \o <<n % 10>>
AppendNumber(n) ==
     (IF n > 100 THEN <<n \div 100>> ELSE <<>>)
  \o (IF n > 10 THEN <<(n % 100) \div 10>> ELSE <<>>)
  \o <<n % 10>>

\* strtol
ParseNumber(digits) ==
  LET value[n \in 0..Len(digits)] == IF n = 0 THEN 0 ELSE 10 * value[n - 1] + digits[n]
  IN  value[Len(digits)]

\* fota_component_version_int_to_semver
IntToSemver(v) == [i \in 1..3 |-> AppendNumber(Fields(v)[i])]

\* fota_component_version_semver_to_int
SemverToInt(s) == Pack(ParseNumber(s[1]), ParseNumber(s[2]), ParseNumber(s[3]))

Init ==
  /\ \E a, b, c \in Numbers : header = Pack(a, b, c)
  /\ text = <<>> /\ registered = 0 /\ manifest = <<0, 0, 0>> /\ phase = "boot"

\* fota_init prints the version of the header ...
PrintVersion ==
  /\ phase = "boot"
  /\ text' = IntToSemver(header)
  /\ phase' = "print"
  /\ UNCHANGED <<header, registered, manifest>>

\* ... and fota_component_add parses it.
AddComponent ==
  /\ phase = "print"
  /\ registered' = SemverToInt(text)
  /\ phase' = "idle"
  /\ UNCHANGED <<header, text, manifest>>

\* The version check
NotOlder(v, current) == v >= current
IsUpgrade(v, current) == v > current

\* handle_manifest up to the version check
HandleManifest ==
  /\ phase = "idle"
  /\ \E a, b, c \in Numbers :
       /\ manifest' = <<a, b, c>>
       /\ phase' = IF IsUpgrade(Pack(a, b, c), registered) THEN "accepted" ELSE "rejected"
  /\ UNCHANGED <<header, text, registered>>

Decided == phase \in {"accepted", "rejected"} /\ UNCHANGED vars

Next == PrintVersion \/ AddComponent \/ HandleManifest \/ Decided

Spec == Init /\ [][Next]_vars

-----------------------------------------------------------------------------
\* Printing and parsing lose a digit of the numbers 10 and 100 and of no other.
LossOnlyAtTenAndHundred ==
  phase \in {"idle", "accepted", "rejected"} =>
    \A i \in 1..3 : \/ Fields(registered)[i] = Fields(header)[i]
                    \/ Fields(header)[i] \in {10, 100} /\ Fields(registered)[i] = 0

\* The comparison of packed versions is the comparison of major, then minor, then
\* split, so that a manifest is accepted exactly when it is newer than what is
\* registered.
Newer(f, g) ==
  \E i \in 1..3 : f[i] > g[i] /\ \A j \in 1..(i - 1) : f[j] = g[j]
AcceptedIsNewer ==
  phase \in {"accepted", "rejected"} =>
    (phase = "accepted" <=> Newer(manifest, Fields(registered)))
=============================================================================
