-------------------------- MODULE FotaSemverProofs --------------------------
(***************************************************************************)
(* Proofs about FotaSemver, for all numbers up to 999 and packed fields of *)
(* any width that holds them.                                              *)
(***************************************************************************)
EXTENDS FotaSemver, TLAPS

\* The numbers of a version.
Printable == 0..MAX_VER

(***************************************************************************)
(* The numbers that can be printed are those of at most three digits.      *)
(***************************************************************************)
LEMMA PrintableNumbers == Printable = 0..999 /\ Numbers \subseteq Printable
BY SemverAssumption DEF Printable

-----------------------------------------------------------------------------
(* Printing and parsing *)

(***************************************************************************)
(* The equation that defines the value of a sequence of digits.            *)
(***************************************************************************)
ValueOf(s, f) == f = [n \in 0..Len(s) |-> IF n = 0 THEN 0 ELSE 10 * f[n - 1] + s[n]]

(***************************************************************************)
(* strtol on at most three digits: the equation has a solution, so that    *)
(* the value is what unfolding it gives.                                   *)
(***************************************************************************)
LEMMA ParseUnfolds ==
  ASSUME NEW s, NEW w, ValueOf(s, w)
  PROVE  \E f : ValueOf(s, f) /\ ParseNumber(s) = f[Len(s)]
<1> DEFINE v == CHOOSE f : ValueOf(s, f)
<1>1. ValueOf(s, v)  BY Zenon
<1>2. ParseNumber(s) = v[Len(s)]  BY DEF ParseNumber, ValueOf
<1> QED  BY <1>1, <1>2

(***************************************************************************)
(* The value of one digit, ...                                             *)
(***************************************************************************)
LEMMA ParseOne ==
  ASSUME NEW a \in Nat
  PROVE  ParseNumber(<<a>>) = a
<1> DEFINE w == [n \in 0..1 |-> IF n = 0 THEN 0 ELSE a]
<1>1. ValueOf(<<a>>, w)  BY DEF ValueOf
<1>2. PICK f : ValueOf(<<a>>, f) /\ ParseNumber(<<a>>) = f[Len(<<a>>)]
  BY <1>1, ParseUnfolds
<1>3. f = [n \in 0..1 |-> IF n = 0 THEN 0 ELSE 10 * f[n - 1] + <<a>>[n]]
  BY <1>2 DEF ValueOf
<1>4. f[0] = 0  BY <1>3
<1>5. f[1] = 10 * f[0] + a  BY <1>3
<1> QED  BY <1>2, <1>4, <1>5

(***************************************************************************)
(* ... of two ...                                                          *)
(***************************************************************************)
LEMMA ParseTwo ==
  ASSUME NEW a \in Nat, NEW b \in Nat
  PROVE  ParseNumber(<<a, b>>) = 10 * a + b
<1> DEFINE s == <<a, b>>
           w == [n \in 0..2 |-> CASE n = 0 -> 0 [] n = 1 -> a [] OTHER -> 10 * a + b]
<1>1. ValueOf(s, w)  BY DEF ValueOf
<1>2. PICK f : ValueOf(s, f) /\ ParseNumber(s) = f[Len(s)]
  BY <1>1, ParseUnfolds
<1>3. f = [n \in 0..2 |-> IF n = 0 THEN 0 ELSE 10 * f[n - 1] + s[n]]
  BY <1>2 DEF ValueOf
<1>4. f[0] = 0  BY <1>3
<1>5. f[1] = 10 * f[0] + a  BY <1>3
<1>6. f[2] = 10 * f[1] + b  BY <1>3
<1> QED  BY <1>2, <1>4, <1>5, <1>6

(***************************************************************************)
(* ... and of three.                                                       *)
(***************************************************************************)
LEMMA ParseThree ==
  ASSUME NEW a \in Nat, NEW b \in Nat, NEW c \in Nat
  PROVE  ParseNumber(<<a, b, c>>) = 100 * a + 10 * b + c
<1> DEFINE s == <<a, b, c>>
           w == [n \in 0..3 |-> CASE n = 0 -> 0 [] n = 1 -> a [] n = 2 -> 10 * a + b
                                  [] OTHER -> 100 * a + 10 * b + c]
<1>1. ValueOf(s, w)  BY DEF ValueOf
<1>2. PICK f : ValueOf(s, f) /\ ParseNumber(s) = f[Len(s)]
  BY <1>1, ParseUnfolds
<1>3. f = [n \in 0..3 |-> IF n = 0 THEN 0 ELSE 10 * f[n - 1] + s[n]]
  BY <1>2 DEF ValueOf
<1>4. f[0] = 0  BY <1>3
<1>5. f[1] = 10 * f[0] + a  BY <1>3
<1>6. f[2] = 10 * f[1] + b  BY <1>3
<1>7. f[3] = 10 * f[2] + c  BY <1>3
<1> QED  BY <1>2, <1>4, <1>5, <1>6, <1>7

\* What printing and parsing make of a number.
Reread(n) == IF n \in {10, 100} THEN 0 ELSE n

(***************************************************************************)
(* Concatenation of single digits.                                         *)
(***************************************************************************)
LEMMA Digits ==
  ASSUME NEW a \in Nat, NEW b \in Nat, NEW c \in Nat
  PROVE  /\ <<>> \o <<>> \o <<c>> = <<c>>
         /\ <<>> \o <<b>> \o <<c>> = <<b, c>>
         /\ <<a>> \o <<b>> \o <<c>> = <<a, b, c>>
<1>1. <<>> \o <<c>> = <<c>> /\ <<>> \o <<b>> = <<b>>  OBVIOUS
<1>2. <<>> \o <<>> = <<>>  OBVIOUS
<1>3. ASSUME NEW x \in Nat, NEW y \in Nat
      PROVE  <<x>> \o <<y>> = <<x, y>>
  <2> DEFINE s == <<x>> \o <<y>>
  <2>1. <<x>> \in Seq(Nat) /\ <<y>> \in Seq(Nat) /\ Len(<<x>>) = 1 /\ Len(<<y>>) = 1
    OBVIOUS
  <2>2. s \in Seq(Nat) /\ Len(s) = 2  BY <2>1
  <2>3. s[1] = x  BY <2>1
  <2>4. s[2] = y  BY <2>1
  <2> HIDE DEF s
  <2>5. s = <<x, y>>  BY <2>2, <2>3, <2>4
  <2> QED  BY <2>5 DEF s
<1>4. <<a, b>> \o <<c>> = <<a, b, c>>
  <2> DEFINE s == <<a, b>> \o <<c>>
  <2>1. /\ <<a, b>> \in Seq(Nat) /\ <<c>> \in Seq(Nat)
        /\ Len(<<a, b>>) = 2 /\ Len(<<c>>) = 1
    OBVIOUS
  <2>2. s \in Seq(Nat) /\ Len(s) = 3  BY <2>1
  <2>3. s[1] = a /\ s[2] = b  BY <2>1
  <2>4. s[3] = c  BY <2>1
  <2> HIDE DEF s
  <2>5. s = <<a, b, c>>  BY <2>2, <2>3, <2>4
  <2> QED  BY <2>5 DEF s
<1> QED  BY ONLY <1>1, <1>2, <1>3, <1>4, Zenon

(***************************************************************************)
(* append_number_to_string and strtol together lose the digits of 10 and   *)
(* 100, and of no other number that can be printed.                        *)
(***************************************************************************)
LEMMA PrintParse ==
  ASSUME NEW n \in Printable
  PROVE  ParseNumber(AppendNumber(n)) = Reread(n)
<1> USE DEF Reread
<1>0. n \in 0..999  BY PrintableNumbers
<1> DEFINE h == n \div 100
           t == (n % 100) \div 10
           u == n % 10
<1>1. h \in Nat /\ t \in Nat /\ u \in Nat  BY <1>0
<1>2. n = 100 * h + 10 * t + u  BY <1>0
<1>3. t < 10 /\ u < 10  BY <1>0
<1>4. CASE n > 100
  <2>1. AppendNumber(n) = <<h>> \o <<t>> \o <<u>>  BY <1>0, <1>4 DEF AppendNumber
  <2>2. AppendNumber(n) = <<h, t, u>>  BY ONLY <1>1, <2>1, Digits
  <2> QED  BY <1>0, <1>1, <1>2, <1>4, <2>2, ParseThree
<1>5. CASE n > 10 /\ n <= 100
  <2>3. AppendNumber(n) = <<>> \o <<t>> \o <<u>>  BY <1>0, <1>5 DEF AppendNumber
  <2>1. AppendNumber(n) = <<t, u>>  BY ONLY <1>1, <2>3, Digits
  <2>2. ParseNumber(<<t, u>>) = 10 * t + u  BY <1>1, ParseTwo
  <2> QED  BY <1>0, <1>1, <1>2, <1>3, <1>5, <2>1, <2>2
<1>6. CASE n <= 10
  <2>0. ~(n > 100) /\ ~(n > 10)  BY <1>0, <1>6
  <2>3. AppendNumber(n) = <<>> \o <<>> \o <<u>>  BY <2>0, Zenon DEF AppendNumber
  <2>1. AppendNumber(n) = <<u>>  BY ONLY <1>1, <2>3, Digits
  <2>2. ParseNumber(<<u>>) = u  BY <1>1, ParseOne
  <2> QED  BY <1>0, <1>6, <2>1, <2>2
<1> QED  BY <1>0, <1>4, <1>5, <1>6

-----------------------------------------------------------------------------
(* Packing *)

(***************************************************************************)
(* Quotient and remainder are determined by what they do.                  *)
(***************************************************************************)
LEMMA DivMod ==
  ASSUME NEW d \in Nat, d > 0, NEW q \in Nat, NEW r \in 0..d - 1,
         NEW x, x = q * d + r
  PROVE  x \div d = q /\ x % d = r
<1> DEFINE p == x \div d
           m == x % d
<1>1. x \in Nat  OBVIOUS
<1>2. p \in Int /\ m \in 0..d - 1 /\ x = p * d + m  BY <1>1
<1> HIDE DEF p, m
<1>3. (q - p) * d = m - r  BY <1>2
<1>4. q - p < 1
  <2> SUFFICES ASSUME q - p >= 1 PROVE FALSE  BY <1>2
  <2>1. (q - p) * d >= d  BY <1>2
  <2> QED  BY <1>2, <1>3, <2>1
<1>5. q - p > -1
  <2> SUFFICES ASSUME q - p <= -1 PROVE FALSE  BY <1>2
  <2>1. (q - p) * d <= -d  BY <1>2
  <2> QED  BY <1>2, <1>3, <2>1
<1>6. p = q  BY <1>2, <1>4, <1>5
<1>7. m = r  BY <1>2, <1>6
<1> QED  BY <1>6, <1>7 DEF p, m

(***************************************************************************)
(* What is packed is taken apart again.                                    *)
(***************************************************************************)
LEMMA Unpacked ==
  ASSUME NEW a \in Printable, NEW b \in Printable, NEW c \in Printable
  PROVE  /\ Pack(a, b, c) \in Nat
         /\ Fields(Pack(a, b, c)) = <<a, b, c>>
<1> DEFINE F == FieldSize
           x == Pack(a, b, c)
<1>0. /\ F \in Nat /\ F > 999
      /\ Printable = 0..999
  BY SemverAssumption, PrintableNumbers
<1>7. F \in Nat /\ F > 0  BY <1>0
<1>1. x = (a * F + b) * F + c  BY <1>0 DEF Pack
<1>2. a * F + b \in Nat /\ c \in 0..F - 1 /\ b \in 0..F - 1  BY <1>0
<1>3. x \div F = a * F + b /\ x % F = c
  <2> DEFINE q == a * F + b
  <2>1. q \in Nat /\ c \in 0..F - 1 /\ x = q * F + c  BY <1>1, <1>2
  <2> HIDE DEF q, x
  <2>2. x \div F = q /\ x % F = c  BY ONLY <1>7, <2>1, DivMod, Zenon
  <2> QED  BY <2>2 DEF q
<1>4. (x \div F) % F = b
  <2> DEFINE y == x \div F
  <2>0. a \in Nat  BY <1>0
  <2>1. y = a * F + b  BY <1>3
  <2> HIDE DEF y, x
  <2>2. y % F = b  BY ONLY <1>7, <1>2, <2>0, <2>1, DivMod, Zenon
  <2> QED  BY <2>2 DEF y
<1>5. x \div (F * F) = a
  <2> DEFINE d == F * F
             r == b * F + c
  <2>0. a \in Nat  BY <1>0
  <2>1. d \in Nat /\ d > 0  BY <1>0
  <2>2. r \in 0..d - 1
    <3>1. b * F <= (F - 1) * F  BY <1>0, <1>2
    <3>2. (F - 1) * F = F * F - F  BY <1>0
    <3>3. b * F \in Nat  BY <1>0
    <3>4. PICK B \in Nat, S \in Nat : B = b * F /\ S = F * F  BY <1>0
    <3>5. B + c \in 0..S - 1  BY <1>0, <1>2, <3>1, <3>2, <3>4
    <3> QED  BY <3>4, <3>5
  <2>3. x = a * d + r  BY <1>0 DEF Pack
  <2> HIDE DEF d, r, x
  <2>4. x \div d = a  BY ONLY <2>0, <2>1, <2>2, <2>3, DivMod, Zenon
  <2> QED  BY <2>4 DEF d
<1>6. x \in Nat  BY <1>0, <1>1, <1>2
<1> QED  BY <1>3, <1>4, <1>5, <1>6 DEF Fields

(***************************************************************************)
(* The comparison of packed versions is the comparison of the first field  *)
(* in which they differ.                                                   *)
(***************************************************************************)
LEMMA PackedOrder ==
  ASSUME NEW a \in Printable, NEW b \in Printable, NEW c \in Printable,
         NEW x \in Printable, NEW y \in Printable, NEW z \in Printable
  PROVE  IsUpgrade(Pack(a, b, c), Pack(x, y, z)) <=> Newer(<<a, b, c>>, <<x, y, z>>)
<1> DEFINE F == FieldSize
           hi == a * F + b
           lo == x * F + y
<1>0. /\ F \in Nat /\ F > 999
      /\ Printable = 0..999
  BY SemverAssumption, PrintableNumbers
<1>1. ASSUME NEW p \in Nat, NEW q \in Nat, NEW r \in Printable, NEW s \in Printable
      PROVE  p * F + r > q * F + s <=> p > q \/ (p = q /\ r > s)
  <2>0. r \in 0..999 /\ s \in 0..999  BY <1>0
  <2>1. PICK P \in Nat, Q \in Nat : P = p * F /\ Q = q * F  BY <1>0
  <2>2. p > q => P >= Q + F
    <3> SUFFICES ASSUME p > q PROVE P >= Q + F  OBVIOUS
    <3>1. p * F >= (q + 1) * F  BY <1>0
    <3>2. (q + 1) * F = q * F + F  BY <1>0
    <3> QED  BY <2>1, <3>1, <3>2
  <2>3. p < q => Q >= P + F
    <3> SUFFICES ASSUME p < q PROVE Q >= P + F  OBVIOUS
    <3>1. q * F >= (p + 1) * F  BY <1>0
    <3>2. (p + 1) * F = p * F + F  BY <1>0
    <3> QED  BY <2>1, <3>1, <3>2
  <2>4. p = q => P = Q  BY <2>1
  <2>5. P + r > Q + s <=> p > q \/ (p = q /\ r > s)
    BY ONLY <1>0, <2>0, <2>2, <2>3, <2>4, p \in Nat, q \in Nat, P \in Nat, Q \in Nat
  <2> QED  BY <2>1, <2>5
<1>2. Pack(a, b, c) = hi * F + c /\ Pack(x, y, z) = lo * F + z  BY <1>0 DEF Pack
<1>3. /\ hi \in Nat /\ lo \in Nat
      /\ {a, b, c, x, y, z} \subseteq Nat
  BY <1>0
<1>4. hi > lo <=> a > x \/ (a = x /\ b > y)  BY <1>1, <1>3
<1>5. hi = lo <=> a = x /\ b = y
  <2>1. lo > hi <=> x > a \/ (x = a /\ y > b)  BY <1>1, <1>3
  <2>2. hi = lo <=> ~(hi > lo) /\ ~(lo > hi)  BY <1>3
  <2> HIDE DEF hi, lo
  <2> QED  BY <1>3, <1>4, <2>1, <2>2
<1> HIDE DEF hi, lo
<1>6. hi * F + c > lo * F + z <=> hi > lo \/ (hi = lo /\ c > z)  BY <1>1, <1>3
<1>7. Newer(<<a, b, c>>, <<x, y, z>>) <=> \/ a > x
                                          \/ a = x /\ b > y
                                          \/ a = x /\ b = y /\ c > z
  <2> DEFINE f == <<a, b, c>>
             g == <<x, y, z>>
             D(i) == f[i] > g[i] /\ \A j \in 1..(i - 1) : f[j] = g[j]
  <2>1. D(1) <=> a > x  OBVIOUS
  <2>2. D(2) <=> a = x /\ b > y
    <3>1. 1..(2 - 1) = {1}  OBVIOUS
    <3> QED  BY <3>1
  <2>3. D(3) <=> a = x /\ b = y /\ c > z
    <3>1. 1..(3 - 1) = {1, 2}  OBVIOUS
    <3> QED  BY <3>1
  <2>4. Newer(f, g) <=> \E i \in 1..3 : D(i)  BY DEF Newer
  <2> HIDE DEF D, f, g
  <2>5. (\E i \in 1..3 : D(i)) <=> D(1) \/ D(2) \/ D(3)
    <3>1. 1..3 = {1, 2, 3}  OBVIOUS
    <3> QED  BY <3>1
  <2> QED  BY <2>1, <2>2, <2>3, <2>4, <2>5 DEF f, g
<1> QED  BY ONLY <1>2, <1>4, <1>5, <1>6, <1>7 DEF IsUpgrade

-----------------------------------------------------------------------------
(* The invariant *)

\* The registered version is what the version of the header is reread as, and the
\* verdict on a manifest compares with it.
VersionInv ==
  /\ phase \in {"boot", "print", "idle", "accepted", "rejected"}
  /\ \E a, b, c \in Printable :
       /\ header = Pack(a, b, c)
       /\ phase = "print" => text = IntToSemver(header)
       /\ phase \in {"idle", "accepted", "rejected"} =>
            registered = Pack(Reread(a), Reread(b), Reread(c))
  /\ phase \in {"accepted", "rejected"} =>
       \E a, b, c \in Printable :
         /\ manifest = <<a, b, c>>
         /\ phase = "accepted" <=> IsUpgrade(Pack(a, b, c), registered)

(***************************************************************************)
(* What a printed version is parsed as.                                    *)
(***************************************************************************)
LEMMA RoundTrip ==
  ASSUME NEW a \in Printable, NEW b \in Printable, NEW c \in Printable
  PROVE  SemverToInt(IntToSemver(Pack(a, b, c))) = Pack(Reread(a), Reread(b), Reread(c))
<1> DEFINE t == IntToSemver(Pack(a, b, c))
<1>1. Fields(Pack(a, b, c)) = <<a, b, c>>  BY Unpacked
<1>2. t = [i \in 1..3 |-> AppendNumber(<<a, b, c>>[i])]  BY <1>1 DEF IntToSemver
<1>3. /\ t[1] = AppendNumber(a) /\ t[2] = AppendNumber(b) /\ t[3] = AppendNumber(c)
  BY <1>2
<1> HIDE DEF t
<1>4. /\ ParseNumber(t[1]) = Reread(a) /\ ParseNumber(t[2]) = Reread(b)
      /\ ParseNumber(t[3]) = Reread(c)
  BY <1>3, PrintParse
<1> QED  BY <1>4 DEF SemverToInt, t

(***************************************************************************)
(* The invariant holds at the start ...                                    *)
(***************************************************************************)
LEMMA VersionInit == Init => VersionInv
<1> SUFFICES ASSUME Init PROVE VersionInv  OBVIOUS
<1>1. PICK a \in Numbers, b \in Numbers, c \in Numbers : header = Pack(a, b, c)
  BY DEF Init
<1>2. a \in Printable /\ b \in Printable /\ c \in Printable  BY PrintableNumbers
<1>3. phase = "boot"  BY DEF Init
<1> QED  BY <1>1, <1>2, <1>3 DEF VersionInv

(***************************************************************************)
(* ... and every step preserves it.                                        *)
(***************************************************************************)
LEMMA VersionStep == VersionInv /\ [Next]_vars => VersionInv'
<1> SUFFICES ASSUME VersionInv, [Next]_vars PROVE VersionInv'  OBVIOUS
<1>0. PICK a \in Printable, b \in Printable, c \in Printable :
        /\ header = Pack(a, b, c)
        /\ phase = "print" => text = IntToSemver(header)
        /\ phase \in {"idle", "accepted", "rejected"} =>
             registered = Pack(Reread(a), Reread(b), Reread(c))
  BY DEF VersionInv
<1>1. CASE PrintVersion
  BY <1>0, <1>1 DEF PrintVersion, VersionInv
<1>2. CASE AddComponent
  <2>1. registered' = Pack(Reread(a), Reread(b), Reread(c))
    BY <1>0, <1>2, RoundTrip DEF AddComponent
  <2> QED  BY <1>0, <1>2, <2>1 DEF AddComponent, VersionInv
<1>3. CASE HandleManifest
  <2>1. PICK x \in Numbers, y \in Numbers, z \in Numbers :
          /\ manifest' = <<x, y, z>>
          /\ phase' = IF IsUpgrade(Pack(x, y, z), registered) THEN "accepted" ELSE "rejected"
    BY <1>3 DEF HandleManifest
  <2>2. x \in Printable /\ y \in Printable /\ z \in Printable  BY PrintableNumbers
  <2>3. phase = "idle" /\ UNCHANGED <<header, text, registered>>  BY <1>3 DEF HandleManifest
  <2>4. phase' = "accepted" <=> IsUpgrade(Pack(x, y, z), registered)'
    BY <2>1, <2>3 DEF IsUpgrade, Pack
  <2>5. phase' \in {"accepted", "rejected"}  BY <2>1
  <2> QED  BY <1>0, <2>1, <2>2, <2>3, <2>4, <2>5 DEF VersionInv
<1>4. CASE Decided \/ UNCHANGED vars
  BY <1>4 DEF Decided, vars, VersionInv, IsUpgrade, Pack
<1> QED  BY <1>1, <1>2, <1>3, <1>4 DEF Next

(***************************************************************************)
(* VersionInv is invariant.                                                *)
(***************************************************************************)
THEOREM VersionInductive == Spec => []VersionInv
BY VersionInit, VersionStep, PTL DEF Spec

(***************************************************************************)
(* fota_init registers the main component with the version of its boot     *)
(* header, except that the numbers 10 and 100 are registered as 0.         *)
(***************************************************************************)
THEOREM LossSafe == Spec => []LossOnlyAtTenAndHundred
<1>1. VersionInv => LossOnlyAtTenAndHundred
  <2> SUFFICES ASSUME VersionInv, phase \in {"idle", "accepted", "rejected"},
                      NEW i \in 1..3
               PROVE  \/ Fields(registered)[i] = Fields(header)[i]
                      \/ Fields(header)[i] \in {10, 100} /\ Fields(registered)[i] = 0
    BY DEF LossOnlyAtTenAndHundred
  <2>1. PICK a \in Printable, b \in Printable, c \in Printable :
          /\ header = Pack(a, b, c)
          /\ registered = Pack(Reread(a), Reread(b), Reread(c))
    BY DEF VersionInv
  <2>2. Reread(a) \in Printable /\ Reread(b) \in Printable /\ Reread(c) \in Printable
    BY PrintableNumbers DEF Reread
  <2>3. Fields(header) = <<a, b, c>>  BY <2>1, Unpacked
  <2>4. Fields(registered) = <<Reread(a), Reread(b), Reread(c)>>  BY <2>1, <2>2, Unpacked
  <2>5. i = 1 \/ i = 2 \/ i = 3  OBVIOUS
  <2> QED  BY <2>3, <2>4, <2>5 DEF Reread
<1> QED  BY <1>1, VersionInductive, PTL

(***************************************************************************)
(* handle_manifest accepts exactly the versions that are newer than the    *)
(* registered one, field by field: packing does not change the order.      *)
(***************************************************************************)
THEOREM OrderSafe == Spec => []AcceptedIsNewer
<1>1. VersionInv => AcceptedIsNewer
  <2> SUFFICES ASSUME VersionInv, phase \in {"accepted", "rejected"}
               PROVE  phase = "accepted" <=> Newer(manifest, Fields(registered))
    BY DEF AcceptedIsNewer
  <2>1. PICK a \in Printable, b \in Printable, c \in Printable :
          registered = Pack(Reread(a), Reread(b), Reread(c))
    BY DEF VersionInv
  <2>2. Reread(a) \in Printable /\ Reread(b) \in Printable /\ Reread(c) \in Printable
    BY PrintableNumbers DEF Reread
  <2>3. Fields(registered) = <<Reread(a), Reread(b), Reread(c)>>  BY <2>1, <2>2, Unpacked
  <2>4. PICK x \in Printable, y \in Printable, z \in Printable :
          /\ manifest = <<x, y, z>>
          /\ phase = "accepted" <=> IsUpgrade(Pack(x, y, z), registered)
    BY DEF VersionInv
  <2> QED  BY <2>1, <2>2, <2>3, <2>4, PackedOrder
<1> QED  BY <1>1, VersionInductive, PTL

=============================================================================
