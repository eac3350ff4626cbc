----------------------------- MODULE NvmProofs ------------------------------
(***************************************************************************)
(* The NVM, for any number of words.                                       *)
(*                                                                         *)
(* In flash, for banks of at most two sectors and as long as no step of an *)
(* update goes wrong unnoticed:                                            *)
(*   - some bank is valid and each that is holds a whole image, wherever   *)
(*     the power is lost;                                                  *)
(*   - an update takes effect in one step;                                 *)
(*   - reads see what has been written.                                    *)
(*                                                                         *)
(* Through e1000_set_eeprom, for any pages and ranges: exactly the bytes   *)
(* that ethtool gave change, and the checksum covers them.                 *)
(***************************************************************************)
EXTENDS NvmFlash, Integers, TLAPS, WellFoundedInduction

(* The least number of a set, and what follows by going up one at a time. *)

LEMMA LeastNumber ==
  ASSUME NEW T, T \subseteq Nat, T # {}
  PROVE  \E x \in T : \A y \in T : x <= y
<1> DEFINE R == OpToRel(<, Nat)
<1>1. IsWellFoundedOn(R, Nat)
  BY NatLessThanWellFounded
<1>2. \A x, y \in Nat : y < x => <<y, x>> \in R
  BY DEF OpToRel
<1>. HIDE DEF R
<1>3. PICK x \in T : \A y \in T : ~ (<<y, x>> \in R)
  BY <1>1, WFMin
<1>4. \A y \in T : ~ (y < x)
  BY <1>2, <1>3
<1>. QED BY <1>4

LEMMA Reaches ==
  ASSUME NEW S, NEW n \in Nat, 0 \in S, \A k \in 0 .. n - 1 : k \in S => k + 1 \in S
  PROVE  0 .. n \subseteq S
<1> DEFINE T == (0 .. n) \ S
<1>1. SUFFICES ASSUME T # {} PROVE FALSE
  OBVIOUS
<1>2. PICK x \in T : \A y \in T : x <= y
  <2>1. T \subseteq Nat
    OBVIOUS
  <2>. HIDE DEF T
  <2>. QED BY <1>1, <2>1, LeastNumber
<1>3. x - 1 \in S /\ x - 1 \in 0 .. n - 1
  BY <1>2
<1>. QED BY <1>3

Cells == [0 .. Words - 1 -> 0 .. 3]

(* The sums of an image, word by word. *)
SumsOf(image, n) ==
  CHOOSE sums : sums = [w \in 0 .. n |-> IF w = 0 THEN image[0] ELSE sums[w - 1] + image[w]]

LEMMA SumsEquation ==
  ASSUME NEW image, NEW n \in Nat
  PROVE  SumsOf(image, n) =
           [w \in 0 .. n |-> IF w = 0 THEN image[0] ELSE SumsOf(image, n)[w - 1] + image[w]]
<1> DEFINE Is(c, m) == c = [w \in 0 .. m |-> IF w = 0 THEN image[0] ELSE c[w - 1] + image[w]]
           Solved == {m \in Nat : \E c : Is(c, m)}
<1>1. 0 \in Solved
  <2>1. Is([w \in 0 .. 0 |-> image[0]], 0)
    OBVIOUS
  <2>. QED BY <2>1
<1>2. ASSUME NEW m \in 0 .. n - 1, m \in Solved PROVE m + 1 \in Solved
  <2>1. m \in Nat /\ m + 1 \in Nat
    OBVIOUS
  <2>2. PICK c : Is(c, m)
    BY <1>2
  <2> DEFINE d == [w \in 0 .. m + 1 |-> IF w = 0 THEN image[0] ELSE c[w - 1] + image[w]]
  <2>3. ASSUME NEW w \in 0 .. m PROVE d[w] = c[w]
    BY <2>1, <2>2
  <2>4. ASSUME NEW w \in 0 .. m + 1, w # 0 PROVE d[w - 1] = c[w - 1]
    <3>1. w - 1 \in 0 .. m
      BY <2>1, <2>4
    <3>. QED BY <2>3, <3>1
  <2>5. Is(d, m + 1)
    BY <2>4
  <2>. QED BY <2>1, <2>5
<1>3. 0 .. n \subseteq Solved
  <2>. HIDE DEF Solved
  <2>. QED BY <1>1, <1>2, Reaches
<1>4. n \in Solved
  <2>. HIDE DEF Solved
  <2>. QED BY <1>3
<1>5. \E c : Is(c, n)
  <2>. HIDE DEF Is
  <2>. QED BY <1>4
<1>. QED BY <1>5 DEF SumsOf

LEMMA SumToIs ==
  ASSUME NEW image, NEW n \in Nat PROVE SumTo(image, n) = SumsOf(image, n)[n]
BY DEF SumTo, SumsOf

LEMMA SumsRange ==
  ASSUME NEW image \in Cells, NEW n \in 0 .. Words - 1, Words \in Nat
  PROVE  \A w \in 0 .. n : SumsOf(image, n)[w] \in Nat /\ SumsOf(image, n)[w] <= 3 * (w + 1)
<1> DEFINE f == SumsOf(image, n)
           S == {w \in 0 .. n : f[w] \in Nat /\ f[w] <= 3 * (w + 1)}
<1>1. f = [w \in 0 .. n |-> IF w = 0 THEN image[0] ELSE f[w - 1] + image[w]]
  BY SumsEquation
<1>. HIDE DEF f
<1>0. \A w \in 0 .. n : image[w] \in 0 .. 3
  BY DEF Cells
<1>2. 0 \in S
  <2>1. f[0] = image[0]
    BY <1>1
  <2>. QED BY <1>0, <2>1
<1>3. ASSUME NEW k \in 0 .. n - 1, k \in S PROVE k + 1 \in S
  <2>1. f[k + 1] = f[k] + image[k + 1]
    BY <1>1
  <2>2. image[k + 1] \in 0 .. 3
    BY <1>0
  <2>. QED BY <1>3, <2>1, <2>2
<1>4. 0 .. n \subseteq S
  <2>. HIDE DEF S
  <2>. QED BY <1>2, <1>3, Reaches
<1>. QED BY <1>4 DEF f

(* Sums of images that agree up to n, the first of which may be longer. *)
LEMMA SumsAgree ==
  ASSUME NEW image, NEW other, NEW n \in Nat, NEW m \in Nat, n <= m,
         \A w \in 0 .. n : image[w] = other[w]
  PROVE  \A w \in 0 .. n : SumsOf(image, m)[w] = SumsOf(other, n)[w]
<1> DEFINE f == SumsOf(image, m)
           g == SumsOf(other, n)
           S == {w \in 0 .. n : f[w] = g[w]}
<1>1. f = [w \in 0 .. m |-> IF w = 0 THEN image[0] ELSE f[w - 1] + image[w]]
  BY SumsEquation
<1>2. g = [w \in 0 .. n |-> IF w = 0 THEN other[0] ELSE g[w - 1] + other[w]]
  BY SumsEquation
<1>. HIDE DEF f, g
<1>3. 0 \in S
  <2>1. f[0] = image[0] /\ g[0] = other[0]
    BY <1>1, <1>2
  <2>. QED BY <2>1
<1>4. ASSUME NEW k \in 0 .. n - 1, k \in S PROVE k + 1 \in S
  <2>1. f[k + 1] = f[k] + image[k + 1] /\ g[k + 1] = g[k] + other[k + 1]
    BY <1>1, <1>2
  <2>. QED BY <1>4, <2>1
<1>5. 0 .. n \subseteq S
  <2>. HIDE DEF S
  <2>. QED BY <1>3, <1>4, Reaches
<1>. QED BY <1>5 DEF f, g

LEMMA SumRange ==
  ASSUME NEW image \in Cells, NEW n \in 0 .. Words - 1, Words \in Nat
  PROVE  SumTo(image, n) \in Nat /\ SumTo(image, n) <= 3 * (n + 1)
BY SumsRange, SumToIs

LEMMA SumAgrees ==
  ASSUME NEW image, NEW other, NEW n \in Nat, \A w \in 0 .. n : image[w] = other[w]
  PROVE  SumTo(image, n) = SumTo(other, n)
BY SumsAgree, SumToIs

LEMMA SumGrows ==
  ASSUME NEW image, NEW n \in Nat
  PROVE  SumTo(image, n + 1) = SumTo(image, n) + image[n + 1]
<1> DEFINE f == SumsOf(image, n + 1)
<1>1. f = [w \in 0 .. n + 1 |-> IF w = 0 THEN image[0] ELSE f[w - 1] + image[w]]
  BY SumsEquation
<1>2. f[n] = SumsOf(image, n)[n]
  BY SumsAgree
<1>. HIDE DEF f
<1>3. f[n + 1] = f[n] + image[n + 1]
  BY <1>1
<1>. QED BY <1>2, <1>3, SumToIs DEF f

(* The checksum makes the words up to it add up to NVM_SUM. *)
LEMMA ChecksumFits ==
  ASSUME Assumption, NEW image \in Cells
  PROVE  Total([image EXCEPT ![ChecksumWord] =
                  (Sum + 4 * Words - SumTo(image, ChecksumWord - 1)) % 4]) = Sum
<1> DEFINE n == ChecksumWord - 1
           total == SumTo(image, n)
           v == (Sum + 4 * Words - total) % 4
           new == [image EXCEPT ![ChecksumWord] = v]
<1>1. n \in Nat /\ n + 1 = ChecksumWord /\ ChecksumWord \in 0 .. Words - 1 /\ Words \in Nat
  BY DEF Assumption
<1>2. total \in Nat /\ total <= 3 * (n + 1)
  BY <1>1, SumRange
<1>3. SumTo(new, n) = total
  <2>1. \A w \in 0 .. n : new[w] = image[w]
    BY <1>1 DEF Cells
  <2>. HIDE DEF new
  <2>. QED BY <1>1, <2>1, SumAgrees
<1>4. new[ChecksumWord] = v
  BY <1>1 DEF Cells
<1>5. SumTo(new, ChecksumWord) = total + v
  <2>. HIDE DEF new, v, total
  <2>1. SumTo(new, n + 1) = SumTo(new, n) + new[n + 1]
    BY <1>1, SumGrows
  <2>. QED BY <1>1, <1>3, <1>4, <2>1
<1>6. (total + v) % 4 = Sum
  <2>1. Sum \in 0 .. 3
    BY DEF Assumption
  <2>. HIDE DEF total
  <2>. QED BY <1>1, <1>2, <2>1
<1>. HIDE DEF new
<1>. QED BY <1>5, <1>6 DEF Total, new

-----------------------------------------------------------------------------
(* Where the address of a sector adds up right, and what must not go wrong *)
(* unnoticed: a bank taken for the valid one, a sector taken for erased.    *)
TwoSectors == Words = SectorWords \/ Words = 2 * SectorWords
Noticed == "detect" \notin MayFail /\ "persist" \notin MayFail

(* e1000_read_nvm_spt is only asked for single words. *)
OneByOne == "spt" \in Kinds => \A r \in Reads : r[2] <= 1

(* The bank that is written, and what it is to hold. *)
Other == 1 - op.bank
Update == Overlaid(Image(op.bank))

(* The bank that EECD tells is valid until the old one is voided. *)
Loaded == kind = "eecd" /\ op.at # "clear" => hwBank \in Valid

(* Until the new bank is marked the update copies the bank in use. *)
Begun == op.at \in {"erase", "program"} => op.bank = Bank

(* From the checksum on the words add up. *)
SumFits == op.at \in {"detect", "erase", "program"} => Total(Overlaid(Image(Bank))) = Sum

(* What has been erased and programmed; a locked sector ends the update *)
(* before its first word.                                               *)
Erases == op.at = "erase" /\ ~locked =>
  /\ op.i <= 1 => op.address = Start(Other)
  /\ op.i >= 1 => sig[Other] = "11"
  /\ op.i = 1 => \A w \in 0 .. SectorWords - 1 : flash[Start(Other) + w] = Erased
  /\ op.i = 2 => \A w \in 0 .. Words - 1 : flash[Start(Other) + w] = Erased

Programs == op.at = "program" =>
  IF locked THEN op.i = 0
  ELSE /\ op.i <= Words /\ (kind = "spt" => op.i % 2 = 0)
       /\ sig[Other] = "11"
       /\ \A w \in 0 .. Words - 1 :
             flash[Start(Other) + w] = IF w < op.i THEN Update[w] ELSE Erased

(* Two valid banks differ by the update alone. *)
Switches == op.at \in {"void", "clear"} =>
  /\ Image(Other) = Update
  /\ sig[Other] = "10" /\ (op.at = "void" <=> sig[op.bank] = "10")
  /\ kind = "eecd" => hwBank = op.bank

(* The inductive invariant. *)
IInv == TypeOK /\ ABankIsValid /\ Loaded /\ Begun /\ SumFits /\ Erases /\ Programs /\ Switches

NothingRead == op.at # "idle" => read.data = <<>>
-----------------------------------------------------------------------------
(* Where things are. *)

LEMMA Constants ==
  ASSUME Assumption
  PROVE  /\ Words \in Nat /\ Words >= 2 /\ SectorWords \in Nat /\ SectorWords >= 2
         /\ Sum \in 0 .. 3 /\ ChecksumWord \in 0 .. Words - 1
         /\ Start(0) = 0 /\ Start(1) = Words
         /\ \A b \in 0 .. 1 : Start(b) \in Nat
BY DEF Assumption, SigWord, Start

LEMMA ImageIs ==
  ASSUME Assumption, TypeOK, NEW b \in 0 .. 1
  PROVE  /\ Image(b) \in Cells
         /\ \A w \in 0 .. Words - 1 : Image(b)[w] = flash[Start(b) + w]
         /\ \A w \in 0 .. Words - 1 : Start(b) + w \in 0 .. 2 * Words - 1
<1>1. \A w \in 0 .. Words - 1 : Start(b) + w \in 0 .. 2 * Words - 1
  BY Constants
<1>2. \A w \in 0 .. Words - 1 : flash[Start(b) + w] \in 0 .. 3
  BY <1>1 DEF TypeOK
<1>. QED BY <1>1, <1>2 DEF Image, Cells

LEMMA OverlaidIs ==
  ASSUME TypeOK, NEW image \in Cells
  PROVE  /\ Overlaid(image) \in Cells
         /\ \A w \in 0 .. Words - 1 :
              Overlaid(image)[w] = IF shadow[w].modified THEN shadow[w].value ELSE image[w]
<1>1. \A w \in 0 .. Words - 1 : shadow[w] \in [modified : BOOLEAN, value : 0 .. 3]
  BY DEF TypeOK
<1>. QED BY <1>1 DEF Overlaid, Cells

LEMMA BankIs ==
  ASSUME TypeOK
  PROVE  /\ Bank \in 0 .. 1 /\ Valid \subseteq 0 .. 1
         /\ ABankIsValid /\ Loaded /\ op.at # "clear" => Bank \in Valid
         /\ ABankIsValid /\ kind # "eecd" => Bank \in Valid
BY DEF TypeOK, Bank, Detected, SigRead, Valid, ABankIsValid, Loaded

LEMMA LoadsValid ==
  ASSUME TypeOK, ABankIsValid, NEW bank \in Loads(sig) PROVE bank \in Valid
BY DEF Loads, Valid, ABankIsValid

LEMMA SameWords ==
  ASSUME UNCHANGED <<kind, flash, sig, hwBank>> PROVE Image(Bank)' = Image(Bank)
BY DEF Image, Bank, Detected, SigRead, Valid

(* The flash is left alone, and no update runs. *)
LEMMA Rests ==
  ASSUME Assumption, IInv, TypeOK', op'.at = "idle", UNCHANGED <<kind, flash, sig>>,
         (hwBank' = hwBank /\ op.at # "clear") \/ hwBank' \in Valid
  PROVE  IInv'
<1>1. Valid' = Valid /\ \A b \in 0 .. 1 : Image(b)' = Image(b)
  BY DEF Valid, Image
<1>2. ABankIsValid'
  BY <1>1, BankIs DEF IInv, ABankIsValid
<1>3. Loaded'
  BY <1>1 DEF IInv, Loaded
<1>. QED BY <1>2, <1>3 DEF IInv, Begun, SumFits, Erases, Programs, Switches

LEMMA ReadKeeps ==
  ASSUME Assumption, IInv, NEW r \in Reads, Read(r) PROVE IInv'
<1>1. TypeOK'
  BY DEF IInv, Read, TypeOK
<1>. QED BY <1>1, Rests DEF Read

LEMMA WriteTypes ==
  ASSUME Assumption, TypeOK, NEW words \in Writes, Write(words) PROVE TypeOK'
<1>1. words \in SUBSET ((0 .. Words - 1) \X (0 .. 3))
  BY DEF Assumption
<1>2. ASSUME NEW w \in 0 .. Words - 1
      PROVE  (IF \E x \in words : x[1] = w
              THEN [modified |-> TRUE, value |-> (CHOOSE x \in words : x[1] = w)[2]]
              ELSE shadow[w]) \in [modified : BOOLEAN, value : 0 .. 3]
  <2>1. CASE \E x \in words : x[1] = w
    <3>1. (CHOOSE x \in words : x[1] = w) \in words
      BY <2>1
    <3>2. (CHOOSE x \in words : x[1] = w)[2] \in 0 .. 3
      BY <1>1, <3>1
    <3>. QED BY <2>1, <3>2
  <2>2. CASE ~ \E x \in words : x[1] = w
    BY <2>2 DEF TypeOK
  <2>. QED BY <2>1, <2>2
<1>3. DOMAIN shadow = 0 .. Words - 1
  BY DEF TypeOK
<1>4. shadow' \in [0 .. Words - 1 -> [modified : BOOLEAN, value : 0 .. 3]]
  BY <1>2, <1>3 DEF Write
<1>5. op' \in [at : {"idle", "sum", "detect", "erase", "program", "void", "clear"},
               bank : 0 .. 1, i : Nat, address : Nat, tries : Nat]
  BY DEF Write, TypeOK
<1>. QED BY <1>4, <1>5 DEF Write, TypeOK

LEMMA WriteKeeps ==
  ASSUME Assumption, IInv, NEW words \in Writes, Write(words) PROVE IInv'
<1>1. TypeOK'
  BY WriteTypes DEF IInv
<1>2. CASE op'.at = "idle"
  BY <1>1, <1>2, Rests DEF Write
<1>3. CASE op'.at # "idle"
  <2>1. op'.at = "sum"
    BY <1>3 DEF Write, IInv, TypeOK
  <2>2. Valid' = Valid /\ \A b \in 0 .. 1 : Image(b)' = Image(b)
    BY DEF Valid, Image, Write
  <2>3. ABankIsValid'
    BY <2>2, BankIs DEF IInv, ABankIsValid
  <2>4. Loaded'
    BY <2>2 DEF IInv, Loaded, Write
  <2>. QED BY <1>1, <2>1, <2>3, <2>4 DEF IInv, Begun, SumFits, Erases, Programs, Switches
<1>. QED BY <1>2, <1>3

LEMMA SumKeeps == ASSUME Assumption, IInv, UpdateSum PROVE IInv'
<1> DEFINE image == Overlaid(Image(Bank))
           value == (Sum + 4 * Words - SumTo(image, ChecksumWord - 1)) % 4
<1>. TypeOK /\ Bank \in 0 .. 1
  BY BankIs DEF IInv
<1>1. image \in Cells
  BY ImageIs, OverlaidIs
<1>2. CASE Fails("sum") /\ UNCHANGED shadow
  <2>1. op'.at = "idle" /\ TypeOK'
    BY <1>2 DEF Fails, Go, UpdateSum, TypeOK
  <2>. QED BY <2>1, Rests DEF UpdateSum
<1>3. CASE /\ shadow' = [shadow EXCEPT ![ChecksumWord] = [modified |-> TRUE, value |-> value]]
           /\ Go("detect")
  <2>1. value \in 0 .. 3
    <3>1. SumTo(image, ChecksumWord - 1) \in Nat
      BY <1>1, Constants, SumRange DEF Assumption
    <3>. HIDE DEF image
    <3>. QED BY <3>1, Constants
  <2>2. TypeOK'
    <3>. HIDE DEF value
    <3>. QED BY <1>3, <2>1, Constants DEF Go, UpdateSum, TypeOK
  <2>3. Valid' = Valid /\ Bank' = Bank /\ \A b \in 0 .. 1 : Image(b)' = Image(b)
    BY DEF Valid, Image, UpdateSum, Bank, Detected, SigRead
  <2>4. ABankIsValid'
    BY <2>3, BankIs DEF IInv, ABankIsValid
  <2>5. op'.at = "detect"
    BY <1>3 DEF Go, TypeOK
  <2>6. Loaded'
    BY <2>3, <2>5 DEF IInv, Loaded, UpdateSum
  <2>7. Overlaid(Image(Bank))' = [image EXCEPT ![ChecksumWord] = value]
    <3>1. Overlaid(Image(Bank))' = [w \in 0 .. Words - 1 |->
             IF shadow'[w].modified THEN shadow'[w].value ELSE Image(Bank)[w]]
      BY <2>3, ImageIs DEF Overlaid, Cells
    <3>2. image = [w \in 0 .. Words - 1 |->
             IF shadow[w].modified THEN shadow[w].value ELSE Image(Bank)[w]]
      BY ImageIs DEF Overlaid, Cells
    <3>. HIDE DEF image, value
    <3>. QED BY <1>1, <1>3, <3>1, <3>2, Constants DEF TypeOK, Cells
  <2>8. SumFits'
    <3>. HIDE DEF image
    <3>. QED BY <1>1, <2>7, ChecksumFits DEF SumFits
  <2>. QED BY <2>2, <2>4, <2>5, <2>6, <2>8 DEF IInv, Begun, Erases, Programs, Switches
<1>. QED BY <1>2, <1>3 DEF UpdateSum

LEMMA DetectKeeps == ASSUME Assumption, Noticed, IInv, Detect PROVE IInv'
<1>. TypeOK /\ Bank \in 0 .. 1
  BY BankIs DEF IInv
<1>1. op' = [at |-> "erase", bank |-> Bank, i |-> 0, address |-> Start(1 - Bank), tries |-> 0]
  BY DEF Detect, Noticed
<1>2. TypeOK'
  BY <1>1, Constants DEF Detect, TypeOK
<1>3. /\ Valid' = Valid /\ Bank' = Bank /\ Overlaid(Image(Bank))' = Overlaid(Image(Bank))
      /\ \A b \in 0 .. 1 : Image(b)' = Image(b)
  BY DEF Valid, Image, Detect, Bank, Detected, SigRead, Overlaid
<1>4. ABankIsValid'
  BY <1>3, BankIs DEF IInv, ABankIsValid
<1>5. Loaded' /\ Begun' /\ SumFits'
  BY <1>1, <1>3 DEF IInv, Loaded, Begun, SumFits, Detect
<1>6. Erases' /\ Programs' /\ Switches'
  BY <1>1 DEF Erases, Programs, Switches, Other
<1>. QED BY <1>2, <1>4, <1>5, <1>6 DEF IInv

(***************************************************************************)
(* While the other bank is written, the bank in use is found as before and *)
(* keeps its words.                                                        *)
(***************************************************************************)
LEMMA BankKept ==
  ASSUME Assumption, IInv, op.at \in {"erase", "program"}, TypeOK',
         UNCHANGED <<kind, hwBank, shadow>>,
         sig'[op.bank] = sig[op.bank], sig'[Other] \in {sig[Other], "11"},
         \A w \in 0 .. Words - 1 : flash'[Start(op.bank) + w] = flash[Start(op.bank) + w],
         sig'[Other] = "10" => flash' = flash
  PROVE  /\ Bank' = Bank /\ Image(Bank)' = Image(Bank) /\ Bank = op.bank
         /\ Overlaid(Image(Bank))' = Overlaid(Image(Bank))
         /\ ABankIsValid' /\ (kind = "eecd" => hwBank' \in Valid')
<1>. TypeOK /\ Bank \in 0 .. 1 /\ op.bank = Bank /\ op.bank \in 0 .. 1
  BY BankIs DEF IInv, Begun
<1>1. Bank \in Valid /\ (kind = "eecd" => hwBank \in Valid)
  BY BankIs DEF IInv, Loaded
<1>2. Bank' = Bank /\ Bank \in Valid' /\ Valid' \subseteq Valid
  BY <1>1 DEF Valid, Bank, Detected, SigRead, TypeOK, Other
<1>3. kind = "eecd" => hwBank' \in Valid'
  BY <1>1, <1>2 DEF Bank, Detected, TypeOK, Valid
<1>5. Image(Bank)' = Image(Bank)
  BY <1>2 DEF Image
<1>6. Overlaid(Image(Bank))' = Overlaid(Image(Bank))
  BY <1>5 DEF Overlaid
<1>7. ASSUME NEW b \in Valid' PROVE Total(Image(b)') = Sum
  <2>1. b \in Valid /\ b \in 0 .. 1
    BY <1>2 DEF Valid
  <2>2. Image(b)' = Image(b)
    <3>1. CASE b = op.bank
      BY <3>1, <1>2, <1>5 DEF Image
    <3>2. CASE b = Other
      <4>1. sig'[Other] = "10"
        BY <3>2 DEF Valid
      <4>. QED BY <4>1 DEF Image
    <3>. QED BY <2>1, <3>1, <3>2 DEF Other
  <2>. QED BY <2>1, <2>2 DEF IInv, ABankIsValid
<1>8. ABankIsValid'
  BY <1>2, <1>7 DEF ABankIsValid
<1>. QED BY <1>2, <1>3, <1>5, <1>6, <1>8

LEMMA Sectors ==
  ASSUME Assumption, TwoSectors
  PROVE  /\ Words = SectorWords => Words \div SectorWords = 1
         /\ Words = 2 * SectorWords => Words \div SectorWords = 2
<1>1. SectorWords \in Nat /\ SectorWords > 0
  BY Constants
<1>2. SectorWords \div SectorWords = 1
  BY <1>1
<1>3. (2 * SectorWords) \div SectorWords = 2
  BY <1>1
<1>. QED BY <1>2, <1>3

LEMMA SectorErased ==
  ASSUME Assumption, TwoSectors, IInv, op.at = "erase", ~ locked, op.i < Words \div SectorWords
  PROVE  /\ \/ op.i = 0 /\ op.address + op.i * SectorWords = Start(Other)
            \/ /\ op.i = 1 /\ Words = 2 * SectorWords
               /\ op.address + op.i * SectorWords = Start(Other) + SectorWords
         /\ op.i + 1 = Words \div SectorWords =>
              op.address + op.i * SectorWords + SectorWords = Start(Other) + Words
<1>1. op.i \in Nat /\ op.bank \in 0 .. 1 /\ Other \in 0 .. 1
  BY DEF IInv, TypeOK, Other
<1>2. op.i \in 0 .. 1 /\ (op.i = 1 => Words = 2 * SectorWords)
  BY <1>1, Sectors, Constants DEF TwoSectors
<1>3. op.address = Start(Other) /\ Start(Other) \in Nat
  BY <1>1, <1>2, Constants DEF IInv, Erases
<1>4. CASE op.i = 0
  <2>1. op.address + op.i * SectorWords = Start(Other)
    BY <1>3, <1>4, Constants
  <2>2. op.i + 1 = Words \div SectorWords => SectorWords = Words
    BY <1>4, Sectors, Constants DEF TwoSectors
  <2>. QED BY <1>3, <1>4, <2>1, <2>2
<1>5. CASE op.i = 1
  <2>1. op.address + op.i * SectorWords = Start(Other) + SectorWords
    BY <1>3, <1>5, Constants
  <2>. QED BY <1>2, <1>3, <1>5, <2>1, Constants
<1>. QED BY <1>2, <1>4, <1>5

LEMMA EraseKeeps ==
  ASSUME Assumption, TwoSectors, Noticed, IInv, EraseSector
  PROVE  IInv' /\ Image(Bank)' = Image(Bank)
<1> DEFINE a == op.address + op.i * SectorWords
           sector == a .. a + SectorWords - 1
           done == [op EXCEPT !.i = @ + 1, !.address = a]
<1>. TypeOK /\ op.bank \in 0 .. 1 /\ Other \in 0 .. 1 /\ op.at = "erase"
  BY DEF IInv, TypeOK, Other, EraseSector
<1>0. op.i < Words \div SectorWords /\ a \in Nat
  BY Constants DEF EraseSector, TypeOK
<1>1. CASE /\ ~ locked
           /\ flash' = [x \in DOMAIN flash |-> IF x \in sector THEN Erased ELSE flash[x]]
           /\ sig' = [b \in 0 .. 1 |-> IF Start(b) + SigWord \in sector THEN "11" ELSE sig[b]]
           /\ op' = done
  <2>1. /\ \/ op.i = 0 /\ a = Start(Other)
           \/ op.i = 1 /\ Words = 2 * SectorWords /\ a = Start(Other) + SectorWords
        /\ op.i + 1 = Words \div SectorWords => a + SectorWords = Start(Other) + Words
    BY <1>0, <1>1, SectorErased, Zenon
  <2>. HIDE DEF a
  <2>2. TypeOK'
    <3>1. flash' \in [0 .. 2 * Words - 1 -> 0 .. 3]
      BY <1>1 DEF TypeOK, Erased
    <3>2. sig' \in [0 .. 1 -> {"11", "10", "00"}]
      BY <1>1 DEF TypeOK
    <3>3. op' \in [at : {"idle", "sum", "detect", "erase", "program", "void", "clear"},
                   bank : 0 .. 1, i : Nat, address : Nat, tries : Nat]
      <4>1. op.at = "erase" /\ op.i + 1 \in Nat /\ a \in Nat
        BY <1>0 DEF TypeOK
      <4>. QED BY <1>1, <4>1 DEF TypeOK
    <3>. QED BY <3>1, <3>2, <3>3 DEF TypeOK, EraseSector
  <2>3. \A w \in 0 .. Words - 1 : Start(op.bank) + w \notin sector
    BY <2>1, Constants DEF Other, TwoSectors
  <2>4. \A w \in 0 .. Words - 1 : flash'[Start(op.bank) + w] = flash[Start(op.bank) + w]
    BY <1>1, <2>3, ImageIs DEF TypeOK
  <2>5. sig'[op.bank] = sig[op.bank]
    BY <1>1, <2>3, Constants DEF SigWord
  <2>6. sig'[Other] = "11"
    <3>1. CASE op.i = 0
      BY <1>1, <2>1, <3>1, Constants DEF SigWord
    <3>2. CASE op.i = 1
      BY <1>1, <3>2 DEF IInv, Erases
    <3>. QED BY <2>1, <3>1, <3>2
  <2>7. \A w \in 0 .. Words - 1 :
          flash'[Start(Other) + w] = IF Start(Other) + w \in sector THEN Erased
                                     ELSE flash[Start(Other) + w]
    BY <1>1, ImageIs DEF TypeOK
  <2>8. /\ Bank' = Bank /\ Image(Bank)' = Image(Bank) /\ Bank = op.bank
        /\ Overlaid(Image(Bank))' = Overlaid(Image(Bank))
        /\ ABankIsValid' /\ (kind = "eecd" => hwBank' \in Valid')
    BY <2>2, <2>4, <2>5, <2>6, BankKept DEF EraseSector
  <2>9. op'.at = "erase" /\ op'.bank = op.bank /\ Other' = Other /\ op'.i = op.i + 1
        /\ op'.address = a
    BY <1>1 DEF TypeOK, Other
  <2>10. Loaded' /\ Begun' /\ SumFits'
    BY <2>8, <2>9 DEF IInv, Loaded, Begun, SumFits, EraseSector
  <2>11. Erases'
    <3>1. op'.i <= 1 => op'.address = Start(Other)
      BY <2>1, <2>9
    <3>2. op'.i = 1 => \A w \in 0 .. SectorWords - 1 : flash'[Start(Other) + w] = Erased
      <4>1. SUFFICES ASSUME op'.i = 1, NEW w \in 0 .. SectorWords - 1
                     PROVE  flash'[Start(Other) + w] = Erased
        OBVIOUS
      <4>2. a = Start(Other) /\ w \in 0 .. Words - 1
        BY <2>1, <2>9, <4>1, Constants DEF TwoSectors
      <4>3. Start(Other) + w \in sector
        BY <4>2, Constants
      <4>. QED BY <2>7, <4>2, <4>3
    <3>3. op'.i = 2 => \A w \in 0 .. Words - 1 : flash'[Start(Other) + w] = Erased
      <4>1. SUFFICES ASSUME op'.i = 2, NEW w \in 0 .. Words - 1
                     PROVE  flash'[Start(Other) + w] = Erased
        OBVIOUS
      <4>2. op.i = 1 /\ a = Start(Other) + SectorWords /\ Words = 2 * SectorWords
        BY <2>1, <2>9, <4>1
      <4>3. CASE w < SectorWords
        <5>1. w \in 0 .. SectorWords - 1
          BY <4>3, Constants
        <5>2. flash[Start(Other) + w] = Erased
          BY <1>1, <4>2, <5>1 DEF IInv, Erases
        <5>. QED BY <2>7, <5>2
      <4>4. CASE w >= SectorWords
        <5>1. Start(Other) + w \in sector
          BY <4>2, <4>4, Constants
        <5>. QED BY <2>7, <5>1
      <4>. QED BY <4>3, <4>4, Constants
    <3>. QED BY <2>6, <2>9, <3>1, <3>2, <3>3 DEF Erases
  <2>. QED BY <2>2, <2>8, <2>9, <2>10, <2>11 DEF IInv, Programs, Switches
<1>2. CASE /\ locked /\ UNCHANGED <<flash, sig>>
           /\ op' = IF op.tries + 1 < EraseTries
                    THEN [op EXCEPT !.tries = @ + 1, !.address = a]
                    ELSE [done EXCEPT !.tries = @ + 1]
  <2>. HIDE DEF a
  <2>1. /\ op' \in [at : {"idle", "sum", "detect", "erase", "program", "void", "clear"},
                    bank : 0 .. 1, i : Nat, address : Nat, tries : Nat]
        /\ op'.at = "erase" /\ op'.bank = op.bank
    <3>1. op.at = "erase" /\ op.i + 1 \in Nat /\ op.tries + 1 \in Nat /\ a \in Nat
      BY <1>0 DEF TypeOK
    <3>. QED BY <1>2, <3>1 DEF TypeOK
  <2>2. TypeOK'
    BY <1>2, <2>1 DEF TypeOK, EraseSector
  <2>3. Bank' = Bank /\ Valid' = Valid /\ \A b \in 0 .. 1 : Image(b)' = Image(b)
    BY <1>2 DEF EraseSector, Valid, Bank, Detected, SigRead, Image
  <2>4. ABankIsValid'
    BY <2>3, BankIs DEF IInv, ABankIsValid
  <2>5. Overlaid(Image(Bank))' = Overlaid(Image(Bank))
    BY <2>3, BankIs DEF Overlaid, EraseSector, Image
  <2>6. Loaded' /\ Begun' /\ SumFits'
    BY <2>1, <2>3, <2>5 DEF IInv, Loaded, Begun, SumFits, EraseSector
  <2>7. Image(Bank)' = Image(Bank)
    BY <2>3, BankIs DEF Image
  <2>. QED BY <1>2, <2>1, <2>2, <2>4, <2>6, <2>7
           DEF IInv, Erases, Programs, Switches, EraseSector
<1>3. CASE Fails("erase") /\ UNCHANGED <<flash, sig>>
  <2>1. op'.at = "idle" /\ TypeOK'
    BY <1>3 DEF Fails, Go, EraseSector, TypeOK
  <2>2. Image(Bank)' = Image(Bank)
    BY <1>3, SameWords DEF EraseSector
  <2>. QED BY <1>3, <2>1, <2>2, Rests DEF EraseSector
<1>. QED BY <1>1, <1>2, <1>3 DEF EraseSector, Noticed

LEMMA EraseEndKeeps ==
  ASSUME Assumption, TwoSectors, IInv, EraseEnds PROVE IInv'
<1>. TypeOK /\ op.bank \in 0 .. 1 /\ Other \in 0 .. 1 /\ op.at = "erase"
  BY DEF IInv, TypeOK, Other, EraseEnds
<1>1. /\ op' = [op EXCEPT !.at = "program", !.i = 0]
      /\ UNCHANGED <<kind, flash, sig, hwBank, shadow, locked, read, crashes>>
  BY DEF EraseEnds
<1>2. op'.at = "program" /\ op'.bank = op.bank /\ op'.i = 0 /\ Other' = Other
  BY <1>1 DEF TypeOK, Other
<1>3. TypeOK'
  BY <1>1 DEF TypeOK
<1>4. /\ Bank' = Bank /\ Image(Bank)' = Image(Bank) /\ Bank = op.bank
      /\ Overlaid(Image(Bank))' = Overlaid(Image(Bank))
      /\ ABankIsValid' /\ (kind = "eecd" => hwBank' \in Valid')
  BY <1>1, <1>3, BankKept
<1>5. Loaded' /\ Begun' /\ SumFits'
  BY <1>1, <1>2, <1>4 DEF IInv, Loaded, Begun, SumFits
<1>6. Programs'
  <2>1. SUFFICES ASSUME ~ locked
                 PROVE  /\ sig[Other] = "11"
                        /\ \A w \in 0 .. Words - 1 : flash[Start(Other) + w] = Erased
    BY <1>1, <1>2, Constants DEF Programs
  <2>2. op.i = Words \div SectorWords
    BY DEF EraseEnds
  <2>3. (op.i = 1 /\ Words = SectorWords) \/ op.i = 2
    BY <2>2, Sectors DEF TwoSectors
  <2>. QED BY <2>1, <2>3 DEF IInv, Erases
<1>. QED BY <1>2, <1>3, <1>4, <1>5, <1>6 DEF IInv, Erases, Switches

(* Programming an erased word stores it. *)
LEMMA AndErased == ASSUME NEW v \in 0 .. 3 PROVE And(Erased, v) = v
<1>1. v = 0 \/ v = 1 \/ v = 2 \/ v = 3
  OBVIOUS
<1>. QED BY <1>1 DEF And, Erased

LEMMA ProgramKeeps ==
  ASSUME Assumption, IInv, Program PROVE IInv' /\ Image(Bank)' = Image(Bank)
<1> DEFINE new == Start(Other)
           now == op.i .. op.i + Step - 1
<1>. /\ TypeOK /\ op.bank \in 0 .. 1 /\ Other \in 0 .. 1 /\ op.at = "program"
     /\ op.i < Words /\ op.i \in Nat
  BY DEF IInv, TypeOK, Other, Program
<1>1. CASE /\ ~ locked
           /\ flash' = [x \in DOMAIN flash |->
                          IF x - new \in now THEN And(flash[x], Update[x - new]) ELSE flash[x]]
           /\ op' = [op EXCEPT !.i = @ + Step]
  <2>1. /\ Step \in 1 .. 2 /\ op.i + Step <= Words
        /\ (kind = "spt" => (op.i + Step) % 2 = 0)
    <3>1. kind = "spt" => Words % 2 = 0 /\ op.i % 2 = 0
      BY <1>1 DEF IInv, Programs, TypeOK, Assumption
    <3>. QED BY <3>1, Constants DEF Step
  <2>2. /\ sig[Other] = "11"
        /\ \A w \in 0 .. Words - 1 : flash[new + w] = IF w < op.i THEN Update[w] ELSE Erased
    BY <1>1 DEF IInv, Programs
  <2>3. Update \in Cells
    BY ImageIs, OverlaidIs DEF Update
  <2>. new \in Nat /\ Words \in Nat
    BY Constants
  <2>. HIDE DEF new
  <2>4. ASSUME NEW w \in 0 .. Words - 1
        PROVE  /\ new + w \in DOMAIN flash
               /\ flash'[new + w] = IF w < op.i + Step THEN Update[w] ELSE Erased
    <3>1. new + w \in DOMAIN flash /\ (new + w) - new = w
      BY ImageIs, SMTT(30) DEF new, TypeOK
    <3>2. flash'[new + w] = IF w \in now THEN And(flash[new + w], Update[w]) ELSE flash[new + w]
      BY <1>1, <3>1
    <3>3. Update[w] \in 0 .. 3
      BY <2>3 DEF Cells
    <3>6. w \in now <=> op.i <= w /\ w < op.i + Step
      BY <2>1
    <3>7. flash[new + w] = IF w < op.i THEN Update[w] ELSE Erased
      BY <2>2
    <3>. HIDE DEF now
    <3>4. CASE w \in now
      <4>1. flash[new + w] = Erased /\ w < op.i + Step
        BY <2>1, <3>4, <3>6, <3>7
      <4>. QED BY <3>1, <3>2, <3>3, <3>4, <4>1, AndErased
    <3>5. CASE w \notin now
      BY <2>1, <3>1, <3>2, <3>5, <3>6, <3>7
    <3>. QED BY <3>1, <3>4, <3>5
  <2>5. \A w \in 0 .. Words - 1 : flash'[Start(op.bank) + w] = flash[Start(op.bank) + w]
    <3>1. SUFFICES ASSUME NEW w \in 0 .. Words - 1
                   PROVE  flash'[Start(op.bank) + w] = flash[Start(op.bank) + w]
      OBVIOUS
    <3>2. Start(op.bank) + w \in DOMAIN flash
      BY ImageIs DEF TypeOK
    <3>3. (Start(op.bank) + w) - new \notin now
      BY <2>1, Constants DEF new, Other
    <3>. QED BY <1>1, <3>2, <3>3
  <2>6. TypeOK'
    <3>1. flash' \in [0 .. 2 * Words - 1 -> 0 .. 3]
      <4>1. ASSUME NEW x \in 0 .. 2 * Words - 1 PROVE flash'[x] \in 0 .. 3
        <5>1. flash'[x] = IF x - new \in now THEN And(flash[x], Update[x - new]) ELSE flash[x]
          BY <1>1 DEF TypeOK
        <5>2. And(flash[x], Update[x - new]) \in 0 .. 3
          BY DEF And
        <5>. QED BY <5>1, <5>2 DEF TypeOK
      <4>. QED BY <1>1, <4>1 DEF TypeOK
    <3>2. op' \in [at : {"idle", "sum", "detect", "erase", "program", "void", "clear"},
                   bank : 0 .. 1, i : Nat, address : Nat, tries : Nat]
      <4>1. op.i + Step \in Nat
        BY <2>1
      <4>. QED BY <1>1, <4>1 DEF TypeOK
    <3>. QED BY <3>1, <3>2 DEF TypeOK, Program
  <2>7. /\ Bank' = Bank /\ Image(Bank)' = Image(Bank) /\ Bank = op.bank
        /\ Overlaid(Image(Bank))' = Overlaid(Image(Bank))
        /\ ABankIsValid' /\ (kind = "eecd" => hwBank' \in Valid')
    BY <2>2, <2>5, <2>6, BankKept DEF Program
  <2>8. op'.at = "program" /\ op'.bank = op.bank /\ Other' = Other /\ op'.i = op.i + Step
    BY <1>1 DEF TypeOK, Other
  <2>9. Loaded' /\ Begun' /\ SumFits'
    BY <2>7, <2>8 DEF IInv, Loaded, Begun, SumFits, Program
  <2>10. Update' = Update
    BY <2>7, <2>8 DEF Update
  <2>11. Programs'
    BY <1>1, <2>1, <2>2, <2>4, <2>8, <2>10 DEF Programs, Program, new
  <2>. QED BY <2>6, <2>7, <2>8, <2>9, <2>11 DEF IInv, Erases, Switches
<1>2. CASE Go("idle") /\ UNCHANGED flash
  <2>1. op'.at = "idle" /\ TypeOK'
    BY <1>2 DEF Go, Program, TypeOK
  <2>2. Image(Bank)' = Image(Bank)
    BY <1>2, SameWords DEF Program
  <2>. QED BY <1>2, <2>1, <2>2, Rests DEF Program
<1>. QED BY <1>1, <1>2 DEF Program, Other, Update

LEMMA Complete ==
  ASSUME Assumption, IInv, op.at = "program", op.i = Words
  PROVE  /\ sig[Other] = "11" /\ Image(Other) = Update /\ op.bank = Bank
         /\ Total(Update) = Sum /\ sig[op.bank] = "10"
         /\ kind = "eecd" => hwBank = op.bank
<1>. TypeOK /\ op.bank \in 0 .. 1 /\ Other \in 0 .. 1
  BY DEF IInv, TypeOK, Other
<1>1. ~ locked
  BY Constants DEF IInv, Programs
<1>2. /\ sig[Other] = "11"
      /\ \A w \in 0 .. Words - 1 : flash[Start(Other) + w] = Update[w]
  BY <1>1, Constants DEF IInv, Programs
<1>3. Update \in Cells
  BY ImageIs, OverlaidIs DEF Update
<1>4. Image(Other) = Update
  <2>1. Image(Other) \in Cells
    BY ImageIs
  <2>2. \A w \in 0 .. Words - 1 : Image(Other)[w] = flash[Start(Other) + w]
    BY ImageIs
  <2>3. \A w \in 0 .. Words - 1 : Image(Other)[w] = Update[w]
    BY <1>2, <2>2
  <2>4. Image(Other) = [w \in 0 .. Words - 1 |-> Image(Other)[w]]
    BY <2>1 DEF Cells
  <2>5. Update = [w \in 0 .. Words - 1 |-> Update[w]]
    BY <1>3 DEF Cells
  <2>. QED BY <2>3, <2>4, <2>5, Zenon
<1>5. op.bank = Bank /\ Total(Update) = Sum
  BY DEF IInv, Begun, SumFits, Update
<1>6. op.bank \in Valid
  BY <1>5, BankIs DEF IInv
<1>7. kind = "eecd" => hwBank = op.bank
  BY <1>5, BankIs DEF IInv, Loaded, Bank, Detected
<1>. QED BY <1>2, <1>4, <1>5, <1>6, <1>7 DEF Valid

LEMMA MarkKeeps == ASSUME Assumption, IInv, MarkNew PROVE IInv'
<1>. /\ TypeOK /\ op.bank \in 0 .. 1 /\ Other \in 0 .. 1 /\ Other # op.bank
     /\ op.at = "program" /\ op.i = Words
  BY DEF IInv, TypeOK, Other, MarkNew
<1>1. CASE /\ sig' = [sig EXCEPT ![Other] = IF @ = "11" THEN "10" ELSE @]
           /\ Go("void")
  <2>1. op'.at = "void" /\ op'.bank = op.bank /\ Other' = Other
    BY <1>1 DEF Go, TypeOK, Other
  <2>2. TypeOK'
    <3>1. sig' \in [0 .. 1 -> {"11", "10", "00"}]
      BY <1>1 DEF TypeOK
    <3>. QED BY <1>1, <3>1 DEF Go, TypeOK, MarkNew
  <2>3. sig'[Other] = "10" /\ sig'[op.bank] = "10"
    BY <1>1, Complete DEF TypeOK
  <2>4. \A b \in 0 .. 1 : Image(b)' = Image(b)
    BY DEF Image, MarkNew
  <2>5. Update' = Update
    BY <2>1, <2>4 DEF Update, Overlaid, MarkNew, Image
  <2>6. Image(Other)' = Update
    BY <2>1, <2>4, Complete DEF Image
  <2>7. Valid' = {op.bank, Other}
    BY <2>3 DEF Valid, Other
  <2>8. ABankIsValid'
    <3>1. op.bank \in Valid
      BY Complete DEF Valid
    <3>2. Total(Image(op.bank)) = Sum /\ Total(Image(Other)) = Sum
      BY <3>1, Complete DEF IInv, ABankIsValid
    <3>. QED BY <2>4, <2>7, <3>2 DEF ABankIsValid
  <2>9. Loaded'
    BY <2>7, Complete DEF Loaded, MarkNew
  <2>10. Switches'
    BY <2>1, <2>3, <2>5, <2>6, Complete DEF Switches, MarkNew
  <2>. QED BY <2>1, <2>2, <2>8, <2>9, <2>10 DEF IInv, Begun, SumFits, Erases, Programs
<1>2. CASE Fails("mark") /\ UNCHANGED sig
  <2>1. op'.at = "idle" /\ TypeOK'
    BY <1>2 DEF Fails, Go, MarkNew, TypeOK
  <2>. QED BY <1>2, <2>1, Rests DEF MarkNew
<1>. QED BY <1>1, <1>2 DEF MarkNew, Other

LEMMA VoidKeeps == ASSUME Assumption, IInv, VoidOld PROVE IInv'
<1>. /\ TypeOK /\ op.bank \in 0 .. 1 /\ Other \in 0 .. 1 /\ Other # op.bank /\ op.at = "void"
  BY DEF IInv, TypeOK, Other, VoidOld
<1>1. CASE sig' = [sig EXCEPT ![op.bank] = "00"] /\ Go("clear")
  <2>1. op'.at = "clear" /\ op'.bank = op.bank /\ Other' = Other
    BY <1>1 DEF Go, TypeOK, Other
  <2>2. TypeOK'
    <3>1. sig' \in [0 .. 1 -> {"11", "10", "00"}]
      BY <1>1 DEF TypeOK
    <3>. QED BY <1>1, <3>1 DEF Go, TypeOK, VoidOld
  <2>3. sig'[Other] = "10" /\ sig'[op.bank] = "00" /\ sig[Other] = "10"
    BY <1>1 DEF TypeOK, IInv, Switches
  <2>4. \A b \in 0 .. 1 : Image(b)' = Image(b)
    BY DEF Image, VoidOld
  <2>5. Update' = Update
    BY <2>1, <2>4 DEF Update, Overlaid, VoidOld, Image
  <2>6. Image(Other)' = Image(Other)
    BY <2>1, <2>4 DEF Image
  <2>7. Valid' = {Other} /\ Other \in Valid
    BY <2>3 DEF Valid, Other
  <2>8. ABankIsValid'
    BY <2>4, <2>7 DEF ABankIsValid, IInv
  <2>9. Switches'
    BY <2>1, <2>3, <2>5, <2>6 DEF Switches, VoidOld, IInv
  <2>. QED BY <2>1, <2>2, <2>8, <2>9 DEF IInv, Loaded, Begun, SumFits, Erases, Programs
<1>2. CASE Fails("void") /\ UNCHANGED sig
  <2>1. op'.at = "idle" /\ TypeOK'
    BY <1>2 DEF Fails, Go, VoidOld, TypeOK
  <2>. QED BY <1>2, <2>1, Rests DEF VoidOld
<1>. QED BY <1>1, <1>2 DEF VoidOld

LEMMA CleanIs == Clean \in [0 .. Words - 1 -> [modified : BOOLEAN, value : 0 .. 3]]
BY DEF Clean, NotModified, Erased

LEMMA ClearKeeps == ASSUME Assumption, IInv, ClearAndReload PROVE IInv'
<1>1. hwBank' \in Valid /\ Valid' = Valid
  BY LoadsValid DEF IInv, ClearAndReload, Valid
<1>2. TypeOK' /\ op'.at = "idle"
  BY <1>1, CleanIs DEF IInv, TypeOK, ClearAndReload, Idle, Valid
<1>. QED BY <1>1, <1>2, Rests DEF ClearAndReload

LEMMA CrashKeeps == ASSUME Assumption, IInv, Crash PROVE IInv'
<1>1. hwBank' \in Valid /\ Valid' = Valid
  BY LoadsValid DEF IInv, Crash, Valid
<1>2. crashes' \in 0 .. Crashes
  BY DEF IInv, TypeOK, Crash, Assumption
<1>3. TypeOK' /\ op'.at = "idle"
  BY <1>1, <1>2, CleanIs DEF IInv, TypeOK, Crash, Idle, Valid
<1>. QED BY <1>1, <1>3, Rests DEF Crash

LEMMA Begins == ASSUME Assumption, Init PROVE IInv
<1>1. PICK bank \in 0 .. 1, image \in Images, other \in {"00", "11"} :
        /\ flash = [a \in 0 .. 2 * Words - 1 |->
                      IF a \div Words = bank THEN image[a % Words]
                      ELSE IF other = "11" THEN Erased ELSE 0]
        /\ sig = [b \in 0 .. 1 |-> IF b = bank THEN "10" ELSE other]
        /\ hwBank = bank
  BY DEF Init
<1>2. image \in Cells /\ Total(image) = Sum
  BY DEF Assumption, Cells
<1>3. flash \in [0 .. 2 * Words - 1 -> 0 .. 3]
  <2>1. ASSUME NEW a \in 0 .. 2 * Words - 1 PROVE a % Words \in 0 .. Words - 1
    BY Constants
  <2>2. ASSUME NEW a \in 0 .. 2 * Words - 1 PROVE image[a % Words] \in 0 .. 3
    BY <1>2, <2>1 DEF Cells
  <2>. QED BY <1>1, <2>2 DEF Erased
<1>4. TypeOK /\ op.at = "idle"
  <2>1. sig \in [0 .. 1 -> {"11", "10", "00"}] /\ hwBank \in 0 .. 2
    BY <1>1
  <2>2. shadow \in [0 .. Words - 1 -> [modified : BOOLEAN, value : 0 .. 3]]
    BY CleanIs DEF Init
  <2>3. kind \in Kinds /\ locked \in BOOLEAN /\ op = Idle /\ crashes = 0
    BY DEF Init
  <2>4. op \in [at : {"idle", "sum", "detect", "erase", "program", "void", "clear"},
                bank : 0 .. 1, i : Nat, address : Nat, tries : Nat]
    BY <2>3 DEF Idle
  <2>. QED BY <1>3, <2>1, <2>2, <2>3, <2>4 DEF TypeOK, Idle, Assumption
<1>5. Valid = {bank}
  BY <1>1 DEF Valid
<1>6. Image(bank) = image
  <2>1. ASSUME NEW w \in 0 .. Words - 1 PROVE flash[Start(bank) + w] = image[w]
    <3>1. (Start(bank) + w) \div Words = bank /\ (Start(bank) + w) % Words = w
      <4>1. CASE bank = 0
        <5>1. w \div Words = 0 /\ w % Words = w
          BY Constants
        <5>. QED BY <4>1, <5>1, Constants
      <4>2. CASE bank = 1
        <5>1. (Words + w) \div Words = 1 /\ (Words + w) % Words = w
          BY Constants
        <5>. QED BY <4>2, <5>1, Constants
      <4>. QED BY <4>1, <4>2
    <3>2. Start(bank) + w \in 0 .. 2 * Words - 1
      BY <1>4, ImageIs
    <3>. QED BY <1>1, <3>1, <3>2
  <2>2. Image(bank) = [w \in 0 .. Words - 1 |-> image[w]]
    BY <2>1 DEF Image
  <2>. QED BY <1>2, <2>2 DEF Cells
<1>7. ABankIsValid /\ Loaded
  BY <1>1, <1>2, <1>5, <1>6 DEF ABankIsValid, Loaded
<1>. QED BY <1>4, <1>7 DEF IInv, Begun, SumFits, Erases, Programs, Switches

LEMMA Steps ==
  ASSUME Assumption, TwoSectors, Noticed, IInv, [Next]_vars PROVE IInv'
<1>1. CASE UNCHANGED vars
  <2>1. /\ Valid' = Valid /\ Bank' = Bank /\ Other' = Other /\ Update' = Update
        /\ Overlaid(Image(Bank))' = Overlaid(Image(Bank))
        /\ \A b \in 0 .. 1 : Image(b)' = Image(b)
    BY <1>1 DEF vars, Valid, Image, Bank, Detected, SigRead, Overlaid, Update, Other
  <2>2. TypeOK' /\ Loaded' /\ Begun'
    BY <1>1, <2>1 DEF vars, IInv, TypeOK, Loaded, Begun
  <2>3. ABankIsValid'
    BY <2>1, BankIs DEF IInv, ABankIsValid
  <2>4. SumFits'
    BY <1>1, <2>1 DEF vars, IInv, SumFits
  <2>5. Erases' /\ Programs'
    BY <1>1, <2>1 DEF vars, IInv, Erases, Programs
  <2>6. Image(Other)' = Image(Other)
    BY <1>1 DEF vars, Image, Other
  <2>7. Switches'
    BY <1>1, <2>1, <2>6 DEF vars, IInv, Switches
  <2>. QED BY <2>2, <2>3, <2>4, <2>5, <2>7 DEF IInv
<1>. QED BY <1>1, ReadKeeps, WriteKeeps, SumKeeps, DetectKeeps, EraseKeeps, EraseEndKeeps,
            ProgramKeeps, MarkKeeps, VoidKeeps, ClearKeeps, CrashKeeps DEF Next

(* What the driver takes for the contents changes only with a commit. *)
LEMMA Commits ==
  ASSUME Assumption, TwoSectors, Noticed, IInv, [Next]_vars PROVE CommitStep
<1>. TypeOK /\ Bank \in 0 .. 1 /\ Other \in 0 .. 1 /\ op.bank \in 0 .. 1
  BY BankIs DEF IInv, TypeOK, Other
<1>1. CASE UNCHANGED <<kind, flash, sig, hwBank>>
  BY <1>1, SameWords DEF CommitStep
<1>2. CASE EraseSector
  BY <1>2, EraseKeeps DEF CommitStep
<1>3. CASE Program
  BY <1>3, ProgramKeeps DEF CommitStep
<1>4. CASE MarkNew
  <2>1. /\ sig[Other] = "11" /\ Image(Other) = Update /\ op.bank = Bank
        /\ (kind = "eecd" => hwBank = op.bank)
    BY <1>4, Complete DEF MarkNew
  <2>2. Bank' = Bank \/ Bank' = Other
    BY <1>4, <2>1 DEF Bank, Detected, SigRead, Valid, Other, TypeOK, MarkNew
  <2>3. \A b \in 0 .. 1 : Image(b)' = Image(b)
    BY <1>4 DEF Image, MarkNew
  <2>4. Image(Bank)' = Image(Bank) \/ Image(Bank)' = Image(Other)
    BY <2>2, <2>3 DEF Image
  <2>. QED BY <2>1, <2>4 DEF CommitStep, Update
<1>5. CASE VoidOld
  <2>1. /\ Image(Other) = Update /\ sig[Other] = "10" /\ sig[op.bank] = "10"
        /\ kind = "eecd" => hwBank = op.bank
    BY <1>5 DEF VoidOld, IInv, Switches
  <2>2. CASE UNCHANGED sig
    BY <1>5, <2>2, SameWords DEF CommitStep, VoidOld
  <2>3. CASE sig' = [sig EXCEPT ![op.bank] = "00"]
    <3>1. Bank = op.bank \/ Bank = Other
      BY DEF Other
    <3>2. Bank' = Bank \/ Bank' = Other
      BY <1>5, <2>1, <2>3 DEF Bank, Detected, SigRead, Valid, Other, TypeOK, VoidOld
    <3>3. \A b \in 0 .. 1 : Image(b)' = Image(b)
      BY <1>5 DEF Image, VoidOld
    <3>4. Image(Bank)' = Image(Bank) \/ Image(Bank)' = Image(Other)
      BY <3>2, <3>3 DEF Image
    <3>. QED BY <2>1, <3>1, <3>4 DEF CommitStep, Update
  <2>. QED BY <1>5, <2>2, <2>3 DEF VoidOld
<1>6. CASE ClearAndReload
  <2>1. /\ Image(Other) = Update /\ sig[Other] = "10" /\ sig[op.bank] # "10"
        /\ kind = "eecd" => hwBank = op.bank
    BY <1>6 DEF ClearAndReload, IInv, Switches
  <2>2. hwBank' = Other
    BY <1>6, <2>1, LoadsValid DEF IInv, ClearAndReload, Valid, Other
  <2>3. \A b \in 0 .. 1 : Image(b)' = Image(b)
    BY <1>6 DEF Image, ClearAndReload
  <2>4. Bank' = Bank \/ (Bank = op.bank /\ Bank' = Other)
    BY <1>6, <2>1, <2>2 DEF Bank, Detected, SigRead, Valid, Other, TypeOK, ClearAndReload
  <2>5. Image(Bank)' = Image(Bank) \/ (Bank = op.bank /\ Image(Bank)' = Image(Other))
    BY <2>3, <2>4 DEF Image
  <2>. QED BY <2>1, <2>5 DEF CommitStep, Update
<1>7. CASE Crash
  BY <1>7 DEF CommitStep, Crash, IInv, TypeOK
<1>. QED BY <1>1, <1>2, <1>3, <1>4, <1>5, <1>6, <1>7
         DEF Next, vars, Read, Write, UpdateSum, Detect, EraseEnds

(* What has been read is not looked at again once a word is written. *)
Reading == NothingRead /\ ReadsSeeWrites

LEMMA ReadingKeeps ==
  ASSUME Assumption, OneByOne, IInv, Reading, [Next]_vars PROVE Reading'
<1>1. CASE read'.data = <<>>
  BY <1>1 DEF Reading, NothingRead, ReadsSeeWrites
<1>2. CASE op.at # "idle" /\ UNCHANGED read
  BY <1>1, <1>2 DEF Reading, NothingRead
<1>3. ASSUME NEW r \in Reads, Read(r) PROVE Reading'
  <2>1. r[2] \in Nat /\ (kind = "spt" => r[2] <= 1)
    BY DEF Assumption, OneByOne, IInv, TypeOK
  <2>2. UNCHANGED <<kind, flash, sig, hwBank, shadow>> /\ op'.at = "idle"
    BY <1>3 DEF Read
  <2>4. read' = [from |-> r[1], data |-> ReadNvm(r[1], r[2])]
    BY <1>3 DEF Read
  <2>5. ASSUME NEW i \in DOMAIN read'.data PROVE read'.data[i] = ReadWord(r[1] + i)
    <3>1. i \in 0 .. r[2] - 1
      BY <2>4, <2>5 DEF ReadNvm
    <3>2. CASE kind = "spt"
      <4>1. i = 0
        BY <2>1, <3>1, <3>2
      <4>. QED BY <2>4, <3>1, <3>2, <4>1 DEF ReadNvm, ReadSpt
    <3>3. CASE kind # "spt"
      BY <2>4, <3>1, <3>3 DEF ReadNvm
    <3>. QED BY <3>2, <3>3
  <2>6. ReadsSeeWrites'
    <3>1. read'.from = r[1]
      BY <2>4
    <3>2. Bank' = Bank
      BY <2>2 DEF Bank, Detected, SigRead, Valid
    <3>. QED BY <2>2, <2>5, <3>1, <3>2 DEF ReadsSeeWrites, ReadWord
  <2>. QED BY <2>2, <2>6 DEF Reading, NothingRead
<1>4. CASE UNCHANGED vars
  BY <1>4
   DEF vars, Reading, NothingRead, ReadsSeeWrites, ReadWord, Bank, Detected, SigRead,
              Valid
<1>. QED BY <1>1, <1>2, <1>3, <1>4
         DEF Next, Write, UpdateSum, Detect, EraseSector, EraseEnds, Program, MarkNew,
             VoidOld, ClearAndReload, Crash, Reading, NothingRead

LEMMA Invariance == ASSUME Assumption, TwoSectors, Noticed PROVE Spec => []IInv
<1>1. Init => IInv
  BY Begins
<1>2. IInv /\ [Next]_vars => IInv'
  BY Steps
<1>. QED BY <1>1, <1>2, PTL DEF Spec

LEMMA ReadingBegins == ASSUME Init PROVE Reading
BY DEF Init, Idle, Reading, NothingRead, ReadsSeeWrites
-----------------------------------------------------------------------------
(***************************************************************************)
(* Wherever the power is lost while e1000_update_nvm_checksum_* erases,    *)
(* programs and marks the other bank, some bank is valid, and the words of *)
(* each that is add up.                                                    *)
(***************************************************************************)
THEOREM FlashSurvives ==
  ASSUME Assumption, TwoSectors, Noticed PROVE Spec => [](TypeOK /\ ABankIsValid)
<1>1. IInv => TypeOK /\ ABankIsValid
  BY DEF IInv
<1>. QED BY <1>1, Invariance, PTL

(***************************************************************************)
(* What the driver takes for the contents changes in one step, from the    *)
(* words before to the words with all that was written since, whichever    *)
(* step of the update fails or the power is lost at.                       *)
(***************************************************************************)
THEOREM FlashCommits ==
  ASSUME Assumption, TwoSectors, Noticed PROVE Spec => CommitIsAtomic
<1>1. IInv /\ [Next]_vars => CommitStep
  BY Commits
<1>. QED BY <1>1, Invariance, PTL DEF Spec, CommitIsAtomic

(***************************************************************************)
(* A read finds each word as it was last written, in the flash or still in *)
(* the shadow RAM, if those of e1000_read_nvm_spt are of one word.         *)
(***************************************************************************)
THEOREM FlashReads ==
  ASSUME Assumption, TwoSectors, Noticed, OneByOne PROVE Spec => []ReadsSeeWrites
<1>1. Init => Reading
  BY ReadingBegins
<1>2. IInv /\ Reading /\ [Next]_vars => Reading'
  BY ReadingKeeps
<1>3. Reading => ReadsSeeWrites
  BY DEF Reading
<1>. QED BY <1>1, <1>2, <1>3, Invariance, PTL DEF Spec

-----------------------------------------------------------------------------
(* The words of an EEPROM and of ethtool's calls. *)
CONSTANTS EepromKinds, Size, PageSize, Half, Checksum, Ranges, Calls, EepromMayFail
VARIABLES eepromKind, word, kept, before, call, calls

E == INSTANCE NvmWords WITH
    Kinds <- EepromKinds, MayFail <- EepromMayFail, kind <- eepromKind

(* No call runs over the words that eight address bits reach: the bit of the *)
(* opcode that stands for the ninth is set once for all pages.               *)
OneHalf ==
  "spi8" \in EepromKinds =>
    \A r \in Ranges : E!FirstWord(r) < Half => E!LastWord(r) < Half

(* What word w is to hold when the bytes of range r have been given. *)
Given(w, r) ==
  [i \in 1 .. 2 |-> IF E!InRange(2 * w + i - 1, r) THEN E!Byte(2 * w + i - 1, "new")
                    ELSE before[w][i]]

(* The words that range r touches, and a range whose words are all stored. *)
Touched(r) == E!LastWord(r) - E!FirstWord(r) + 1
AllGiven == \A w \in 0 .. Size - 1 : w # Checksum => word[w] = Given(w, call.range)

AskedRange == call.at # "idle" => call.range \in Ranges /\ ~ call.ok

(* The words of the range are written, then the checksum in a second pass. *)
FirstPass == call.at \in {"write", "sum"} /\ ~ call.sum =>
  /\ call.first = E!FirstWord(call.range) /\ call.done <= Touched(call.range)
  /\ call.buff = [i \in 1 .. Touched(call.range) |-> Given(call.first + i - 1, call.range)]
  /\ call.at = "sum" => call.done = Touched(call.range)
  /\ \A w \in 0 .. Size - 1 :
       word[w] = IF call.first <= w /\ w < call.first + call.done THEN Given(w, call.range)
                 ELSE before[w]

SecondPass == call.sum =>
  /\ call.at # "sum"
  /\ call.at = "write" => /\ call.first = Checksum /\ call.done <= 1
                          /\ call.buff = <<E!Covered(word)>> /\ AllGiven
                          /\ call.done = 1 => word[Checksum] = E!Covered(word)

(* In flash both wait for the commit. *)
Committing == call.at \in {"pending", "commit"} =>
  eepromKind = "flash" /\ AllGiven /\ word[Checksum] = E!Covered(word)

(* The inductive invariant. *)
EepromInv ==
  E!TypeOK /\ AskedRange /\ FirstPass /\ SecondPass /\ Committing /\ E!SetIsExact
-----------------------------------------------------------------------------
(* Within a page addresses do not wrap. *)
LEMMA Remainder ==
  ASSUME NEW q \in Int, NEW p \in Nat \ {0}, NEW m \in 0 .. p - 1 PROVE (p * q + m) % p = m
OBVIOUS

LEMMA InOnePage ==
  ASSUME NEW a \in Nat, NEW p \in Nat \ {0}, NEW k \in Nat, k < p - (a % p)
  PROVE  (a - (a % p)) + ((a + k) % p) = a + k
<1> DEFINE q == a \div p
           m == (a % p) + k
<1>1. a % p \in 0 .. p - 1 /\ q \in Int
  OBVIOUS
<1>2. a - (a % p) = p * q
  OBVIOUS
<1>3. m \in 0 .. p - 1 /\ a + k = p * q + m
  BY <1>1, <1>2
<1>4. (p * q + m) % p = m
  <2>. HIDE DEF q, m
  <2>. QED BY <1>1, <1>3, Remainder
<1>. QED BY <1>1, <1>3, <1>4

LEMMA WordBounds ==
  ASSUME E!Assumption, NEW r \in Ranges
  PROVE  /\ E!FirstWord(r) \in Nat /\ E!LastWord(r) \in Nat /\ E!FirstWord(r) <= E!LastWord(r)
         /\ E!LastWord(r) < Size /\ Touched(r) \in Nat /\ Touched(r) > 0
         /\ \A b \in Nat : E!InRange(b, r) => E!FirstWord(r) <= b \div 2 /\ b \div 2 <= E!LastWord(r)
<1>1. r[1] \in Nat /\ r[2] \in Nat /\ r[2] > 0 /\ r[1] + r[2] <= 2 * Size /\ Size \in Nat
  BY DEF E!Assumption
<1>. QED BY <1>1 DEF E!FirstWord, E!LastWord, Touched, E!InRange

(* A word none of whose bytes is given stays as it was. *)
LEMMA NotGiven ==
  ASSUME E!Assumption, E!TypeOK, NEW r \in Ranges, NEW w \in 0 .. Size - 1, w # Checksum,
         w < E!FirstWord(r) \/ w > E!LastWord(r)
  PROVE  Given(w, r) = before[w]
<1>1. before[w] \in [1 .. 2 -> {"old", "new"} \X Nat]
  BY DEF E!TypeOK
<1>2. ASSUME NEW i \in 1 .. 2 PROVE ~ E!InRange(2 * w + i - 1, r)
  <2>1. 2 * w + i - 1 \in Nat /\ (2 * w + i - 1) \div 2 = w
    BY DEF E!Assumption
  <2>. QED BY <2>1, WordBounds DEF E!Assumption
<1>3. Given(w, r) = [i \in 1 .. 2 |-> before[w][i]]
  BY <1>2 DEF Given
<1>. QED BY <1>1, <1>3

LEMMA GivenIs ==
  ASSUME E!Assumption, E!TypeOK, NEW r, NEW w \in 0 .. Size - 1, w # Checksum
  PROVE  Given(w, r) \in [1 .. 2 -> {"old", "new"} \X Nat]
<1>1. before[w] \in [1 .. 2 -> {"old", "new"} \X Nat]
  BY DEF E!TypeOK
<1>2. ASSUME NEW i \in 1 .. 2 PROVE E!Byte(2 * w + i - 1, "new") \in {"old", "new"} \X Nat
  BY DEF E!Assumption, E!Byte
<1>. QED BY <1>1, <1>2 DEF Given

LEMMA EepromBegins == ASSUME E!Assumption, E!Init PROVE EepromInv
<1> DEFINE data == [w \in 0 .. Size - 1 |-> E!Word(w, "old")]
<1>1. word = [data EXCEPT ![Checksum] = E!Covered(data)] /\ kept = word /\ before = word
  BY DEF E!Init
<1>2. ASSUME NEW w \in 0 .. Size - 1
      PROVE  E!Word(w, "old") \in [1 .. 2 -> {"old", "new"} \X Nat]
  BY DEF E!Word, E!Byte, E!Assumption
<1>3. /\ DOMAIN word = 0 .. Size - 1
      /\ \A w \in 0 .. Size - 1 : w # Checksum => word[w] = E!Word(w, "old")
  BY <1>1 DEF E!Assumption
<1>4. E!TypeOK
  BY <1>1, <1>2, <1>3 DEF E!TypeOK, E!Init, E!Idle, E!Assumption
<1>. QED BY <1>4
      DEF EepromInv, E!Init, E!Idle, AskedRange, FirstPass, SecondPass, Committing,
          E!SetIsExact

LEMMA SetKeeps ==
  ASSUME E!Assumption, EepromInv, NEW r \in Ranges, E!SetEeprom(r) PROVE EepromInv'
<1>. E!TypeOK /\ call.at = "idle"
  BY DEF EepromInv, E!SetEeprom
<1>1. /\ call' = [E!Idle EXCEPT !.at = "write", !.range = r, !.buff = E!Merged(r),
                              !.first = E!FirstWord(r)]
      /\ before' = word /\ UNCHANGED <<eepromKind, word, kept>>
  BY DEF E!SetEeprom
<1>2. /\ call'.at = "write" /\ call'.range = r /\ call'.buff = E!Merged(r)
      /\ call'.first = E!FirstWord(r) /\ call'.done = 0 /\ call'.sum = FALSE /\ call'.ok = FALSE
  BY <1>1 DEF E!Idle
<1>3. E!TypeOK'
  <2>1. calls' \in 0 .. Calls
    BY SMTT(30) DEF E!SetEeprom, E!TypeOK, E!Assumption
  <2>2. call'.first \in 0 .. Size - 1 /\ call'.done \in 0 .. Size
    BY <1>2, WordBounds, SMTT(30) DEF E!Assumption
  <2>. QED BY <1>1, <1>2, <2>1, <2>2 DEF E!TypeOK
<1>4. E!Merged(r) = [i \in 1 .. Touched(r) |-> Given(E!FirstWord(r) + i - 1, r)']
  <2>1. ASSUME NEW i \in 1 .. Touched(r), NEW w, w = E!FirstWord(r) + i - 1
        PROVE  <<IF E!InRange(2 * w, r) THEN E!Byte(2 * w, "new") ELSE word[w][1],
                 IF E!InRange(2 * w + 1, r) THEN E!Byte(2 * w + 1, "new") ELSE word[w][2]>>
               = Given(w, r)'
    <3>1. w \in Nat /\ 2 * w + 1 - 1 = 2 * w /\ 2 * w + 2 - 1 = 2 * w + 1
      BY <2>1, WordBounds
    <3>. QED BY <1>1, <3>1 DEF Given
  <2>. QED BY <2>1 DEF E!Merged, Touched
<1>5. FirstPass'
  <2>1. \A w \in 0 .. Size - 1 : ~ (E!FirstWord(r) <= w /\ w < E!FirstWord(r) + 0)
    BY WordBounds DEF E!Assumption
  <2>. QED BY <1>1, <1>2, <1>4, <2>1, WordBounds DEF FirstPass, Given
<1>. QED BY <1>2, <1>3, <1>5
      DEF EepromInv, AskedRange, SecondPass, Committing, E!SetIsExact

LEMMA OneSum ==
  ASSUME EepromInv, call.at = "write", call.sum
  PROVE  E!Count = 1 /\ call.first = Checksum /\ call.buff[1] = E!Covered(word) /\ AllGiven
BY DEF EepromInv, SecondPass, E!Count

(* Where the words of a page are stored. *)
LEMMA StoredIs ==
  ASSUME E!Assumption, OneHalf, EepromInv, call.at = "write", eepromKind \in {"spi8", "spi16"},
         call.done < E!Count, NEW k \in 0 .. E!InPage - 1
  PROVE  E!Stored(k) = E!Address + k
<1>. E!TypeOK /\ call.range \in Ranges
  BY DEF EepromInv, AskedRange
<1>1. E!Address \in Nat /\ E!Address < Size /\ call.first \in Nat /\ call.first <= E!Address
  <2>1. CASE call.sum
    <3>1. call.first = Checksum /\ call.done = 0
      BY <2>1, OneSum DEF E!TypeOK, E!Assumption
    <3>. QED BY <3>1 DEF E!Address, E!Assumption
  <2>2. CASE ~ call.sum
    <3>1. E!Count = Touched(call.range) /\ call.first = E!FirstWord(call.range)
      BY <2>2, WordBounds DEF EepromInv, FirstPass, E!Count
    <3>2. call.done \in Nat
      BY DEF E!TypeOK
    <3>. QED BY <3>1, <3>2, WordBounds DEF E!Address, Touched, E!Assumption
  <2>. QED BY <2>1, <2>2 DEF E!TypeOK
<1>2. eepromKind = "spi8" /\ call.first < Half => E!Address < Half
  <2>1. SUFFICES ASSUME eepromKind = "spi8", call.first < Half PROVE E!Address < Half
    OBVIOUS
  <2>2. CASE call.sum
    <3>1. call.first = Checksum /\ call.done = 0
      BY <2>2, OneSum DEF E!TypeOK, E!Assumption
    <3>. QED BY <2>1, <3>1 DEF E!Address, E!Assumption
  <2>3. CASE ~ call.sum
    <3>1. E!Count = Touched(call.range) /\ call.first = E!FirstWord(call.range)
      BY <2>3, WordBounds DEF EepromInv, FirstPass, E!Count
    <3>2. call.done \in Nat
      BY DEF E!TypeOK
    <3>3. E!LastWord(call.range) < Half
      BY <2>1, <3>1 DEF OneHalf, E!TypeOK
    <3>4. E!FirstWord(call.range) \in Nat /\ E!LastWord(call.range) \in Nat /\ Half \in Nat
      BY WordBounds DEF E!Assumption
    <3>. QED BY <3>1, <3>2, <3>3, <3>4 DEF E!Address, Touched
  <2>. QED BY <2>2, <2>3 DEF E!TypeOK
<1>3. Half \in Nat \ {0} /\ Size <= 2 * Half /\ Size \in Nat
  BY DEF E!Assumption
<1>4. E!DeviceWord(E!Address) = E!Address
  <2>1. CASE eepromKind # "spi8"
    BY <2>1 DEF E!DeviceWord
  <2>2. CASE eepromKind = "spi8" /\ call.first < Half
    <3>1. E!Address % Half = E!Address
      BY <1>1, <1>2, <1>3, <2>2
    <3>. QED BY <1>1, <1>3, <2>2, <3>1 DEF E!DeviceWord
  <2>3. CASE eepromKind = "spi8" /\ call.first >= Half
    <3>1. E!Address % Half = E!Address - Half
      BY <1>1, <1>3, <2>3
    <3>. QED BY <1>1, <1>3, <2>3, <3>1 DEF E!DeviceWord
  <2>. QED BY <1>1, <1>3, <2>1, <2>2, <2>3
<1>5. PageSize \in Nat \ {0} /\ E!Address % PageSize \in 0 .. PageSize - 1
  BY <1>1 DEF E!Assumption
<1>6. k \in Nat /\ k < PageSize - (E!Address % PageSize)
  <2>1. E!Count - call.done \in Int
    <3>1. CASE call.sum
      BY <3>1 DEF EepromInv, SecondPass, E!Count, E!TypeOK
    <3>2. CASE ~ call.sum
      BY <3>2, WordBounds DEF EepromInv, FirstPass, E!Count, E!TypeOK
    <3>. QED BY <3>1, <3>2 DEF E!TypeOK
  <2>. QED BY <1>5, <2>1 DEF E!InPage, E!ToPageEnd
<1>7. (E!Address - (E!Address % PageSize)) + ((E!Address + k) % PageSize) = E!Address + k
  BY <1>1, <1>5, <1>6, InOnePage
<1>. QED BY <1>4, <1>7 DEF E!Stored

(***************************************************************************)
(* Words that are stored at their places: both passes go on.               *)
(***************************************************************************)
LEMMA StoresKeep ==
  ASSUME E!Assumption, EepromInv, call.at = "write", call.done < E!Count,
         NEW n \in Nat, call.done + n <= E!Count,
         call' = [call EXCEPT !.done = @ + n], UNCHANGED <<eepromKind, kept, before, calls>>,
         DOMAIN word' = DOMAIN word,
         \A w \in DOMAIN word : word'[w] = IF E!Address <= w /\ w < E!Address + n
                                           THEN call.buff[w - call.first + 1] ELSE word[w]
  PROVE  EepromInv'
<1>. E!TypeOK /\ call.range \in Ranges /\ ~ call.ok
  BY DEF EepromInv, AskedRange
<1>0. /\ DOMAIN word = 0 .. Size - 1 /\ Checksum \in 0 .. Size - 1 /\ Size \in Nat
      /\ call.done \in Nat /\ call.first \in 0 .. Size - 1
  BY DEF E!TypeOK, E!Assumption
<1>1. /\ call'.at = "write" /\ call'.range = call.range /\ call'.buff = call.buff
      /\ call'.first = call.first /\ call'.sum = call.sum /\ call'.ok = FALSE
      /\ call'.done = call.done + n
  BY DEF EepromInv, FirstPass, SecondPass, E!TypeOK
<1>2. \A w \in 0 .. Size - 1 : Given(w, call.range)' = Given(w, call.range)
  BY <1>1 DEF Given
<1>3. CASE ~ call.sum
  <2>1. /\ call.first = E!FirstWord(call.range) /\ E!Count = Touched(call.range)
        /\ call.buff = [i \in 1 .. Touched(call.range) |-> Given(call.first + i - 1, call.range)]
        /\ \A w \in 0 .. Size - 1 :
             word[w] = IF call.first <= w /\ w < call.first + call.done
                       THEN Given(w, call.range) ELSE before[w]
    BY <1>3, WordBounds DEF EepromInv, FirstPass, E!Count
  <2>2. ASSUME NEW w \in 0 .. Size - 1, E!Address <= w, w < E!Address + n
        PROVE  call.buff[w - call.first + 1] = Given(w, call.range)
    <3>1. w - call.first + 1 \in 1 .. Touched(call.range)
      BY <1>0, <2>1, <2>2, WordBounds, SMTT(30) DEF E!Address
    <3>2. call.first + (w - call.first + 1) - 1 = w
      BY <1>0
    <3>. QED BY <2>1, <3>1, <3>2
  <2>3. ASSUME NEW w \in 0 .. Size - 1
        PROVE  word'[w] = IF call.first <= w /\ w < call.first + call.done + n
                          THEN Given(w, call.range) ELSE before[w]
    <3>1. CASE E!Address <= w /\ w < E!Address + n
      <4>1. word'[w] = Given(w, call.range)
        BY <1>0, <2>2, <3>1
      <4>. QED BY <1>0, <3>1, <4>1 DEF E!Address
    <3>2. CASE ~ (E!Address <= w /\ w < E!Address + n)
      <4>1. word'[w] = word[w]
        BY <1>0, <3>2
      <4>. QED BY <1>0, <2>1, <3>2, <4>1 DEF E!Address
    <3>. QED BY <3>1, <3>2
  <2>4. FirstPass'
    <3>1. call'.done <= Touched(call.range)
      BY <1>1, <2>1
    <3>2. \A w \in 0 .. Size - 1 :
            word'[w] = IF call'.first <= w /\ w < call'.first + call'.done
                       THEN Given(w, call.range) ELSE before'[w]
      BY <1>0, <1>1, <2>3
    <3>. QED BY <1>1, <2>1, <3>1, <3>2, ZenonT(30) DEF FirstPass, Given
  <2>5. E!TypeOK'
    <3>1. \A w \in DOMAIN word \ {Checksum} : word'[w] \in [1 .. 2 -> {"old", "new"} \X Nat]
      <4>1. \A w \in 0 .. Size - 1 : w # Checksum => before[w] \in [1 .. 2 -> {"old", "new"} \X Nat]
        BY DEF E!TypeOK
      <4>. QED BY <1>0, <2>3, <4>1, GivenIs, SMTT(30)
    <3>2. call'.done \in 0 .. Size
      BY <1>0, <1>1, <2>1, WordBounds, SMTT(30) DEF Touched
    <3>. QED BY <1>0, <1>1, <3>1, <3>2 DEF E!TypeOK
  <2>. QED BY <1>1, <1>3, <2>4, <2>5
        DEF EepromInv, AskedRange, SecondPass, Committing, E!SetIsExact
<1>4. CASE call.sum
  <2>1. /\ call.first = Checksum /\ call.done = 0 /\ n <= 1
        /\ call.buff[1] = E!Covered(word) /\ call.buff = <<E!Covered(word)>> /\ AllGiven
    BY <1>0, <1>4, OneSum DEF EepromInv, SecondPass
  <2>2. \A w \in DOMAIN word : w # Checksum => word'[w] = word[w]
    BY <1>0, <2>1 DEF E!Address
  <2>3. E!Covered(word)' = E!Covered(word)
    BY <1>0, <2>2 DEF E!Covered
  <2>4. n = 1 => word'[Checksum] = E!Covered(word)
    BY <1>0, <2>1 DEF E!Address
  <2>5. AllGiven'
    BY <1>0, <1>1, <1>2, <2>1, <2>2 DEF AllGiven
  <2>6. E!TypeOK'
    <3>1. call'.done \in 0 .. Size
      BY <1>0, <1>1, <2>1
    <3>. QED BY <1>0, <1>1, <2>2, <3>1 DEF E!TypeOK
  <2>7. SecondPass'
    BY <1>0, <1>1, <2>1, <2>3, <2>4, <2>5 DEF SecondPass
  <2>. QED BY <1>1, <1>4, <2>6, <2>7
        DEF EepromInv, AskedRange, FirstPass, Committing, E!SetIsExact
<1>. QED BY <1>3, <1>4 DEF E!TypeOK

LEMMA PageKeeps == ASSUME E!Assumption, OneHalf, EepromInv, E!WritePage PROVE EepromInv'
<1>. /\ E!TypeOK /\ call.at = "write" /\ call.range \in Ranges /\ eepromKind \in {"spi8", "spi16"}
     /\ call.done < E!Count
  BY DEF EepromInv, AskedRange, E!WritePage
<1>1. E!Count \in Nat /\ call.done \in Nat /\ call.first \in Nat /\ PageSize \in Nat /\ PageSize > 0
  <2>1. CASE call.sum
    BY <2>1 DEF EepromInv, SecondPass, E!Count, E!TypeOK, E!Assumption
  <2>2. CASE ~ call.sum
    BY <2>2, WordBounds DEF EepromInv, FirstPass, E!Count, E!TypeOK, E!Assumption
  <2>. QED BY <2>1, <2>2 DEF E!TypeOK
<1>2. E!InPage \in Nat /\ call.done + E!InPage <= E!Count
  <2>1. E!Address \in Nat
    BY <1>1 DEF E!Address
  <2>2. E!Address % PageSize \in 0 .. PageSize - 1
    BY <1>1, <2>1
  <2>. QED BY <1>1, <2>2 DEF E!InPage, E!ToPageEnd
<1>3. ASSUME NEW w \in DOMAIN word
      PROVE  word'[w] = IF E!Address <= w /\ w < E!Address + E!InPage
                        THEN call.buff[w - call.first + 1] ELSE word[w]
  <2>0. w \in Nat /\ E!Address \in Nat
    BY <1>1 DEF E!TypeOK, E!Assumption, E!Address
  <2>1. word'[w] = IF \E k \in 0 .. E!InPage - 1 : E!Stored(k) = w
                   THEN call.buff[call.done + 1 + (CHOOSE k \in 0 .. E!InPage - 1 : E!Stored(k) = w)]
                   ELSE word[w]
    BY DEF E!WritePage
  <2>2. \A k \in 0 .. E!InPage - 1 : E!Stored(k) = E!Address + k
    BY StoredIs
  <2>3. CASE E!Address <= w /\ w < E!Address + E!InPage
    <3>1. w - E!Address \in 0 .. E!InPage - 1 /\ E!Stored(w - E!Address) = w
      BY <1>2, <2>0, <2>2, <2>3
    <3>2. (CHOOSE k \in 0 .. E!InPage - 1 : E!Stored(k) = w) = w - E!Address
      BY <1>2, <2>0, <2>2, <3>1
    <3>3. call.done + 1 + (w - E!Address) = w - call.first + 1
      BY <1>1, <2>0 DEF E!Address
    <3>. QED BY <2>1, <2>3, <3>1, <3>2, <3>3
  <2>4. CASE ~ (E!Address <= w /\ w < E!Address + E!InPage)
    <3>1. ~ \E k \in 0 .. E!InPage - 1 : E!Stored(k) = w
      BY <1>2, <2>0, <2>2, <2>4
    <3>. QED BY <2>1, <2>4, <3>1
  <2>. QED BY <2>3, <2>4
<1>. QED BY <1>2, <1>3, StoresKeep DEF E!WritePage

LEMMA WordKeeps == ASSUME E!Assumption, EepromInv, E!WriteWord PROVE EepromInv'
<1>. E!TypeOK /\ call.at = "write" /\ call.range \in Ranges /\ call.done < E!Count
  BY DEF EepromInv, AskedRange, E!WriteWord
<1>1. E!Count \in Nat /\ call.done \in Nat /\ call.first \in Nat
  <2>1. CASE call.sum
    BY <2>1 DEF EepromInv, SecondPass, E!Count, E!TypeOK, E!Assumption
  <2>2. CASE ~ call.sum
    BY <2>2, WordBounds DEF EepromInv, FirstPass, E!Count, E!TypeOK, E!Assumption
  <2>. QED BY <2>1, <2>2 DEF E!TypeOK
<1>2. ASSUME NEW w \in DOMAIN word
      PROVE  word'[w] = IF E!Address <= w /\ w < E!Address + 1
                        THEN call.buff[w - call.first + 1] ELSE word[w]
  <2>0. w \in Nat /\ E!Address \in Nat
    BY <1>1 DEF E!TypeOK, E!Assumption, E!Address
  <2>1. word' = [word EXCEPT ![E!Address] = call.buff[call.done + 1]]
    BY DEF E!WriteWord
  <2>2. CASE w = E!Address
    <3>1. w - call.first + 1 = call.done + 1
      BY <1>1, <2>0, <2>2 DEF E!Address
    <3>. QED BY <2>0, <2>1, <2>2, <3>1
  <2>3. CASE w # E!Address
    BY <2>0, <2>1, <2>3
  <2>. QED BY <2>2, <2>3
<1>. QED BY <1>1, <1>2, StoresKeep DEF E!WriteWord

LEMMA WriteEndKeeps == ASSUME E!Assumption, EepromInv, E!WriteEnds PROVE EepromInv'
<1>. /\ E!TypeOK /\ call.at = "write" /\ call.range \in Ranges /\ call.done = E!Count
     /\ UNCHANGED <<eepromKind, word, kept, before, calls>>
  BY DEF EepromInv, AskedRange, E!WriteEnds
<1>0. \A w \in 0 .. Size - 1 : word'[w] = word[w] /\ before'[w] = before[w]
  OBVIOUS
<1>1. call.done \in Nat /\ Checksum \in 0 .. Size - 1 /\ Size \in Nat /\ DOMAIN word = 0 .. Size - 1
  BY DEF E!TypeOK, E!Assumption
<1>2. CASE ~ call.sum
  <2>1. /\ call.first = E!FirstWord(call.range) /\ call.done = Touched(call.range)
        /\ call.buff = [i \in 1 .. Touched(call.range) |-> Given(call.first + i - 1, call.range)]
        /\ \A w \in 0 .. Size - 1 :
             word[w] = IF call.first <= w /\ w < call.first + call.done
                       THEN Given(w, call.range) ELSE before[w]
    BY <1>2, WordBounds DEF EepromInv, FirstPass, E!Count
  <2>2. CASE E!NeedsSum
    <3>1. call' = [call EXCEPT !.at = "sum"]
      BY <2>2 DEF E!WriteEnds
    <3>2. /\ call'.at = "sum" /\ call'.range = call.range /\ call'.buff = call.buff
          /\ call'.first = call.first /\ call'.sum = FALSE /\ call'.ok = call.ok
          /\ call'.done = call.done
      BY <1>2, <3>1 DEF EepromInv, FirstPass, E!TypeOK
    <3>3. E!TypeOK'
      BY <1>2, <3>2 DEF E!TypeOK
    <3>4. FirstPass'
      BY <2>1, <3>2, WordBounds DEF FirstPass, Given
    <3>. QED BY <3>2, <3>3, <3>4
          DEF EepromInv, AskedRange, SecondPass, Committing, E!SetIsExact
  <2>3. CASE ~ E!NeedsSum
    <3>1. call.first > Checksum /\ eepromKind # "flash"
      BY <1>1, <1>2, <2>1, <2>3, WordBounds DEF E!NeedsSum
    <3>2. call' = [E!Idle EXCEPT !.range = call.range, !.ok = TRUE]
      BY <2>3, <3>1 DEF E!WriteEnds
    <3>3. call'.at = "idle" /\ call'.range = call.range /\ call'.ok = TRUE /\ call'.sum = FALSE
          /\ call'.first = 0 /\ call'.done = 0
      BY <3>2 DEF E!Idle
    <3>4. E!TypeOK'
      <4>1. call'.first \in 0 .. Size - 1 /\ call'.done \in 0 .. Size
        BY <1>1, <3>3
      <4>. QED BY <3>3, <4>1 DEF E!TypeOK
    <3>5. AllGiven
      <4>1. SUFFICES ASSUME NEW w \in 0 .. Size - 1, w # Checksum
                     PROVE  word[w] = Given(w, call.range)
        BY DEF AllGiven
      <4>2. CASE call.first <= w /\ w < call.first + call.done
        BY <2>1, <4>2
      <4>3. CASE ~ (call.first <= w /\ w < call.first + call.done)
        <5>1. w < E!FirstWord(call.range) \/ w > E!LastWord(call.range)
          BY <2>1, <4>3, WordBounds DEF Touched
        <5>. QED BY <2>1, <4>1, <4>3, <5>1, NotGiven
      <4>. QED BY <4>2, <4>3
    <3>6. E!SetIsExact'
      BY <1>1, <2>1, <3>1, <3>3, <3>5, WordBounds DEF E!SetIsExact, AllGiven, Given
    <3>. QED BY <3>3, <3>4, <3>6
          DEF EepromInv, AskedRange, FirstPass, SecondPass, Committing
  <2>. QED BY <2>2, <2>3
<1>3. CASE call.sum
  <2>1. AllGiven /\ word[Checksum] = E!Covered(word) /\ call.done = 1
    BY <1>3 DEF EepromInv, SecondPass, E!Count
  <2>2. CASE eepromKind = "flash"
    <3>1. call' = [call EXCEPT !.at = "pending"]
      BY <1>3, <2>2 DEF E!WriteEnds, E!NeedsSum
    <3>2. /\ call'.at = "pending" /\ call'.range = call.range /\ call'.ok = call.ok
          /\ call'.sum = TRUE /\ call'.first = call.first /\ call'.done = call.done
      BY <1>3, <3>1 DEF EepromInv, SecondPass, E!TypeOK
    <3>3. E!TypeOK'
      BY <1>3, <3>2 DEF E!TypeOK
    <3>4. AllGiven' /\ E!Covered(word)' = E!Covered(word)
      BY <2>1, <3>2 DEF AllGiven, Given, E!Covered
    <3>. QED BY <2>1, <2>2, <3>2, <3>3, <3>4
             DEF EepromInv, AskedRange, FirstPass, SecondPass, Committing, E!SetIsExact
  <2>3. CASE eepromKind # "flash"
    <3>2. call' = [E!Idle EXCEPT !.range = call.range, !.ok = TRUE]
      BY <1>3, <2>3 DEF E!WriteEnds, E!NeedsSum
    <3>3. call'.at = "idle" /\ call'.range = call.range /\ call'.ok = TRUE /\ call'.sum = FALSE
          /\ call'.first = 0 /\ call'.done = 0
      BY <3>2 DEF E!Idle
    <3>4. E!TypeOK'
      <4>1. call'.first \in 0 .. Size - 1 /\ call'.done \in 0 .. Size
        BY <1>1, <3>3
      <4>. QED BY <3>3, <4>1 DEF E!TypeOK
    <3>5. E!SetIsExact'
      BY <1>1, <2>1, <2>3, <3>3 DEF E!SetIsExact, AllGiven, Given, E!Covered
    <3>. QED BY <3>3, <3>4, <3>5
          DEF EepromInv, AskedRange, FirstPass, SecondPass, Committing
  <2>. QED BY <2>2, <2>3
<1>. QED BY <1>2, <1>3 DEF E!TypeOK

LEMMA WriteFailKeeps == ASSUME E!Assumption, EepromInv, E!WriteFails PROVE EepromInv'
<1>1. call' = [E!Idle EXCEPT !.range = call.range] /\ UNCHANGED <<eepromKind, word, kept, before, calls>>
  BY DEF E!WriteFails
<1>2. call'.at = "idle" /\ call'.ok = FALSE /\ call'.sum = FALSE /\ call'.first = 0 /\ call'.done = 0
  BY <1>1 DEF E!Idle
<1>3. E!TypeOK'
  <2>1. call'.first \in 0 .. Size - 1 /\ call'.done \in 0 .. Size
    BY <1>2 DEF E!Assumption
  <2>. QED BY <1>1, <1>2, <2>1 DEF EepromInv, E!TypeOK
<1>. QED BY <1>2, <1>3
      DEF EepromInv, AskedRange, FirstPass, SecondPass, Committing, E!SetIsExact

LEMMA EepromSumKeeps == ASSUME E!Assumption, EepromInv, E!UpdateSum PROVE EepromInv'
<1>. /\ E!TypeOK /\ call.at = "sum" /\ call.range \in Ranges
     /\ UNCHANGED <<eepromKind, word, kept, before, calls>>
  BY DEF EepromInv, AskedRange, E!UpdateSum
<1>1. call' = [call EXCEPT !.at = "write", !.buff = <<E!Covered(word)>>, !.first = Checksum,
                           !.done = 0, !.sum = TRUE]
  BY DEF E!UpdateSum
<1>2. /\ ~ call.sum /\ call.first = E!FirstWord(call.range) /\ call.done = Touched(call.range)
      /\ \A w \in 0 .. Size - 1 :
           word[w] = IF call.first <= w /\ w < call.first + call.done
                     THEN Given(w, call.range) ELSE before[w]
  BY DEF EepromInv, FirstPass, SecondPass
<1>3. /\ call'.at = "write" /\ call'.range = call.range /\ call'.buff = <<E!Covered(word)>>
      /\ call'.first = Checksum /\ call'.sum = TRUE /\ call'.ok = call.ok /\ call'.done = 0
  BY <1>1, <1>2 DEF EepromInv, FirstPass, E!TypeOK
<1>4. E!TypeOK'
  <2>1. call'.first \in 0 .. Size - 1 /\ call'.done \in 0 .. Size
    BY <1>3 DEF E!Assumption
  <2>. QED BY <1>3, <2>1 DEF E!TypeOK
<1>5. AllGiven
  <2>1. SUFFICES ASSUME NEW w \in 0 .. Size - 1, w # Checksum
                 PROVE  word[w] = Given(w, call.range)
    BY DEF AllGiven
  <2>2. CASE call.first <= w /\ w < call.first + call.done
    BY <1>2, <2>2
  <2>3. CASE ~ (call.first <= w /\ w < call.first + call.done)
    <3>1. w < E!FirstWord(call.range) \/ w > E!LastWord(call.range)
      BY <1>2, <2>3, WordBounds DEF Touched, E!Assumption
    <3>. QED BY <1>2, <2>1, <2>3, <3>1, NotGiven
  <2>. QED BY <2>2, <2>3
<1>6. AllGiven' /\ E!Covered(word)' = E!Covered(word)
  BY <1>3, <1>5 DEF AllGiven, Given, E!Covered
<1>. QED BY <1>3, <1>4, <1>6
      DEF EepromInv, AskedRange, FirstPass, SecondPass, Committing, E!SetIsExact

LEMMA CommittingKeeps ==
  ASSUME E!Assumption, EepromInv, E!AskCommit \/ E!Committed
  PROVE  EepromInv'
<1>. /\ E!TypeOK /\ call.at \in {"pending", "commit"} /\ call.range \in Ranges
     /\ UNCHANGED <<eepromKind, word, before, calls>>
  BY DEF EepromInv, AskedRange, E!AskCommit, E!Committed
<1>1. eepromKind = "flash" /\ AllGiven /\ word[Checksum] = E!Covered(word)
  BY DEF EepromInv, Committing
<1>2. CASE E!AskCommit
  <2>1. call' = [call EXCEPT !.at = "commit"] /\ UNCHANGED kept
    BY <1>2 DEF E!AskCommit
  <2>2. /\ call'.at = "commit" /\ call'.range = call.range /\ call'.ok = call.ok
        /\ call'.first = call.first /\ call'.done = call.done /\ call'.sum = call.sum
    BY <2>1 DEF EepromInv, E!TypeOK
  <2>3. E!TypeOK'
    BY <2>1, <2>2 DEF E!TypeOK
  <2>4. AllGiven' /\ E!Covered(word)' = E!Covered(word)
    BY <1>1, <2>2 DEF AllGiven, Given, E!Covered
  <2>. QED BY <1>1, <2>2, <2>3, <2>4
           DEF EepromInv, AskedRange, FirstPass, SecondPass, Committing, E!SetIsExact
<1>3. CASE E!Committed
  <2>1. call' = [E!Idle EXCEPT !.range = call.range, !.ok = TRUE] /\ kept' = word
    BY <1>3 DEF E!Committed
  <2>2. call'.at = "idle" /\ call'.range = call.range /\ call'.ok = TRUE /\ call'.sum = FALSE
        /\ call'.first = 0 /\ call'.done = 0
    BY <2>1 DEF E!Idle
  <2>3. E!TypeOK'
    <3>1. call'.first \in 0 .. Size - 1 /\ call'.done \in 0 .. Size
      BY <2>2 DEF E!Assumption
    <3>. QED BY <2>1, <2>2, <3>1 DEF E!TypeOK
  <2>4. E!SetIsExact'
    BY <1>1, <2>1, <2>2 DEF E!SetIsExact, AllGiven, Given, E!Covered, E!TypeOK
  <2>. QED BY <2>2, <2>3, <2>4
        DEF EepromInv, AskedRange, FirstPass, SecondPass, Committing
<1>. QED BY <1>2, <1>3

LEMMA EepromSteps ==
  ASSUME E!Assumption, OneHalf, EepromInv, [E!Next]_(E!vars)
  PROVE  EepromInv'
<1>1. CASE UNCHANGED E!vars
  BY <1>1
   DEF E!vars, EepromInv, E!TypeOK, AskedRange, FirstPass, SecondPass, Committing,
       E!SetIsExact, AllGiven,
              Given, E!Covered
<1>. QED BY <1>1, SetKeeps, PageKeeps, WordKeeps, WriteFailKeeps, WriteEndKeeps,
            EepromSumKeeps, CommittingKeeps
         DEF E!Next

LEMMA EepromInvariance ==
  ASSUME E!Assumption, OneHalf PROVE E!Spec => []EepromInv
<1>1. E!Init => EepromInv
  BY EepromBegins
<1>2. EepromInv /\ [E!Next]_(E!vars) => EepromInv'
  BY EepromSteps
<1>. QED BY <1>1, <1>2, PTL DEF E!Spec

(***************************************************************************)
(* When e1000_set_eeprom has returned success, the bytes it was given, and *)
(* no others, have changed, the checksum covers them, and what is in flash *)
(* has been committed; no call of its writes runs over a page.             *)
(***************************************************************************)
THEOREM EepromIsExact ==
  ASSUME E!Assumption, OneHalf PROVE E!Spec => []E!SetIsExact
<1>1. EepromInv => E!SetIsExact
  BY DEF EepromInv
<1>. QED BY <1>1, EepromInvariance, PTL
=============================================================================
