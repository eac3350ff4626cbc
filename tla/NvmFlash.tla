------------------------------ MODULE NvmFlash ------------------------------
(***************************************************************************)
(* The NVM of the ICH/PCH controllers: two banks of a flash.  The bank     *)
(* whose signature bits are 10 is valid.  Words that are written wait in   *)
(* the shadow RAM; update_nvm_checksum computes the checksum, erases the   *)
(* other bank, programs it with the old words and the shadow's, and then   *)
(* clears one signature bit to make it valid and voids the old bank, so    *)
(* that a power loss at any place leaves a bank to start from.             *)
(*                                                                         *)
(* Erasing sets every bit of a sector, programming can only clear bits.  A *)
(* word has two bits here, and the signature bits of word SigWord are kept *)
(* apart in "sig".  The kinds differ in how they find the valid bank and   *)
(* in how many words they read and program at a time:                      *)
(*    spt    32 bits at a time (e1000_pch_spt and later)                   *)
(*    bytes  8 bits at a time, the signature is read                       *)
(*    eecd   as bytes, but EECD tells the bank (ich8lan, ich9lan)          *)
(***************************************************************************)
EXTENDS Naturals

CONSTANTS Kinds,
          Words,        \* words of a bank
          ChecksumWord, \* NVM_CHECKSUM_REG: it covers the words before it
          SectorWords,  \* words that are erased at a time
          Images,       \* what the valid bank may hold at first
          Writes,       \* words that may be written: sets of <<word, value>>
          Reads,        \* ranges that may be read: <<first word, count>>
          Sum,          \* NVM_SUM
          EraseTries,   \* ICH_FLASH_CYCLE_REPEAT_COUNT
          MayFail,      \* steps that may fail: sum, detect, erase, persist,
                        \* program, mark, void
          Crashes       \* power losses to look at

VARIABLES kind,
          flash,        \* the words of bank 0, then those of bank 1
          sig,          \* signature bits of each bank
          hwBank,       \* bank the controller has loaded, 2 if none is valid
          shadow,       \* shadow_ram: modified, value
          locked,       \* the write protection of the sector is on
          op,           \* the update that runs
          read,         \* result of the last read
          crashes

vars == <<kind, flash, sig, hwBank, shadow, locked, op, read, crashes>>

Erased == 3
And(a, b) == (IF a % 2 = 1 /\ b % 2 = 1 THEN 1 ELSE 0) + (IF a > 1 /\ b > 1 THEN 2 ELSE 0)
SigWord == 1
NotModified == [modified |-> FALSE, value |-> Erased]
Clean == [w \in 0..(Words - 1) |-> NotModified]
Start(bank) == bank * Words
Image(bank) == [w \in 0..(Words - 1) |-> flash[Start(bank) + w]]

SumTo(image, n) ==
    LET sums[w \in 0..n] == IF w = 0 THEN image[0] ELSE sums[w - 1] + image[w]
    IN sums[n]
Total(image) == SumTo(image, ChecksumWord) % 4

\* A bank is a whole number of sectors, and of pairs of words where those are
\* accessed; the signature lies in its first sector.
Assumption ==
    /\ Kinds \subseteq {"spt", "bytes", "eecd"}
    /\ Words \in Nat /\ ChecksumWord \in 1..(Words - 1)
    /\ SectorWords \in Nat /\ SectorWords > SigWord
    /\ Words % SectorWords = 0 /\ ("spt" \in Kinds => Words % 2 = 0)
    /\ Sum \in 0..3
    /\ Images \subseteq {image \in [0..(Words - 1) -> 0..3] : Total(image) = Sum}
    /\ Writes \subseteq SUBSET ((0..(Words - 1)) \X (0..3))
    /\ Reads \subseteq (Nat \X Nat) /\ \A r \in Reads : r[1] + r[2] <= Words
    /\ EraseTries \in Nat /\ Crashes \in Nat

Valid == {b \in 0..1 : sig[b] = "10"}
SigRead == IF 0 \in Valid THEN 0 ELSE IF 1 \in Valid THEN 1 ELSE 2
Detected == IF kind = "eecd" /\ hwBank # 2 THEN hwBank ELSE SigRead
\* "Could not detect valid bank, assuming bank 0"
Bank == IF Detected = 2 THEN 0 ELSE Detected

Overlaid(image) ==
    [w \in DOMAIN image |-> IF shadow[w].modified THEN shadow[w].value ELSE image[w]]

Idle == [at |-> "idle", bank |-> 0, i |-> 0, address |-> 0, tries |-> 0]

\* The controller loads a valid bank when it is reset.
Loads(s) == LET valid == {b \in 0..1 : s[b] = "10"} IN IF valid = {} THEN {2} ELSE valid

Init == /\ kind \in Kinds
        /\ \E bank \in 0..1, image \in Images, other \in {"00", "11"} :
              /\ flash = [a \in 0..(2 * Words - 1) |->
                            IF a \div Words = bank THEN image[a % Words]
                            ELSE IF other = "11" THEN Erased ELSE 0]
              /\ sig = [b \in 0..1 |-> IF b = bank THEN "10" ELSE other]
              /\ hwBank = bank
        /\ shadow = Clean
        /\ locked \in BOOLEAN
        /\ op = Idle
        /\ read = [from |-> 0, data |-> <<>>]
        /\ crashes = 0

Go(at) == op' = [op EXCEPT !.at = at]

(* ------------------------------------------------------------------------ *)
(* Reading and writing words.                                                *)

\* The word the read routines return: the shadow's if it is modified.
ReadWord(w) == IF shadow[w].modified THEN shadow[w].value ELSE flash[Start(Bank) + w]

\* e1000_read_nvm_spt reads words in pairs, and looks at the flag of the first
\* word of a pair for the second one, too.
ReadSpt(from, count, i) ==
    IF i % 2 = 0 \/ from + i - 1 \notin DOMAIN shadow THEN ReadWord(from + i)
    ELSE IF shadow[from + i - 1].modified THEN shadow[from + i].value
    ELSE flash[Start(Bank) + from + i]

ReadNvmNoShadow(from, count) == [i \in 0..(count - 1) |-> flash[Start(Bank) + from + i]]
ReadNvm(from, count) ==
    [i \in 0..(count - 1) |->
        IF kind = "spt" THEN ReadSpt(from, count, i) ELSE ReadWord(from + i)]

Read(r) ==
    /\ op.at = "idle"
    /\ read' = [from |-> r[1], data |-> ReadNvm(r[1], r[2])]
    /\ UNCHANGED <<kind, flash, sig, hwBank, shadow, locked, op, crashes>>

\* e1000_set_eeprom writes words and updates the checksum, unless all of them
\* lie behind it.
Write(words) ==
    /\ op.at = "idle"
    /\ shadow' = [w \in DOMAIN shadow |->
                    IF \E x \in words : x[1] = w
                    THEN [modified |-> TRUE, value |-> (CHOOSE x \in words : x[1] = w)[2]]
                    ELSE shadow[w]]
    /\ op' = IF \E x \in words : x[1] <= ChecksumWord THEN [op EXCEPT !.at = "sum"] ELSE op
    /\ read' = [from |-> 0, data |-> <<>>]
    /\ UNCHANGED <<kind, flash, sig, hwBank, locked, crashes>>

(* ------------------------------------------------------------------------ *)
(* The update, a step for each access to the flash.                          *)

Fails(step) == step \in MayFail /\ Go("idle")

\* The checksum of the words as they are read one by one is written.
UpdateSum ==
    /\ op.at = "sum"
    /\ \/ /\ LET total == SumTo(Overlaid(Image(Bank)), ChecksumWord - 1)
             IN shadow' = [shadow EXCEPT ![ChecksumWord] =
                             [modified |-> TRUE, value |-> (Sum + 4 * Words - total) % 4]]
          /\ Go("detect")
       \/ Fails("sum") /\ UNCHANGED shadow
    /\ UNCHANGED <<kind, flash, sig, hwBank, locked, read, crashes>>

\* When the signature cannot be read, bank 0 is taken to be the valid one.
Detect ==
    /\ op.at = "detect"
    /\ \E bank \in {Bank} \cup (IF "detect" \in MayFail /\ kind # "eecd" THEN {0} ELSE {}) :
          op' = [at |-> "erase", bank |-> bank, i |-> 0, address |-> Start(1 - bank), tries |-> 0]
    /\ UNCHANGED <<kind, flash, sig, hwBank, shadow, locked, read, crashes>>

\* One sector is erased.  The code adds j * sector_size to the address of the
\* sector before, at each try.
EraseSector ==
    /\ op.at = "erase" /\ op.i < Words \div SectorWords
    /\ LET a == op.address + op.i * SectorWords
           sector == a..(a + SectorWords - 1)
           done == [op EXCEPT !.i = @ + 1, !.address = a]
       IN \/ /\ ~locked
             /\ flash' = [x \in DOMAIN flash |-> IF x \in sector THEN Erased ELSE flash[x]]
             /\ sig' = [b \in 0..1 |-> IF Start(b) + SigWord \in sector THEN "11" ELSE sig[b]]
             /\ op' = done
          \/ /\ locked \/ "persist" \in MayFail
             /\ op' = IF op.tries + 1 < EraseTries
                      THEN [op EXCEPT !.tries = @ + 1, !.address = a] ELSE [done EXCEPT !.tries = @ + 1]
             /\ UNCHANGED <<flash, sig>>
          \/ Fails("erase") /\ UNCHANGED <<flash, sig>>
    /\ UNCHANGED <<kind, hwBank, shadow, locked, read, crashes>>

EraseEnds ==
    /\ op.at = "erase" /\ op.i = Words \div SectorWords
    /\ op' = [op EXCEPT !.at = "program", !.i = 0]
    /\ UNCHANGED <<kind, flash, sig, hwBank, shadow, locked, read, crashes>>

\* One word, or two, are programmed; the signature bits stay 11.
Step == IF kind = "spt" THEN 2 ELSE 1
Program ==
    /\ op.at = "program" /\ op.i < Words
    /\ LET new == Start(1 - op.bank)
           now == op.i..(op.i + Step - 1)
       IN \/ /\ ~locked
             /\ flash' = [x \in DOMAIN flash |->
                            IF x - new \in now THEN And(flash[x], Overlaid(Image(op.bank))[x - new])
                            ELSE flash[x]]
             /\ op' = [op EXCEPT !.i = @ + Step]
          \/ (locked \/ "program" \in MayFail) /\ Go("idle") /\ UNCHANGED flash
    /\ UNCHANGED <<kind, sig, hwBank, shadow, locked, read, crashes>>

\* Bit 14 of the new bank's signature word is cleared: 11 becomes 10.
MarkNewEarly ==
    /\ op.at = "program" /\ op.i = Words - Step
    /\ sig' = [sig EXCEPT ![1 - op.bank] = IF @ = "11" THEN "10" ELSE @]
    /\ op' = [op EXCEPT !.at = "void"]
    /\ UNCHANGED <<kind, flash, hwBank, shadow, locked, read, crashes>>
MarkNew ==
    /\ op.at = "program" /\ op.i = Words
    /\ \/ /\ sig' = [sig EXCEPT ![1 - op.bank] = IF @ = "11" THEN "10" ELSE @]
          /\ Go("void")
       \/ Fails("mark") /\ UNCHANGED sig
    /\ UNCHANGED <<kind, flash, hwBank, shadow, locked, read, crashes>>

VoidOld ==
    /\ op.at = "void"
    /\ \/ /\ sig' = [sig EXCEPT ![op.bank] = "00"]
          /\ Go("clear")
       \/ Fails("void") /\ UNCHANGED sig
    /\ UNCHANGED <<kind, flash, hwBank, shadow, locked, read, crashes>>

\* The cached words are dropped and the controller reloads the NVM.
ClearAndReload ==
    /\ op.at = "clear"
    /\ shadow' = Clean
    /\ hwBank' \in Loads(sig)
    /\ op' = Idle
    /\ UNCHANGED <<kind, flash, sig, locked, read, crashes>>

\* The power is lost; the next probe may protect the sector (WriteProtectNVM).
Crash ==
    /\ crashes < Crashes
    /\ crashes' = crashes + 1
    /\ hwBank' \in Loads(sig)
    /\ shadow' = Clean /\ op' = Idle /\ read' = [from |-> 0, data |-> <<>>]
    /\ locked' \in BOOLEAN
    /\ UNCHANGED <<kind, flash, sig>>

Next == \/ \E r \in Reads : Read(r)
        \/ \E w \in Writes : Write(w)
        \/ UpdateSum \/ Detect \/ EraseSector \/ EraseEnds \/ Program
        \/ MarkNew \/ VoidOld \/ ClearAndReload \/ Crash

Spec == Init /\ [][Next]_vars

(* ------------------------------------------------------------------------ *)

\* The states the flash and the update can be in.
TypeOK ==
    /\ kind \in Kinds
    /\ flash \in [0..(2 * Words - 1) -> 0..3]
    /\ sig \in [0..1 -> {"11", "10", "00"}]
    /\ hwBank \in 0..2 /\ locked \in BOOLEAN
    /\ shadow \in [0..(Words - 1) -> [modified : BOOLEAN, value : 0..3]]
    /\ op \in [at : {"idle", "sum", "detect", "erase", "program", "void", "clear"},
               bank : 0..1, i : Nat, address : Nat, tries : Nat]
    /\ crashes \in 0..Crashes

\* At every moment, a power loss included, some bank is valid, and every valid
\* bank holds a whole image, whose words add up to NVM_SUM.
ABankIsValid == Valid # {} /\ \A b \in Valid : Total(Image(b)) = Sum

\* What the driver takes for the NVM's contents changes in one step: to the
\* contents before with every word written since.
CommitStep ==
    LET before == Image(Bank) IN
    crashes' = crashes => Image(Bank)' \in {before, Overlaid(before)}
CommitIsAtomic == [][CommitStep]_vars

\* A read returns each word as it was last written.
ReadsSeeWrites ==
    \A i \in DOMAIN read.data :
       op.at = "idle" => read.data[i] = ReadWord(read.from + i)
=============================================================================
