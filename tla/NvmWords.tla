------------------------------ MODULE NvmWords ------------------------------
(***************************************************************************)
(* The NVM of the other controllers, written word by word by ethtool: an   *)
(* EEPROM behind a serial bus that the driver drives bit by bit (82571,    *)
(* 80003), or words the controller itself writes, to an EEPROM or to a     *)
(* flash (82573, 82574).                                                   *)
(*                                                                         *)
(* e1000_set_eeprom is given bytes, the NVM takes words: the words at both *)
(* ends are read first.  The serial EEPROM takes a page at a time, and its *)
(* address counter wraps within the page; parts with 8 address bits take   *)
(* the ninth in the opcode.  The checksum word covers the words before it, *)
(* and stands here for the words it was computed from.                     *)
(***************************************************************************)
EXTENDS Naturals, Sequences

CONSTANTS Kinds,      \* spi8, spi16: serial EEPROM; eewr, flash: by the controller
          Size,       \* words
          PageSize,   \* words of a page of the serial EEPROM
          Half,       \* words that 8 address bits reach (128)
          Checksum,   \* NVM_CHECKSUM_REG
          Ranges,     \* what ethtool may write: <<first byte, bytes>>
          Calls,      \* calls of e1000_set_eeprom to look at
          MayFail     \* semaphores, the EEPROM and the controller may not answer

VARIABLES kind,
          word,       \* the words, each a pair of bytes, or what a checksum covers
          kept,       \* flash: the words a restart finds
          before,     \* the words when the call began
          call,       \* of e1000_set_eeprom
          calls

vars == <<kind, word, kept, before, call, calls>>

\* Every byte holds "old" and its place, or "new" if it has been written.
Byte(b, what) == <<what, b>>
Word(w, what) == <<Byte(2 * w, what), Byte(2 * w + 1, what)>>
Covered(words) == [w \in 0..(Checksum - 1) |-> words[w]]

Idle == [at |-> "idle", range |-> <<0, 0>>, buff |-> <<>>, first |-> 0, done |-> 0,
         sum |-> FALSE, ok |-> FALSE]

FirstWord(r) == r[1] \div 2
LastWord(r) == (r[1] + r[2] - 1) \div 2
InRange(b, r) == r[1] <= b /\ b < r[1] + r[2]

Assumption ==
    /\ Kinds \subseteq {"spi8", "spi16", "eewr", "flash"}
    /\ Size \in Nat /\ Checksum \in 0..(Size - 1)
    /\ PageSize \in Nat \ {0} /\ Half \in Nat \ {0} /\ Size <= 2 * Half
    /\ Ranges \subseteq Nat \X (Nat \ {0}) /\ \A r \in Ranges : r[1] + r[2] <= 2 * Size
    /\ Calls \in Nat

Init == /\ kind \in Kinds
        /\ LET data == [w \in 0..(Size - 1) |-> Word(w, "old")]
           IN word = [data EXCEPT ![Checksum] = Covered(data)]
        /\ kept = word /\ before = word
        /\ call = Idle
        /\ calls = 0

\* The buffer that is written: the given bytes, and at both ends the bytes that
\* were read.
Merged(r) ==
    [i \in 1..(LastWord(r) - FirstWord(r) + 1) |->
        LET w == FirstWord(r) + i - 1
        IN <<IF InRange(2 * w, r) THEN Byte(2 * w, "new") ELSE word[w][1],
             IF InRange(2 * w + 1, r) THEN Byte(2 * w + 1, "new") ELSE word[w][2]>>]

SetEeprom(r) ==
    /\ call.at = "idle" /\ calls < Calls
    /\ calls' = calls + 1
    /\ call' = [Idle EXCEPT !.at = "write", !.range = r, !.buff = Merged(r),
                            !.first = FirstWord(r)]
    /\ before' = word
    /\ UNCHANGED <<kind, word, kept>>

Count == Len(call.buff)

(* ------------------------------------------------------------------------ *)
(* e1000e_write_nvm_spi: one page at a time, each under the semaphore.       *)

\* The word the EEPROM stores at: the address sent, with the ninth bit taken
\* from the opcode.  The code decides on it by the first word of the write.
Address == call.first + call.done
DeviceWord(w) == IF kind = "spi8" THEN (w % Half) + (IF call.first >= Half THEN Half ELSE 0) ELSE w

\* Words that are sent until the page of the address counter is full.
ToPageEndOfWrite == PageSize
ToPageEnd == PageSize - (Address % PageSize)
InPage == IF Count - call.done < ToPageEnd THEN Count - call.done ELSE ToPageEnd

\* A word beyond the end of the device's page wraps to its start.
Stored(k) ==
    LET a == DeviceWord(Address)
    IN (a - (a % PageSize)) + ((a + k) % PageSize)

WritePage ==
    /\ call.at = "write" /\ kind \in {"spi8", "spi16"} /\ call.done < Count
    /\ word' = [w \in DOMAIN word |->
                  IF \E k \in 0..(InPage - 1) : Stored(k) = w
                  THEN call.buff[call.done + 1 + (CHOOSE k \in 0..(InPage - 1) : Stored(k) = w)]
                  ELSE word[w]]
    /\ call' = [call EXCEPT !.done = @ + InPage]
    /\ UNCHANGED <<kind, kept, before, calls>>

\* e1000_write_nvm_eewr_82571: one word at a time.
WriteWord ==
    /\ call.at = "write" /\ kind \in {"eewr", "flash"} /\ call.done < Count
    /\ word' = [word EXCEPT ![Address] = call.buff[call.done + 1]]
    /\ call' = [call EXCEPT !.done = @ + 1]
    /\ UNCHANGED <<kind, kept, before, calls>>

\* The semaphore is not acquired, the EEPROM stays busy (e1000_ready_nvm_eeprom)
\* or the controller does not finish (e1000e_poll_eerd_eewr_done).
WriteFails ==
    /\ MayFail
    /\ call.at \in {"write", "sum", "pending", "commit"}
    /\ call' = [Idle EXCEPT !.range = call.range]
    /\ UNCHANGED <<kind, word, kept, before, calls>>

\* The words are written.  The checksum is updated when the write began before
\* it, and always by the controllers with a flash.
NeedsSum == ~call.sum /\ (call.first <= Checksum \/ kind \in {"eewr", "flash"})
WriteEnds ==
    /\ call.at = "write" /\ call.done = Count
    /\ call' = CASE NeedsSum -> [call EXCEPT !.at = "sum"]
                 [] ~NeedsSum /\ kind = "flash" -> [call EXCEPT !.at = "pending"]
                 [] OTHER -> [Idle EXCEPT !.range = call.range, !.ok = TRUE]
    /\ UNCHANGED <<kind, word, kept, before, calls>>

\* e1000e_update_nvm_checksum_generic: the words are read and the checksum written.
UpdateSum ==
    /\ call.at = "sum"
    /\ call' = [call EXCEPT !.at = "write", !.buff = <<Covered(word)>>,
                            !.first = Checksum, !.done = 0, !.sum = TRUE]
    /\ UNCHANGED <<kind, word, kept, before, calls>>

\* e1000_update_nvm_checksum_82571: wait for an update that runs, ask for the
\* commit, wait for it.
AskCommit ==
    /\ call.at = "pending"
    /\ call' = [call EXCEPT !.at = "commit"]
    /\ UNCHANGED <<kind, word, kept, before, calls>>

Committed ==
    /\ call.at = "commit"
    /\ kept' = word
    /\ call' = [Idle EXCEPT !.range = call.range, !.ok = TRUE]
    /\ UNCHANGED <<kind, word, before, calls>>

Next == \/ \E r \in Ranges : SetEeprom(r)
        \/ WritePage \/ WriteWord \/ WriteFails \/ WriteEnds \/ UpdateSum
        \/ AskCommit \/ Committed

Spec == Init /\ [][Next]_vars

(* ------------------------------------------------------------------------ *)

\* The words keep their form, the call its range.
TypeOK ==
    /\ kind \in Kinds /\ calls \in 0..Calls
    /\ \A words \in {word, before, kept} :
          /\ DOMAIN words = 0..(Size - 1)
          /\ \A w \in DOMAIN words \ {Checksum} :
                words[w] \in [1..2 -> {"old", "new"} \X Nat]
    /\ call.at \in {"idle", "write", "sum", "pending", "commit"}
    /\ call.sum \in BOOLEAN /\ call.ok \in BOOLEAN
    /\ call.first \in 0..(Size - 1) /\ call.done \in 0..Size

\* When e1000_set_eeprom reports success, the bytes of its range are the given
\* ones, all others are as they were, the checksum covers what is stored, and
\* the flash has it all.
SetIsExact ==
    call.ok =>
       /\ \A w \in DOMAIN word \ {Checksum} :
             word[w] = [i \in 1..2 |->
                          IF InRange(2 * w + i - 1, call.range) THEN Byte(2 * w + i - 1, "new")
                          ELSE before[w][i]]
       /\ FirstWord(call.range) <= Checksum => word[Checksum] = Covered(word)
       /\ kind = "flash" => kept = word
=============================================================================
