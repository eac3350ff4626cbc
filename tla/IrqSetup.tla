------------------------------ MODULE IrqSetup ------------------------------
(***************************************************************************)
(* How the e1000e driver gets its interrupts (netdev.c): MSI-X if it can,  *)
(* else MSI, else the shared legacy line, at every step falling back when  *)
(* the kernel refuses one.  An operation maps the record of what the       *)
(* adapter has to the one it leaves; "fail" is the set of requests the     *)
(* kernel refuses while it runs.                                           *)
(***************************************************************************)
EXTENDS Integers, FiniteSets

(* A handler is where it is registered and what it is: the three MSI-X     *)
(* vectors, or the device's own line.                                      *)
MsixLines == {"rx", "tx", "other"}
OneLine == {"msi", "intx", "test"}
Line == MsixLines \cup OneLine

NoIrq(mode) ==
  [mode |-> mode,          \* adapter->int_mode
   entries |-> FALSE,      \* adapter->msix_entries # NULL
   msi |-> FALSE,          \* FLAG_MSI_ENABLED
   lines |-> {},           \* the handlers registered with the kernel
   untested |-> FALSE,     \* FLAG_MSI_TEST_FAILED
   err |-> FALSE]

(* e1000e_reset_interrupt_capability *)
ResetCapability(q) ==
  IF q.entries THEN [q EXCEPT !.entries = FALSE] ELSE [q EXCEPT !.msi = FALSE]

(* e1000e_set_interrupt_capability *)
SetCapability(q, fail) ==
  IF q.mode = "msix" /\ "msix" \notin fail THEN [q EXCEPT !.entries = TRUE]
  ELSE IF q.mode # "legacy" /\ "msi" \notin fail
  THEN [ResetCapability(q) EXCEPT !.mode = "msi", !.msi = TRUE]
  ELSE [q EXCEPT !.mode = "legacy"]

(* e1000_request_msix: the vectors one after the other, up to the first    *)
(* the kernel refuses; those before it stay requested.                     *)
MsixBefore(l) == CASE l = "rx" -> {} [] l = "tx" -> {"rx"} [] OTHER -> {"rx", "tx"}
RequestMsix(q, fail) ==
  LET refused == fail \cap MsixLines
      first == CHOOSE l \in refused : \A k \in refused : k \notin MsixBefore(l)
  IN IF refused = {} THEN [q EXCEPT !.lines = @ \cup MsixLines, !.err = FALSE]
     ELSE [q EXCEPT !.lines = @ \cup MsixBefore(first), !.err = TRUE]

RequestOne(q, l, fail) ==
  IF "one" \in fail THEN [q EXCEPT !.err = TRUE]
  ELSE [q EXCEPT !.lines = @ \cup {l}, !.err = FALSE]

(* e1000_request_irq *)
RequestLegacy(q, fail) ==
  RequestOne([ResetCapability(q) EXCEPT !.mode = "legacy"], "intx", fail)
RequestMsi(q, fail) ==
  LET one == RequestOne(q, "msi", fail)
  IN IF ~q.msi THEN RequestOne(q, "intx", fail)
     ELSE IF one.err THEN RequestLegacy(q, fail) ELSE one
RequestIrq(q, fail) ==
  LET x == RequestMsix(q, fail)
      msi == SetCapability([ResetCapability(x) EXCEPT !.mode = "msi"], fail)
  IN IF ~q.entries THEN RequestMsi(q, fail)
     ELSE IF ~x.err THEN x ELSE RequestMsi(msi, fail)

(* e1000_free_irq: the vectors if the adapter has them, else its line. *)
FreeIrqButOther(q) ==
  [q EXCEPT !.lines = @ \ (IF q.entries THEN {"rx", "tx"} ELSE OneLine)]
FreeIrq(q) ==
  [q EXCEPT !.lines = @ \ (IF q.entries THEN MsixLines ELSE OneLine)]

(* e1000_test_msi_interrupt, with e1000_intr_msi_test: "fires" is whether  *)
(* the message arrives.  The test handler may be refused.                  *)
TestMsiInterrupt(q, fail, fires) ==
  LET bare == [ResetCapability(FreeIrq(q)) EXCEPT !.untested = TRUE]
      tested == "msi" \notin fail /\ "test" \notin fail
      told == IF fires THEN [bare EXCEPT !.untested = FALSE]
              ELSE [bare EXCEPT !.mode = "legacy"]
  IN RequestIrq(SetCapability(IF tested THEN told ELSE bare, fail), fail)

(* e1000e_open: MSI is tested before it is relied on (e1000_test_msi). *)
OpenIrq(q, fail, fires) ==
  LET r == RequestIrq(q, fail)
  IN IF r.err \/ ~r.msi THEN r ELSE TestMsiInterrupt(r, fail, fires)

-----------------------------------------------------------------------------
(* The handlers that the mode in use calls for. *)
Wanted(q) ==
  IF q.entries THEN MsixLines ELSE IF q.msi THEN {"msi"} ELSE {"intx"}

(* The vectors a handler may be registered at. *)
Exist(q) ==
  IF q.entries THEN MsixLines ELSE IF q.msi THEN {"msi"} ELSE {"intx"}
=============================================================================
