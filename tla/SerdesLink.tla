----------------------------- MODULE SerdesLink -----------------------------
(***************************************************************************)
(* The SerDes link.  When the partner sends /C/ ordered sets the two ends  *)
(* negotiate; when it does not, the driver has to force the link up, and   *)
(* must notice when a partner that negotiates comes later.  There is no    *)
(* interrupt to trust: the watchdog looks at RXCW and STATUS and decides   *)
(* from what it remembers.                                                 *)
(*                                                                         *)
(*   82571    e1000_check_for_serdes_link_82571, four states               *)
(*   generic  e1000e_check_for_serdes_link, with autoneg_failed            *)
(***************************************************************************)
EXTENDS Naturals

CONSTANTS Kinds,
          Partners,    \* absent, an, noan, noisy
          Changes,     \* changes of the partner to look at
          Resets       \* resets to look at

VARIABLES kind,
          partner,     \* at the other end of the link
          ane, slu,    \* TXCW.ANE; CTRL.SLU: the link is forced
          an,          \* the negotiation of the controller: run or done
          c,           \* RXCW.C: /C/ ordered sets have been received
          state,       \* serdes_link_state
          hasLink,     \* serdes_has_link
          failed,      \* autoneg_failed
          polling,     \* setup_link waits for the link
          changes, resets

link == <<ane, slu, an>>
vars == <<kind, partner, link, c, state, hasLink, failed, polling, changes, resets>>

Synch == partner # "absent"
Invalid == partner = "noisy"
LinkUp == slu \/ an = "done"

Init == /\ kind \in Kinds
        /\ partner = "absent"
        /\ ane = TRUE /\ slu = FALSE /\ an = "run" /\ c = FALSE
        /\ state = "down" /\ hasLink = FALSE /\ failed = FALSE
        /\ polling = TRUE
        /\ changes = 0 /\ resets = 0

(* ------------------------------------------------------------------------ *)
(* The wire and the controller.                                              *)

PartnerChanges ==
    /\ changes < Changes
    /\ changes' = changes + 1
    /\ partner' \in Partners \ {partner}
    /\ an' = "run" /\ c' = FALSE
    /\ UNCHANGED <<kind, ane, slu, state, hasLink, failed, polling, resets>>

\* A partner that negotiates sends /C/ until it is answered.
HearConfig ==
    /\ partner = "an" /\ ~c
    /\ c' = TRUE
    /\ UNCHANGED <<kind, partner, link, state, hasLink, failed, polling, changes, resets>>

AnCompletes ==
    /\ partner = "an" /\ ane /\ ~slu /\ an = "run"
    /\ an' = "done" /\ c' = TRUE
    /\ UNCHANGED <<kind, partner, ane, slu, state, hasLink, failed, polling, changes, resets>>

(* ------------------------------------------------------------------------ *)
(* What the checks write.                                                    *)

Negotiate == ane' = TRUE /\ slu' = FALSE /\ UNCHANGED an
ForceUp == ane' = FALSE /\ slu' = TRUE /\ UNCHANGED an

(* e1000_check_for_serdes_link_82571                                         *)

Becomes(s, has) == state' = s /\ hasLink' = has

FromComplete ==
    IF LinkUp THEN Becomes("complete", TRUE) /\ UNCHANGED link
    ELSE Becomes("progress", FALSE) /\ UNCHANGED link

FromForcedStays == Becomes("forced", TRUE) /\ UNCHANGED link
FromForced ==
    IF c THEN Becomes("progress", FALSE) /\ Negotiate
    ELSE Becomes("forced", TRUE) /\ UNCHANGED link

FromProgress ==
    CASE c /\ LinkUp  -> Becomes("complete", TRUE) /\ UNCHANGED link
      [] c /\ ~LinkUp -> Becomes("down", hasLink) /\ UNCHANGED link
      [] OTHER        -> Becomes("forced", TRUE) /\ ForceUp

FromDown == Becomes("progress", FALSE) /\ Negotiate

\* Without synchronisation the link is down.  With invalid bits RXCW is read
\* again several times: all with /C/ means autonegotiation, an invalid one down.
NotValid ==
    IF Synch /\ c THEN Becomes("progress", FALSE) /\ ane' = TRUE /\ UNCHANGED <<slu, an>>
    ELSE Becomes("down", FALSE) /\ UNCHANGED link

Check82571 ==
    /\ IF Synch /\ ~Invalid
       THEN CASE state = "complete" -> FromComplete
              [] state = "forced"   -> FromForced
              [] state = "progress" -> FromProgress
              [] OTHER              -> FromDown
       ELSE NotValid
    /\ UNCHANGED failed

(* e1000e_check_for_serdes_link                                              *)

\* The last part, with TXCW as the first one has left it.
SeesLink == LinkUp /\ Synch /\ ~Invalid
CheckGeneric(hasFailed) ==
    /\ UNCHANGED state
    /\ CASE ~LinkUp /\ ~c /\ ~hasFailed ->
               failed' = TRUE /\ UNCHANGED <<link, hasLink>>
         [] ~LinkUp /\ ~c /\ hasFailed ->
               failed' = hasFailed /\ ForceUp /\ UNCHANGED hasLink
         [] slu /\ c ->
               failed' = hasFailed /\ Negotiate /\ hasLink' = (an = "done")
         [] OTHER ->
               /\ failed' = hasFailed /\ UNCHANGED link
               /\ hasLink' = IF ane THEN SeesLink ELSE Synch /\ (hasLink \/ ~Invalid)

(* ------------------------------------------------------------------------ *)

Watchdog ==
    /\ ~polling
    /\ IF kind = "82571" THEN Check82571 ELSE CheckGeneric(failed)
    /\ UNCHANGED <<kind, partner, c, polling, changes, resets>>

\* e1000e_setup_fiber_serdes_link takes the link out of reset and waits for it;
\* 82571 starts its states anew.
ResetKeepsState ==
    /\ ~polling /\ resets < Resets
    /\ resets' = resets + 1
    /\ ane' = TRUE /\ slu' = FALSE /\ an' = "run" /\ c' = FALSE
    /\ polling' = TRUE
    /\ UNCHANGED <<kind, partner, hasLink, failed, changes, state>>
Reset ==
    /\ ~polling /\ resets < Resets
    /\ resets' = resets + 1
    /\ ane' = TRUE /\ slu' = FALSE /\ an' = "run" /\ c' = FALSE
    /\ state' = IF kind = "82571" THEN "down" ELSE state
    /\ polling' = TRUE
    /\ UNCHANGED <<kind, partner, hasLink, failed, changes>>

\* e1000_poll_fiber_serdes_link_generic: without a link in time check_for_link is
\* called as after a failure.
PolledUp ==
    /\ polling /\ LinkUp
    /\ polling' = FALSE /\ failed' = FALSE
    /\ UNCHANGED <<kind, partner, link, c, state, hasLink, changes, resets>>

PolledTooLong ==
    /\ polling /\ ~LinkUp
    /\ polling' = FALSE
    /\ IF kind = "82571" THEN Check82571
       ELSE /\ IF ~c THEN ForceUp ELSE UNCHANGED link
            /\ hasLink' = IF c THEN FALSE ELSE hasLink
            /\ failed' = FALSE /\ UNCHANGED state
    /\ UNCHANGED <<kind, partner, c, changes, resets>>

Next == \/ PartnerChanges \/ HearConfig \/ AnCompletes
        \/ Watchdog \/ Reset \/ PolledUp \/ PolledTooLong

\* The watchdog runs every two seconds, a partner that negotiates goes on doing
\* so, and polling is bounded.
Fairness ==
    /\ WF_vars(Watchdog) /\ WF_vars(PolledUp) /\ WF_vars(PolledTooLong)
    /\ WF_vars(HearConfig) /\ WF_vars(AnCompletes)

Spec == Init /\ [][Next]_vars /\ Fairness

(* ------------------------------------------------------------------------ *)

\* The states the link can be in.
TypeOK ==
    /\ state \in {"down", "progress", "complete", "forced"}
    /\ an \in {"run", "done"}
    /\ hasLink \in BOOLEAN /\ failed \in BOOLEAN /\ ane \in BOOLEAN /\ slu \in BOOLEAN

Converged ==
    CASE partner = "an"   -> hasLink /\ ane /\ ~slu /\ an = "done"
      [] partner = "noan" -> hasLink /\ slu /\ ~ane
      [] partner = "noisy" -> kind = "82571" => ~hasLink
      [] OTHER            -> ~hasLink

\* Whatever partners came before, the driver ends with a negotiated link to one
\* that negotiates, a forced link to one that does not, and reports no link when
\* there is nobody.
Converges == <>[]Converged
=============================================================================
