----------------------------- MODULE CopperLink -----------------------------
(***************************************************************************)
(* The copper link: what the driver does when it may have changed.  A link *)
(* change raises an interrupt whose handler only sets get_link_status; the *)
(* watchdog then clears it, asks the PHY, applies what depends on speed    *)
(* and partner (K1, energy efficient Ethernet, flow control) and leaves    *)
(* get_link_status set when there is no link.  ethtool changes what is     *)
(* asked for, with the interface taken down and up around it.  The link    *)
(* and its partner may change between any two steps.                       *)
(*                                                                         *)
(*   generic  e1000e_check_for_copper_link                                 *)
(*   pchlan, pch2, lpt   e1000_check_for_copper_link_ich8lan               *)
(***************************************************************************)
EXTENDS Naturals, FiniteSets

CONSTANTS Kinds,
          Partners,    \* abilities of the link partners: pause bits, modes, eee
          NvmPause,    \* flow control modes the NVM may ask for (generic)
          Advertise,   \* sets of modes ethtool may let the PHY advertise
          Force,       \* modes ethtool may force
          Pauses,      \* flow control modes ethtool may force
          Eees,        \* EEE advertisements ethtool may set
          Refused,     \* ethtool may ask for a speed there is not
          MayFail,     \* PHY accesses of the watchdog: bmsr, k1, eee, fc
          Overlap,     \* the watchdog may still run when the interface is reset
          Changes,     \* changes of the partner to look at
          Asks         \* calls of ethtool to look at

VARIABLES kind, nvm,
          phy,         \* what the PHY is set up for
          partner,     \* at the other end of the cable
          link,        \* of the PHY: up, mode, partner's pause bits and eee
          lsc,         \* link status change pending in ICR
          ctrl, water, \* MAC: pause frames sent and honoured; watermarks set
          k1, lpi,     \* K1 is on (lpt: clock request off); modes with EEE on
          glink,       \* get_link_status
          fc,          \* requested and current mode, forced by ethtool
          ask,         \* mac.autoneg, autoneg_advertised, forced mode, EEE
          down,        \* __E1000_DOWN
          wd,          \* e1000_watchdog_task, in check_for_link
          op,          \* the ethtool call that runs
          changes, asks

device == <<phy, partner, link, ctrl, water, k1, lpi>>
config == <<fc, ask>>
vars == <<kind, nvm, device, lsc, glink, config, down, wd, op, changes, asks>>

\* Modes of the link: 1000 full, 100 full, 100 half, 10 full, 10 half.
Gigabit == 5
Half == {1, 3}
Best(modes) == CHOOSE m \in modes : \A n \in modes : n <= m
SpeedOf(m) == (m + 1) \div 2

NoPartner == [pause |-> {}, modes |-> {}, eee |-> {}]
NoLink == [up |-> FALSE, mode |-> 0, lpa |-> {}, eee |-> {}]
Sends(mode) == mode \in {"tx", "full"}
Honours(mode) == mode \in {"rx", "full"}

\* e1000_phy_setup_autoneg: what a flow control mode advertises.
Advertised(mode) ==
    CASE mode = "none" -> {}
      [] mode = "tx" -> {"asym"}
      [] OTHER -> {"pause", "asym"}

\* The default: a word of the NVM, or what suits the controller.
DefaultFc == CASE kind = "generic" -> nvm [] kind = "pchlan" -> "rx" [] OTHER -> "full"

\* e1000e_config_fc_after_link_up: local bits a, the partner's b.
ResolveAnyDuplex(a, b, half) ==
    CASE "pause" \in a /\ "pause" \in b -> IF fc.requested = "full" THEN "full" ELSE "rx"
      [] a = {"asym"} /\ b = {"pause", "asym"} -> "tx"
      [] a = {"pause", "asym"} /\ b = {"asym"} -> "rx"
      [] OTHER -> "none"
Resolve(a, b, half) ==
    IF half THEN "none"
    ELSE CASE "pause" \in a /\ "pause" \in b -> IF fc.requested = "full" THEN "full" ELSE "rx"
           [] a = {"asym"} /\ b = {"pause", "asym"} -> "tx"
           [] a = {"pause", "asym"} /\ b = {"asym"} -> "rx"
           [] OTHER -> "none"

\* e1000e_force_mac_fc
Forced(mode) == [sends |-> Sends(mode), honours |-> Honours(mode)]

\* What the constants may be: modes by their numbers, flow control by its two bits.
Mode == 1 .. 5
FcMode == {"none", "rx", "tx", "full"}
PauseBit == {"pause", "asym"}
End == [pause : SUBSET PauseBit, modes : SUBSET Mode, eee : SUBSET Mode]
Assumption ==
    /\ Kinds \subseteq {"generic", "pchlan", "pch2", "lpt"}
    /\ Partners \subseteq End
    /\ Advertise \subseteq SUBSET Mode /\ Force \subseteq Mode /\ Eees \subseteq SUBSET Mode
    /\ NvmPause \subseteq FcMode /\ Pauses \subseteq FcMode

Check == [at |-> "idle", saw |-> FALSE, lpa |-> {}, eee |-> {}]

Init == /\ kind \in Kinds /\ nvm \in NvmPause
        /\ phy = [modes |-> {}, forced |-> 0, pause |-> {}, eee |-> {}]
        /\ partner = NoPartner /\ link = NoLink /\ lsc = FALSE
        /\ ctrl = Forced("none") /\ water = FALSE
        /\ k1 = TRUE /\ lpi = {} /\ glink = TRUE
        /\ fc = [requested |-> "default", current |-> "none", byUser |-> FALSE]
        /\ ask = [autoneg |-> TRUE, modes |-> UNION Advertise, forced |-> 2,
                  eee |-> UNION Eees, fcAutoneg |-> TRUE]
        /\ down = TRUE /\ wd = Check
        /\ op = [at |-> "reset"]
        /\ changes = 0 /\ asks = 0

(* ------------------------------------------------------------------------ *)
(* The PHY and the other end.                                                *)

Common == IF phy.forced # 0
          THEN {m \in {phy.forced} : \E n \in partner.modes : SpeedOf(m) = SpeedOf(n)}
          ELSE phy.modes \cap partner.modes

LinkComesUp ==
    /\ partner # NoPartner /\ ~link.up /\ Common # {}
    /\ link' = [up |-> TRUE, mode |-> Best(Common),
                lpa |-> IF phy.forced # 0 THEN {} ELSE partner.pause, eee |-> partner.eee]
    /\ lsc' = TRUE
    /\ UNCHANGED <<kind, nvm, phy, partner, ctrl, water, k1, lpi, glink, config, down, wd, op, changes, asks>>

\* The cable is pulled or put in another port; LPI bits stay only with the link.
PartnerChanges ==
    /\ changes < Changes
    /\ changes' = changes + 1
    /\ partner' \in (Partners \cup {NoPartner}) \ {partner}
    /\ link' = NoLink /\ lpi' = {}
    /\ lsc' = (lsc \/ link.up)
    /\ UNCHANGED <<kind, nvm, phy, ctrl, water, k1, glink, config, down, wd, op, asks>>

\* The handlers of the interrupt, which is masked while the interface is down.
Interrupt ==
    /\ lsc /\ ~down
    /\ lsc' = FALSE /\ glink' = TRUE
    /\ UNCHANGED <<kind, nvm, device, config, down, wd, op, changes, asks>>

(* ------------------------------------------------------------------------ *)
(* check_for_link, run by the watchdog.                                      *)

Watch(at) == wd' = [wd EXCEPT !.at = at]
CheckEndsClears(again) == wd' = Check /\ glink' = again
\* A check that ends early for want of a link, or of the PHY, sets the flag again.
CheckEnds(again) == wd' = Check /\ glink' = (glink \/ again)
KeepsRest == UNCHANGED <<kind, nvm, phy, partner, link, lsc, water, ask, down, op, changes, asks>>

CheckStarts ==
    /\ wd.at = "idle" /\ ~down /\ glink
    /\ glink' = FALSE
    /\ Watch("bmsr")
    /\ KeepsRest /\ UNCHANGED <<ctrl, k1, lpi, fc>>

\* e1000e_phy_has_link_generic; without a link the check is repeated later.
ReadsLink ==
    /\ wd.at = "bmsr"
    /\ \/ wd' = [wd EXCEPT !.at = "k1", !.saw = link.up] /\ UNCHANGED glink
       \/ "bmsr" \in MayFail /\ CheckEnds(TRUE)
    /\ KeepsRest /\ UNCHANGED <<ctrl, k1, lpi, fc>>

\* K1 must be off at gigabit.  The routines for pchlan and lpt apply with and
\* without a link, the one for pch2 (gigabit and 100) with a link only: it is not
\* undone, and its failure does not set get_link_status.
SpeedNow == IF link.up THEN SpeedOf(link.mode) ELSE 0
K1GigHv == ~(wd.saw /\ SpeedNow = 3)
K1LptLp == ~(wd.saw /\ SpeedNow = 3)
K1Lv == k1 /\ ~(wd.saw /\ SpeedNow \in {2, 3})
AppliesK1 ==
    /\ wd.at = "k1"
    /\ \/ /\ k1' = CASE kind = "generic" -> k1
                     [] kind = "pchlan" -> K1GigHv
                     [] kind = "pch2" -> K1Lv
                     [] OTHER -> K1LptLp
          /\ IF wd.saw THEN Watch(IF kind = "lpt" THEN "eee" ELSE "fc") /\ UNCHANGED glink
             ELSE CheckEnds(TRUE)
       \/ /\ "k1" \in MayFail /\ kind # "generic"
          /\ CheckEnds(kind # "pch2" \/ ~wd.saw) /\ UNCHANGED k1
    /\ KeepsRest /\ UNCHANGED <<ctrl, lpi, fc>>

\* e1000_set_eee_pchlan: EEE is on for the modes that both ends advertise.
ReadsEee ==
    /\ wd.at = "eee"
    /\ wd' = [wd EXCEPT !.at = "lpi",
                        !.eee = IF ask.eee = {} THEN {} ELSE phy.eee \cap link.eee]
    /\ KeepsRest /\ UNCHANGED <<ctrl, k1, lpi, fc, glink>>

WritesLpi ==
    /\ wd.at = "lpi"
    /\ \/ lpi' = (IF link.up THEN wd.eee ELSE {}) /\ Watch("fc") /\ UNCHANGED glink
       \/ "eee" \in MayFail /\ CheckEnds(FALSE) /\ UNCHANGED lpi
    /\ KeepsRest /\ UNCHANGED <<ctrl, k1, fc>>

\* Forced speed: nothing more.  Otherwise flow control, once autonegotiation is
\* complete.
StartsFc ==
    /\ wd.at = "fc"
    /\ IF ~ask.autoneg THEN CheckEnds(FALSE) /\ UNCHANGED ctrl
       ELSE /\ ctrl' = Forced(fc.current)
            /\ IF link.up THEN Watch("lpa") /\ UNCHANGED glink ELSE CheckEnds(FALSE)
    /\ KeepsRest /\ UNCHANGED <<k1, lpi, fc>>

ReadsAbilities ==
    /\ wd.at = "lpa"
    /\ \/ wd' = [wd EXCEPT !.at = "resolve", !.lpa = link.lpa] /\ UNCHANGED glink
       \/ "fc" \in MayFail /\ CheckEnds(FALSE)
    /\ KeepsRest /\ UNCHANGED <<ctrl, k1, lpi, fc>>

ResolvesFc ==
    /\ wd.at = "resolve"
    /\ LET mode == Resolve(phy.pause, wd.lpa, link.mode \in Half)
       IN fc' = [fc EXCEPT !.current = mode, !.byUser = FALSE] /\ ctrl' = Forced(mode)
    /\ CheckEnds(FALSE)
    /\ KeepsRest /\ UNCHANGED <<k1, lpi>>

(* ------------------------------------------------------------------------ *)
(* ethtool.                                                                  *)

KeepsMost == UNCHANGED <<kind, nvm, partner, wd, changes>>
Calls == op.at = "idle" /\ asks < Asks /\ asks' = asks + 1

\* e1000_set_link_ksettings; e1000_set_spd_dplx clears mac.autoneg before it
\* knows whether there is such a speed.
SetLink ==
    /\ Calls
    /\ \/ \E modes \in Advertise :
             /\ ask' = [ask EXCEPT !.autoneg = TRUE, !.modes = modes]
             /\ fc' = IF ask.fcAutoneg THEN [fc EXCEPT !.requested = "default"] ELSE fc
             /\ op' = [at |-> "down"]
       \/ \E mode \in Force :
             /\ ask' = [ask EXCEPT !.autoneg = FALSE, !.forced = mode]
             /\ op' = [at |-> "down"] /\ UNCHANGED fc
       \/ Refused /\ ask' = [ask EXCEPT !.autoneg = FALSE] /\ UNCHANGED <<fc, op>>
    /\ KeepsMost /\ UNCHANGED <<phy, link, ctrl, water, k1, lpi, lsc, glink, down>>

\* e1000_set_pauseparam: by autonegotiation, or forced on the MAC at once.
SetPauseAuto ==
    /\ Calls
    /\ fc' = [fc EXCEPT !.requested = "default"] /\ ask' = [ask EXCEPT !.fcAutoneg = TRUE]
    /\ op' = [at |-> "down"]
    /\ KeepsMost /\ UNCHANGED <<phy, link, ctrl, water, k1, lpi, lsc, glink, down>>

SetPause(mode) ==
    /\ Calls
    /\ fc' = [requested |-> mode, current |-> mode, byUser |-> TRUE]
    /\ ask' = [ask EXCEPT !.fcAutoneg = FALSE]
    /\ op' = [at |-> "force"]
    /\ KeepsMost /\ UNCHANGED <<phy, link, ctrl, water, k1, lpi, lsc, glink, down>>

ForcePause ==
    /\ op.at = "force"
    /\ ctrl' = Forced(fc.current) /\ water' = Sends(fc.current)
    /\ op' = [at |-> "idle"]
    /\ KeepsMost /\ UNCHANGED <<phy, link, k1, lpi, lsc, glink, config, down, asks>>

SetEee(modes) ==
    /\ Calls
    /\ ask' = [ask EXCEPT !.eee = modes]
    /\ op' = [at |-> "down"]
    /\ KeepsMost /\ UNCHANGED <<phy, link, ctrl, water, k1, lpi, lsc, glink, fc, down>>

(* e1000e_down, e1000e_reset (which calls setup_link) and e1000e_up.         *)

Down ==
    /\ op.at = "down"
    /\ down' = TRUE /\ op' = [at |-> "reset"]
    /\ KeepsMost /\ UNCHANGED <<phy, link, ctrl, water, k1, lpi, lsc, glink, config, asks>>

\* reset_hw resets the MAC and reads ICR; setup_link begins.
ResetHw ==
    /\ op.at = "reset" /\ (Overlap \/ wd.at = "idle")
    /\ ctrl' = Forced("none") /\ lsc' = FALSE /\ k1' = TRUE /\ lpi' = {}
    /\ link' = NoLink
    /\ LET mode == IF fc.requested = "default" THEN DefaultFc ELSE fc.requested
       IN fc' = [requested |-> mode, current |-> mode, byUser |-> FALSE]
    /\ op' = [at |-> "setup"]
    /\ KeepsMost /\ UNCHANGED <<phy, water, glink, ask, down, asks>>

\* e1000e_setup_copper_link: autonegotiation is restarted, or the speed forced
\* ("Turn off flow control when forcing speed/duplex").
StartAutoneg ==
    /\ op.at = "setup" /\ ask.autoneg
    /\ phy' = [phy EXCEPT !.modes = ask.modes, !.forced = 0, !.pause = Advertised(fc.current)]
    /\ link' = NoLink /\ glink' = TRUE
    /\ op' = [at |-> "water"]
    /\ KeepsMost /\ UNCHANGED <<ctrl, water, k1, lpi, lsc, config, down, asks>>

ForceSpeedDuplex ==
    /\ op.at = "setup" /\ ~ask.autoneg
    /\ phy' = [phy EXCEPT !.forced = ask.forced]
    /\ fc' = [fc EXCEPT !.current = "none"]
    /\ link' = NoLink
    /\ op' = [at |-> "water"]
    /\ KeepsMost /\ UNCHANGED <<ctrl, water, k1, lpi, lsc, glink, ask, down, asks>>

\* e1000e_set_fc_watermarks; e1000e_reset writes the EEE advertisement.
SetWatermarks ==
    /\ op.at = "water"
    /\ water' = Sends(fc.current) /\ phy' = [phy EXCEPT !.eee = ask.eee]
    /\ op' = [at |-> "up"]
    /\ KeepsMost /\ UNCHANGED <<link, ctrl, k1, lpi, lsc, glink, config, down, asks>>

\* e1000e_up; e1000e_trigger_lsc raises the interrupt by hand.
Up ==
    /\ op.at = "up"
    /\ down' = FALSE /\ lsc' = TRUE
    /\ op' = [at |-> "idle"]
    /\ KeepsMost /\ UNCHANGED <<phy, link, ctrl, water, k1, lpi, glink, config, asks>>

Next ==
    \/ LinkComesUp \/ PartnerChanges \/ Interrupt
    \/ CheckStarts \/ ReadsLink \/ AppliesK1 \/ ReadsEee \/ WritesLpi
    \/ StartsFc \/ ReadsAbilities \/ ResolvesFc
    \/ SetLink \/ SetPauseAuto \/ (\E mode \in Pauses : SetPause(mode)) \/ ForcePause
    \/ \E modes \in Eees : SetEee(modes)
    \/ Down \/ ResetHw \/ StartAutoneg \/ ForceSpeedDuplex \/ SetWatermarks \/ Up

Spec == Init /\ [][Next]_vars

(* ------------------------------------------------------------------------ *)

\* The states the link and the driver's view of it can be in.
TypeOK ==
    /\ link.up => link.mode \in 1..5
    /\ lsc \in BOOLEAN /\ glink \in BOOLEAN /\ down \in BOOLEAN /\ k1 \in BOOLEAN
    /\ fc.current \in {"none", "rx", "tx", "full"}
    /\ lpi \subseteq 1..5

\* The link is up, and nobody is about to look at it again.
Settled == link.up /\ ~glink /\ ~lsc /\ ~down /\ wd.at = "idle" /\ op.at = "idle"

\* What the partner does by the same table of 802.3.
PartnerSends ==
    link.mode \notin Half /\ (\/ {"pause"} \subseteq phy.pause \cap link.lpa
                              \/ link.lpa = {"asym"} /\ phy.pause = {"pause", "asym"})
PartnerHonours ==
    link.mode \notin Half /\ (\/ {"pause"} \subseteq phy.pause \cap link.lpa
                              \/ link.lpa = {"pause", "asym"} /\ phy.pause = {"asym"})

\* Once the link has settled both ends agree on flow control, unless ethtool has
\* forced it since: pause frames that are sent are honoured.
PauseAgrees ==
    Settled /\ ask.autoneg /\ ~fc.byUser =>
       (ctrl.sends => PartnerHonours) /\ (PartnerSends => ctrl.honours)

\* Once the link has settled at gigabit K1 is off.
K1IsOffAtGigabit == Settled /\ link.mode = Gigabit /\ kind # "generic" => ~k1

\* EEE is on only for modes that both ends of the settled link advertise.
EeeAgrees == Settled => lpi \subseteq phy.eee \cap link.eee

SettingsFollowLink == PauseAgrees /\ K1IsOffAtGigabit /\ EeeAgrees

\* The PHY advertises the flow control that was requested.
AdvertisedAsRequested ==
    Settled /\ ask.autoneg /\ ask.fcAutoneg => phy.pause = Advertised(fc.requested)

\* Pause frames are sent only with watermarks that say when.
SendsWithWatermarks == Settled /\ ctrl.sends => water

\* Flow control that ethtool forces is what the MAC does.
ForcedPauseIsKept == Settled /\ ask.autoneg /\ ~ask.fcAutoneg => ctrl = Forced(fc.requested)

\* A call that reports an error changes nothing.
RefusedCallChangesNothing == [][asks' # asks /\ op' = op => ask' = ask]_vars
=============================================================================
