---------------------------- MODULE MCWifiGuard ----------------------------
(* Three networks: home, over which the node was installed and which       *)
(* NetworkManager knows by itself, and two that may be listed.             *)
EXTENDS WifiGuard

MCSsids == {"home", "yard", "shop"}
MCSecret == [s \in MCSsids |-> "right"]
MCPasswords == {"right", "wrong"}

Cfg(on, wl) == [enabled |-> on, threshold |-> -75, margin |-> 0, wl |-> wl]

\* First only shop is strong, whose gateway is dead; then yard is.
Weak == [home |-> -85, yard |-> -80, shop |-> -60]
Clear == [home |-> -85, yard |-> -60]
MCRadios == {Weak, Clear}

MCStart == Cfg(TRUE, [yard |-> "right", shop |-> "right"])
MCRequests == {Cfg(TRUE, [yard |-> Blank]), Cfg(FALSE, [shop |-> "wrong"])}
MCInodes == 1..3
=============================================================================
