---------------------------- MODULE MCWifiReport ----------------------------
(* Three networks on four channels of two bands, a roaming access point    *)
(* heard twice, a hidden one, and links at and around the threshold.       *)
EXTENDS WifiReport

Block(b, s, f, r) == [bssid |-> b, ssid |-> s, freq |-> f, rssi |-> r]
Line(s, sig, ch) == [ssid |-> s, signal |-> sig, channel |-> ch]

MCBlocks == {Block("b1", "home", 2412, -83), Block("b1", "home", 2412, -76),
             Block("b2", "yard", 2412, -79),
             Block("b2", "yard", 2412, -65), Block("b3", "shop", 2437, -75),
             Block("b4", "shop", 2412, -60), Block("b5", "yard", 5180, -50),
             Block("b6", "", 2437, -40), Block("b7", "far", 5900, -70)}

MCLines == {Line("home", 45, 1), Line("yard", 51, 1), Line("yard", 81, 36),
            Line("", 90, 6), Line("shop", 60, 6)}

MCIwLinks == {Block("", "", 0, 0), Block("b1", "home", 2412, -88),
              Block("b1", "home", 2412, -75), Block("b5", "yard", 5180, -60)}

MCNmcliLinks == {Line("", 0, 0), Line("shop", 40, 6)}

MCSettings == {[whitelist |-> w, threshold |-> -75, margin |-> 8] :
                 w \in {{"yard", "shop"}, {"home"}}}

MCMaxHeard == 4
=============================================================================
