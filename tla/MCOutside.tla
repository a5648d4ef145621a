------------------------------ MODULE MCOutside ------------------------------
(***************************************************************************)
(* A small instance of each part that deals with the outside by itself,    *)
(* side by side: feeds and settings, a UDP announce and the DHT node share *)
(* no state in the code, so a behaviour is one of one part.                *)
(***************************************************************************)
EXTENDS Feeds, UdpTracker, Dht

VARIABLE part   \* the part that runs

Parts == {"feeds", "udp", "dht"}

(* The one rule matches every item.                                        *)
MCMatching == [r \in Rules |-> FeedItems]
MCFeedScenarios ==
    {{"files"}, {"items"}, {"item", "forced"}, {"item", "settings"}}

MCUnasked ==
    [s \in DhtScenarios |->
        CASE s = "online" -> 1 [] s = "offline" -> 2 [] s = "tokens" -> 4]

(* Nothing tells these apart.                                              *)
Alike ==
    UNION {Permutations(S) : S \in {DhtNodes, Tids}}

OtherVars(p) ==
    /\ part = p /\ UNCHANGED part
    /\ p # "feeds" => UNCHANGED feedVars
    /\ p # "udp" => UNCHANGED udpVars
    /\ p # "dht" => UNCHANGED dhtVars

(* A part that does not run is in one state.                               *)
OutsideInit ==
    /\ part \in Parts
    /\ FeedsInit /\ UdpInit /\ DhtInit
    /\ part # "feeds" => feedScenario = {"files"}
    /\ part # "udp" => asked = "announce" /\ transaction = 1 /\ ~strayed
    /\ part # "dht" => dhtScenario = "online" /\ bucket = <<>>

OutsideNext ==
    \/ FeedsNext /\ OtherVars("feeds")
    \/ UdpNext /\ OtherVars("udp")
    \/ DhtNext /\ OtherVars("dht")

OutsideSpec == OutsideInit /\ [][OutsideNext]_<<part, feedVars, udpVars, dhtVars>>

(* Every part's state is of its type. *)
OutsideTypeOK == FeedsTypeOK /\ UdpTypeOK /\ DhtTypeOK
=============================================================================
