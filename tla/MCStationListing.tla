-------------------------- MODULE MCStationListing --------------------------
EXTENDS StationListing, StationParts

CONSTANTS h1, h2, s1, u1, p1, p2, i1, i2, i3

(* Who sees a station, its ports and its images are three parts that write  *)
(* nothing the others read: they are explored one beside the other.         *)

VARIABLE part

StationsInit ==
    /\ part \in {"listing", "ports", "images"}
    /\ Init /\ (part = "listing" \/ skipApproval)
    /\ PartsInit /\ (part = "ports" \/ Added = {}) /\ (part = "images" \/ images = {})

Only(stages) == \A h \in Request : stage'[h] \in stages \cup {"idle"}

StationsNext ==
    /\ UNCHANGED part
    /\ \/ part = "listing" /\ Next /\ UNCHANGED partsVars
       \/ /\ part = "ports" /\ PartsNext /\ UNCHANGED vars
          /\ Only({"create", "update", "count", "store"})
       \/ part = "images" /\ PartsNext /\ Only({"unset", "image"}) /\ UNCHANGED vars

StationsSpec == StationsInit /\ [][StationsNext]_<<vars, partsVars, part>> /\ Fairness
=============================================================================
