-------------------------------- MODULE MCTwin --------------------------------
(* Instance of DigitalTwin: a chain, a ring with a tail, two islands and an   *)
(* empty network, each changed once while it is studied.                      *)
EXTENDS DigitalTwin

CONSTANTS e, a, b, c

Edge == [services |-> <<"nat">>, edge |-> TRUE, status |-> "online"]
Plain == [services |-> <<>>, edge |-> FALSE, status |-> "offline"]
Server == [services |-> <<"dns", "dns">>, edge |-> FALSE, status |-> "online"]
MCProfiles == {Edge, Plain, Server}

Network(members, links) ==
    [device |-> [d \in members |-> IF d = e THEN Edge ELSE IF d = c THEN Server ELSE Plain],
     link |-> [l \in links |-> "up"], time |-> 0]

MCNetworks ==
    {Network({}, {}),
     Network({e, a, b}, {{e, a}, {a, b}}),
     Network({e, a, b, c}, {{e, a}, {a, b}, {b, e}, {b, c}}),
     Network({e, a, b, c}, {{e, a}, {b, c}})}

MCEntries == {Default, {e}, {e, c}}

================================================================================
