---------------------------- MODULE MCPeerSession ----------------------------
(* PeerSession with two services whose common versions and registration order vary. *)
EXTENDS PeerSession

MCServices == {1, 2}
MCMaxCmd == [s \in MCServices |-> IF s = 1 THEN 1 ELSE 0]
One(v) == [name |-> 1, version |-> v]
Two == [name |-> 2, version |-> 1]
Offer(d, l) == [e \in Ends |-> IF e = "dialler" THEN d ELSE l]
\* Both services in common, registered in different orders; or one of them, whose
\* protocol may then fail twice.
MCOffers == {Offer(<<One(1), Two>>, <<Two, One(1)>>), Offer(<<One(1), Two>>, <<Two, One(2)>>)}
MCMaxSent(o) == IF o["listener"] = <<Two, One(2)>> THEN 2 ELSE 1
=============================================================================
