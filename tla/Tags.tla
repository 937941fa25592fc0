-------------------------------- MODULE Tags --------------------------------
(* An application of the driver, with either a tag before the reader, to     *)
(* which it writes messages (Ndef.tla), or a peer (Peer.tla).                *)
EXTENDS Ndef, Peer

VARIABLE met  \* "tag" or "peer"

tags_vars == <<ndef_vars, peer_vars, met>>

(* What plays no part has one of its values.                                 *)
TagsInit ==
    /\ NdefInit /\ PeerInit
    /\ \/ met = "tag" /\ lead = 2
       \/ met = "peer" /\ kind = "ntag"

WritesTag == met = "tag" /\ NdefNext /\ UNCHANGED <<met, peer_vars>>

MeetsPeer == met = "peer" /\ PeerNext /\ UNCHANGED <<met, ndef_vars>>

TagsNext == WritesTag \/ MeetsPeer

TagsSpec == TagsInit /\ [][TagsNext]_tags_vars

TagsTypeOK == NdefTypeOK /\ PeerTypeOK /\ met \in {"tag", "peer"}
=============================================================================
