---------------------------- MODULE GuardAddress ----------------------------
(* Which address the session guard takes for the client's: a request starts   *)
(* at a machine that may send any X-Forwarded-For, and passes machines that    *)
(* each append the address they had it from.                                   *)
EXTENDS Naturals, Sequences, FiniteSets

CONSTANTS Machines,     \* addresses
          Proxies,      \* those in DBS_TRUSTED_PROXIES
          TrustHeader,  \* DBS_TRUST_FORWARDED_FOR
          MaxForged, MaxPath,
          Unreadable    \* an entry that is no address, and the unknown address

AddressAssumption == /\ Proxies \subseteq Machines /\ TrustHeader \in BOOLEAN
                            /\ MaxForged \in Nat /\ MaxPath \in Nat

VARIABLES path,   \* the machines the request has passed, the client first
          hops    \* X-Forwarded-For

vars == <<path, hops>>

Peer == path[Len(path)]
Greatest(S) == CHOOSE i \in S: \A j \in S: j <= i
Smallest(S) == CHOOSE i \in S: \A j \in S: i <= j

(* client_address: the header is read only from a trusted peer, from the       *)
(* right, to the first entry that is not a proxy's.                            *)
Stops == {i \in DOMAIN hops: hops[i] \notin Proxies}
FirstEntry == IF hops = << >> THEN Unreadable ELSE IF Stops = {} THEN hops[1] ELSE hops[Smallest(Stops)]
Walked == IF hops = << >> THEN Unreadable ELSE IF Stops = {} THEN hops[1] ELSE hops[Greatest(Stops)]
ClientAddress == IF ~TrustHeader \/ Peer \notin Proxies THEN Peer ELSE Walked

Start == \E m \in Machines: path = <<m>>
Init == Start /\ hops = << >>
Forge ==
    /\ Len(path) = 1 /\ Len(hops) < MaxForged
    /\ \E entry \in Machines \cup {Unreadable}: hops' = Append(hops, entry)
    /\ UNCHANGED path
Forward ==
    /\ Len(path) < MaxPath
    /\ \E m \in Machines: path' = Append(path, m)
    /\ hops' = Append(hops, Peer)
Next == Forge \/ Forward
Spec == Init /\ [][Next]_vars

(* The address is that of the last machine on the way that is not one of the   *)
(* trusted proxies, whatever the client wrote into the header.                 *)
Outsiders == {i \in DOMAIN path: path[i] \notin Proxies}
Unforgeable == (TrustHeader /\ Outsiders # {}) => ClientAddress = path[Greatest(Outsiders)]
=============================================================================
