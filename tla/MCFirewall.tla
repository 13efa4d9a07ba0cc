----------------------------- MODULE MCFirewall -----------------------------
(* Four ports and up to three ranges, up to two if one is upside down;     *)
(* addresses of four bytes of two bits and prefixes that leave room for a  *)
(* server and a peer.                                                      *)
EXTENDS Firewall

UpRange == {r \in PortRange : r.low <= r.high}
NoList == [mode |-> "none", ranges |-> <<>>]
Lists == {NoList} \cup [mode : {"block", "allow"},
                        ranges : UNION ({[1..n -> PortRange] : n \in 0..2} \cup {[1..3 -> UpRange]})]
OneRange == <<[low |-> 1, high |-> 2]>>

\* The first n bits of 10110110.
Prefix(n) == [i \in 1..AddrBits |-> IF i <= n THEN <<1, 0, 1, 1, 0, 1, 1, 0>>[i] ELSE 0]

\* Every list of UDP ports with three of TCP ports.
PortConfigs ==
  [ones : {4}, ip : {Prefix(4)}, policy : {"InternetOnly"}, udp : Lists,
   tcp : {NoList} \cup [mode : {"block", "allow"}, ranges : {OneRange}]]

SubnetConfigs ==
  UNION {[ones : {n}, ip : {Prefix(n)}, policy : {"AllowAll", "InternetOnly"},
          udp : {NoList}, tcp : {NoList}] : n \in 0..6}

MCConfigs == PortConfigs \cup SubnetConfigs
=============================================================================
