------------------------------ MODULE Firewall ------------------------------
(***************************************************************************)
(* What the rules that ipam/nft_linux.go writes do to packets: the port    *)
(* filter and the isolation of peers.  ipam.New writes them one Flush      *)
(* after the other, before any other goroutine has the connection, so each *)
(* Flush is one step.                                                      *)
(*                                                                         *)
(* The ports are 0 to MaxPort, 65535 in the code, and an address is the    *)
(* sequence of the bits of four bytes of ByteBits bits, 8 in the code.  A  *)
(* rule of the isolation chain is the pair of the sets of sources and      *)
(* destinations it drops.                                                  *)
(***************************************************************************)
EXTENDS Kernel, Integers, Sequences, Functions

CONSTANTS MaxPort, ByteBits,
          Configs  \* what New may be given: the subnet and the lists of ports

Ports == 0..MaxPort
AddrBits == 4 * ByteBits
Addrs == [1..AddrBits -> {0, 1}]

\* UnmarshalText takes any two ports for a range, also with low above high.
PortRange == [low : Ports, high : Ports]
PortList == [mode : {"none", "block", "allow"}, ranges : Seq(PortRange)]

ASSUME FirewallAssumption ==
  /\ MaxPort \in Nat /\ ByteBits \in Nat \ {0}
  /\ Configs \subseteq [ones : 0..AddrBits, ip : Addrs, policy : {"AllowAll", "InternetOnly"},
                        udp : PortList, tcp : PortList]

VARIABLES cfg,        \* the configuration given to New
          stage,      \* how far New has come
          portfilter, \* rules of the port filter chain
          isolation,  \* rules of the isolation chain
          loners      \* peers that were isolated one by one

firewallVars == <<cfg, stage, portfilter, isolation, loners, faults>>

\* The addresses that agree with a in the first bits.
SamePrefix(a, bits) == {b \in Addrs : \A i \in 1..bits : b[i] = a[i]}

PeerNet == SamePrefix(cfg.ip, cfg.ones)

-----------------------------------------------------------------------------
\* Mutant: a whole number of bytes counts as one more.
ipnetSizeBytesMore(ones) ==
  CASE ones < ByteBits -> 1
    [] ones \in ByteBits..(2 * ByteBits - 1) -> 2
    [] ones \in (2 * ByteBits)..(3 * ByteBits - 1) -> 3
    [] OTHER -> 4

\* The bytes of an address that are compared with those of the subnet.
ipnetSizeBytes(ones) ==
  CASE ones <= ByteBits -> 1
    [] ones \in (ByteBits + 1)..(2 * ByteBits) -> 2
    [] ones \in (2 * ByteBits + 1)..(3 * ByteBits) -> 3
    [] OTHER -> 4

\* Addresses whose first bytes are those of a.
SameBytes(a) == SamePrefix(a, ByteBits * ipnetSizeBytes(cfg.ones))

-----------------------------------------------------------------------------
\* sort.Slice by low, which may exchange ranges that begin at the same port.
SortedOrders(ranges) ==
  LET D == DOMAIN ranges
  IN  {s \in {[i \in D |-> ranges[o[i]]] : o \in Bijection(D, D)} :
         \A i, j \in D : i < j => s[i].low <= s[j].low}

\* Mutant: the end of an interval is its last port.
ElementsEndEarly(s) ==
  UNION {{[key |-> s[i].low, end |-> FALSE], [key |-> s[i].high, end |-> TRUE]} : i \in DOMAIN s}

\* One round of the loop: a range that does not begin above the last one taken is
\* skipped.
Round(m, r) ==
  IF r.low <= m.highest THEN m
  ELSE [highest  |-> r.high,
        elements |-> m.elements \cup {[key |-> r.low, end |-> FALSE],
                                      [key |-> (r.high + 1) % (MaxPort + 1), end |-> TRUE]}]

\* The elements of the interval set for the sorted ranges s.
Elements(s) ==
  LET loop[i \in 0..Len(s)] == IF i = 0 THEN [highest |-> 0, elements |-> {}]
                                        ELSE Round(loop[i - 1], s[i])
  IN  loop[Len(s)].elements

\* The kernel's lookup in an interval set: the last element at or below the
\* port begins an interval.
InSet(elements, port) ==
  \E e \in elements :
    /\ ~e.end /\ e.key <= port
    /\ \A x \in elements : x.key <= port => x.key <= e.key

EstablishedRule == [est |-> TRUE, proto |-> "any", every |-> TRUE, set |-> {}, verdict |-> "accept"]

SetRule(proto, set, verdict) ==
  [est |-> FALSE, proto |-> proto, every |-> FALSE, set |-> set, verdict |-> verdict]

RestRule(proto) == [est |-> FALSE, proto |-> proto, every |-> TRUE, set |-> {}, verdict |-> "drop"]

\* The rules of setBlockedPorts4proto for the elements of the set.
PortRules(proto, mode, set) ==
  IF mode = "block" THEN <<SetRule(proto, set, "drop")>>
                    ELSE <<SetRule(proto, set, "accept"), RestRule(proto)>>

-----------------------------------------------------------------------------
FirewallInit ==
  /\ cfg \in Configs /\ faults \in FaultSets
  /\ stage = "init"
  /\ portfilter = <<>> /\ isolation = {} /\ loners = {}

\* init: the tables with the rule for established connections.
InitTables ==
  /\ stage = "init"
  /\ \/ /\ portfilter' = <<EstablishedRule>>
        /\ stage' = "isolate"
     \/ /\ "flush" \in faults
        /\ stage' = "failed" /\ UNCHANGED portfilter
  /\ UNCHANGED <<cfg, isolation, loners, faults>>

newIsolateAllRule ==
  /\ stage = "isolate"
  /\ \/ /\ cfg.policy = "AllowAll"
        /\ stage' = "udp" /\ UNCHANGED isolation
     \/ /\ cfg.policy = "InternetOnly"
        /\ isolation' = isolation \cup {[src |-> SameBytes(cfg.ip), dst |-> SameBytes(cfg.ip)]}
        /\ stage' = "udp"
     \/ /\ cfg.policy = "InternetOnly" /\ "flush" \in faults
        /\ stage' = "failed" /\ UNCHANGED isolation
  /\ UNCHANGED <<cfg, portfilter, loners, faults>>

\* setBlockedPorts4proto: nothing without ports, else the rules or an error.
setBlockedPorts(proto, c, ok) ==
  \/ ok /\ c.mode = "none" /\ UNCHANGED portfilter
  \/ /\ ok /\ c.mode # "none"
     /\ \E s \in SortedOrders(c.ranges) :
          portfilter' = portfilter \o PortRules(proto, c.mode, Elements(s))
  \/ ~ok /\ c.mode # "none" /\ "flush" \in faults /\ UNCHANGED portfilter

\* fillPortRestrictionRules: UDP, then TCP unless UDP failed.  New ignores its
\* error.
BlockUDP ==
  /\ stage = "udp"
  /\ \E ok \in BOOLEAN :
       setBlockedPorts("udp", cfg.udp, ok) /\ stage' = IF ok THEN "tcp" ELSE "ready"
  /\ UNCHANGED <<cfg, isolation, loners, faults>>

BlockTCP ==
  /\ stage = "tcp"
  /\ \E ok \in BOOLEAN : setBlockedPorts("tcp", cfg.tcp, ok)
  /\ stage' = "ready"
  /\ UNCHANGED <<cfg, isolation, loners, faults>>

\* A peer that may use the internet only joins an IPAM whose default is to
\* allow everything.
newIsolatePeerRule(a) ==
  /\ stage = "ready" /\ cfg.policy = "AllowAll" /\ loners = {}
  /\ isolation' = isolation \cup {[src |-> {a}, dst |-> SameBytes(a)]}
  /\ loners' = {a}
  /\ UNCHANGED <<cfg, stage, portfilter, faults>>

FirewallNext ==
  \/ InitTables \/ newIsolateAllRule \/ BlockUDP \/ BlockTCP
  \/ \E a \in PeerNet : newIsolatePeerRule(a)

FirewallSpec == FirewallInit /\ [][FirewallNext]_firewallVars

-----------------------------------------------------------------------------
Packets == [proto : {"udp", "tcp", "icmp"}, port : Ports, est : BOOLEAN]

Matches(r, k) ==
  /\ r.est => k.est
  /\ r.proto \in {"any", k.proto}
  /\ r.every \/ InSet(r.set, k.port)

\* The verdict of the port filter chain: that of the first rule that matches.
Accepted(k) ==
  \A i \in DOMAIN portfilter :
    Matches(portfilter[i], k) /\ (\A j \in 1..(i - 1) : ~Matches(portfilter[j], k))
      => portfilter[i].verdict = "accept"

Restriction(proto) == IF proto = "udp" THEN cfg.udp ELSE cfg.tcp

InRanges(c, port) == \E i \in DOMAIN c.ranges : port \in c.ranges[i].low..c.ranges[i].high

\* What the configuration says of the port.
Permitted(c, port) ==
  CASE c.mode = "none"  -> TRUE
    [] c.mode = "block" -> ~InRanges(c, port)
    [] c.mode = "allow" -> InRanges(c, port)

\* No range is upside down.
Upward(c) == \A i \in DOMAIN c.ranges : c.ranges[i].low <= c.ranges[i].high

\* No two ranges share a port, and none has port 0.
Regular(c) ==
  /\ Upward(c)
  /\ \A i \in DOMAIN c.ranges : c.ranges[i].low > 0
  /\ \A i, j \in DOMAIN c.ranges :
       i # j => c.ranges[i].high < c.ranges[j].low \/ c.ranges[j].high < c.ranges[i].low

AsConfigured(k) ==
  Accepted(k) <=> k.est \/ k.proto = "icmp" \/ Permitted(Restriction(k.proto), k.port)

\* The stages of New, and the keys of the sets the rules look ports up in, which
\* are 16-bit numbers in the code whatever the ranges.
FirewallTypeOK ==
  /\ stage \in {"init", "isolate", "udp", "tcp", "ready", "failed"}
  /\ \A i \in DOMAIN portfilter :
       portfilter[i].set \subseteq [key : Ports, end : BOOLEAN]
  /\ isolation \subseteq [src : SUBSET Addrs, dst : SUBSET Addrs]

\* For upward ranges without common ports and without port 0, the chain accepts
\* exactly the packets the two lists permit, and those of established connections
\* and other protocols.
\* However upward ranges overlap, merging them never reaches a port outside all of
\* them: no other port is blocked by a block list or, once the rules are installed,
\* let in by an allow list.  (UnmarshalText also takes a range like 5-3, of which
\* only the type of its elements is claimed.)
PortsExact ==
  /\ FirewallTypeOK
  /\ stage = "ready" =>
       \A k \in Packets :
         LET c == Restriction(k.proto)
         IN  /\ Healthy /\ Regular(cfg.udp) /\ Regular(cfg.tcp) => AsConfigured(k)
             /\ ~k.est /\ k.proto # "icmp" /\ Upward(c) /\ ~InRanges(c, k.port) =>
                  /\ c.mode = "block" => Accepted(k)
                  /\ c.mode = "allow" /\ Healthy => ~Accepted(k)

\* The rules of newIsolateAllRule and newIsolatePeerRule never cut a peer off from an
\* address outside the peers' subnet.  If the mask ends at a byte, where ipnetSizeBytes
\* is exact, no peer reaches another one when New was told so, nor when the peer was
\* isolated; New does not succeed without the rule.
SubnetIsolated ==
  /\ \A r \in isolation : r.src \subseteq PeerNet /\ r.dst \subseteq PeerNet
  /\ stage = "ready" /\ (\E n \in 1..4 : cfg.ones = n * ByteBits) =>
       /\ cfg.policy = "InternetOnly" =>
            \E r \in isolation : PeerNet \subseteq r.src /\ PeerNet \subseteq r.dst
       /\ \A a \in loners : \E r \in isolation : a \in r.src /\ PeerNet \subseteq r.dst
=============================================================================
