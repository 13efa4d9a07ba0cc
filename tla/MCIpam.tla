------------------------------- MODULE MCIpam -------------------------------
(* Instances of Ipam: the server's address and two peer addresses.         *)
EXTENDS Ipam, TLC

MCAddr == 2..4
MCServerIP == 2
MCHandleSpace == 8
MCDefaultClass == 6
MCFilterHandle == 1..2
MCSymmetry == Permutations(Proc)

TcCalls == {"classadd", "filteradd", "filterlist", "filterdel", "classdel", "cleanup"}
EveryTcFault == {TcCalls \cup {"flush"}}
HealthyOrNoClassDelFault == {{}, (TcCalls \ {"classdel"}) \cup {"flush", "list"}}
=============================================================================
