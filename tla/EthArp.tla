------------------------------- MODULE EthArp -------------------------------
(***************************************************************************)
(* The ARP cache of lwIP (src/core/ipv4/etharp.c) as this firmware builds  *)
(* it: ARP_QUEUEING is 0, so an entry holds at most one packet; there are  *)
(* no static entries; one etharp_cached_entry serves all connections.      *)
(* With it the time base that drives its timer: SysTick_Handler, g_        *)
(* localtime and lwip_timeouts_check, called by main again and again.      *)
(*                                                                         *)
(* lwIP runs in main only, so every call is one step; memory may run out   *)
(* in any of them.  Packets to one address are numbered as etharp_output   *)
(* is given them.  What leaves the cache alone is left out: packets that   *)
(* are broadcast, multicast or have no route; malformed ARP packets; the   *)
(* ARP packets the board sends.                                            *)
(* LWIP_DEBUG is defined (as 0), so a freed entry is cleared.              *)
(***************************************************************************)
EXTENDS Integers, Functions

CONSTANTS
    ARP_TABLE_SIZE,          \* entries of arp_table (10)
    ARP_MAXAGE,              \* seconds a stable entry lives (300)
    ARP_MAXPENDING,          \* seconds a pending entry lives (5)
    REREQUEST_UNICAST,       \* ARP_AGE_REREQUEST_USED_UNICAST (270)
    ARP_TMR_INTERVAL,        \* 1000 ms
    SYSTEMTICK_PERIOD_MS,    \* what a tick of 10 ms adds to g_localtime (0)
    TimeModulus,             \* g_localtime is a uint32_t (2^32)
    Addrs, AnyIp,            \* addresses of the network; 0.0.0.0
    Macs, ZeroMac,           \* hardware addresses; 00:00:00:00:00:00
    Claims,                  \* the pairs of both that ARP packets may announce
    MaxPackets               \* bound on the packets given to etharp_output

ASSUME ArpAssumption ==
    /\ ARP_TABLE_SIZE \in Nat \ {0}
    /\ ARP_MAXAGE \in Nat \ {0} /\ ARP_MAXPENDING \in Nat \ {0}
    /\ REREQUEST_UNICAST \in Nat
    /\ TimeModulus \in Nat \ {0} /\ ARP_TMR_INTERVAL \in 1 .. TimeModulus - 1
    /\ SYSTEMTICK_PERIOD_MS \in Nat
    /\ AnyIp \notin Addrs /\ ZeroMac \notin Macs
    /\ Claims \subseteq Addrs \X Macs /\ MaxPackets \in Nat

Entries == 0 .. ARP_TABLE_SIZE - 1
Stable  == {"STABLE", "REREQUESTING_1", "REREQUESTING_2"}

VARIABLES
    arp_table,            \* q is the number of the queued packet, 0 for NULL
    etharp_cached_entry,
    g_localtime, arpcurtime,
    sent,                 \* the packet that the last step has sent, if any
    submitted, delivered, \* per address: packets given to etharp_output so far,
                          \* and the number of the last one that was sent
    newest                \* per address: who claimed it last, in an ARP packet

timeVars == <<g_localtime, arpcurtime>>
netVars  == <<sent, submitted, delivered, newest>>
arpVars  == <<arp_table, etharp_cached_entry, timeVars, netVars>>

Packet(ip, mac) == [ip |-> ip, mac |-> mac]

-----------------------------------------------------------------------------
\* An entry of the zeroed table, and one that etharp_free_entry has cleared.
Blank == [state |-> "EMPTY", ip |-> AnyIp, mac |-> ZeroMac, ctime |-> 0, q |-> 0]

ArpInit ==
    /\ arp_table = [i \in Entries |-> Blank]
    /\ etharp_cached_entry = 0
    /\ g_localtime = 0 /\ arpcurtime = 0
    /\ sent = {}
    /\ submitted = [ip \in Addrs |-> 0] /\ delivered = [ip \in Addrs |-> 0]
    /\ newest = [ip \in Addrs |-> ZeroMac]

-----------------------------------------------------------------------------
\* etharp_find_entry.

In(i, states) == arp_table[i].state \in states

\* Entry i is the one that is in use for ip.
Matches(ip, i) == ~In(i, {"EMPTY"}) /\ arp_table[i].ip = ip

NoMatch(ip) == \A i \in Entries : ~Matches(ip, i)

\* Entry i is the oldest of a class; of several, the last one.
OldestOf(class, i) ==
    /\ i \in class
    /\ \A j \in class : \/ arp_table[j].ctime < arp_table[i].ctime
                        \/ arp_table[j].ctime = arp_table[i].ctime /\ j <= i

\* The entry that is taken for a new address: the first empty one; if there is
\* none, the oldest stable one; the oldest pending one without a packet; with one.
Recycles(i) ==
    LET empty   == {j \in Entries : In(j, {"EMPTY"})}
        stable  == {j \in Entries : In(j, Stable)}
        pending == {j \in Entries : In(j, {"PENDING"}) /\ arp_table[j].q = 0}
        queued  == {j \in Entries : In(j, {"PENDING"}) /\ arp_table[j].q # 0}
    IN  IF empty # {} THEN i \in empty /\ \A j \in empty : i <= j
        ELSE IF stable # {} THEN OldestOf(stable, i)
        ELSE IF pending # {} THEN OldestOf(pending, i)
        ELSE OldestOf(queued, i)

\* Mutant of Creates: the search ends with the first entry that could be used.
CreatesEarly(ip, i) == Recycles(i)

\* A new entry is made for ip.
Creates(ip, i) == NoMatch(ip) /\ Recycles(i)

-----------------------------------------------------------------------------
\* etharp_tmr.

\* An entry that has become old is freed, with the packet it holds.
Expires(e) ==
    \/ e.ctime + 1 >= ARP_MAXAGE
    \/ e.state = "PENDING" /\ e.ctime + 1 >= ARP_MAXPENDING

\* One second more; a state in which the entry was asked for again passes.
Older(e) ==
    [e EXCEPT !.ctime = @ + 1,
              !.state = IF @ = "REREQUESTING_1" THEN "REREQUESTING_2"
                        ELSE IF @ = "REREQUESTING_2" THEN "STABLE" ELSE @]

\* Mutant of Aged: a pending entry that is asked for again starts anew.
AgedPendingAnew(e) ==
    CASE e.state = "EMPTY" -> e
      [] e.state = "PENDING" -> [e EXCEPT !.ctime = 0]
      [] e.state \in Stable /\ Expires(e) -> Blank
      [] e.state \in Stable /\ ~Expires(e) -> Older(e)

\* Mutant of Aged: a stable entry in use does not expire.
AgedInUse(e) ==
    CASE e.state = "EMPTY" -> e
      [] e.state \in {"PENDING", "STABLE"} /\ Expires(e) -> Blank
      [] OTHER -> Older(e)

Aged(e) == IF e.state = "EMPTY" THEN e ELSE IF Expires(e) THEN Blank ELSE Older(e)

\* lwip_timeouts_check finds that the interval is over.
Timer ==
    /\ (g_localtime - arpcurtime) % TimeModulus >= ARP_TMR_INTERVAL
    /\ arpcurtime' = g_localtime
    /\ arp_table' = [i \in Entries |-> Aged(arp_table[i])]
    /\ sent' = {}
    /\ UNCHANGED <<etharp_cached_entry, g_localtime, submitted, delivered, newest>>

\* SysTick_Handler, every 10 ms.
SysTick ==
    /\ g_localtime' = (g_localtime + SYSTEMTICK_PERIOD_MS) % TimeModulus
    /\ sent' = {}
    /\ UNCHANGED <<arp_table, etharp_cached_entry, arpcurtime, submitted, delivered,
                   newest>>

-----------------------------------------------------------------------------
\* etharp_input of a packet in which the host mac says it is ip.

\* The packet that waits on entry i for ip, 0 if none does.
Waiting(ip, i) == IF Matches(ip, i) THEN arp_table[i].q ELSE 0

\* Mutant of Settle: the packet that was sent stays queued.
SettleKeeps(ip, mac, i) ==
    LET q == Waiting(ip, i)
    IN  /\ arp_table' = [arp_table EXCEPT ![i] =
               [state |-> "STABLE", ip |-> ip, mac |-> mac, ctime |-> 0, q |-> q]]
        /\ delivered' = [delivered EXCEPT ![ip] = IF q = 0 THEN @ ELSE q]
        /\ sent' = IF q = 0 THEN {} ELSE {Packet(ip, mac)}

\* etharp_update_arp_entry: the entry becomes stable, and a packet that waited on
\* it is sent; what was queued on an entry that is recycled is lost.
Settle(ip, mac, i) ==
    LET q == Waiting(ip, i)
    IN  /\ arp_table' = [arp_table EXCEPT ![i] =
               [state |-> "STABLE", ip |-> ip, mac |-> mac, ctime |-> 0, q |-> 0]]
        /\ delivered' = [delivered EXCEPT ![ip] = IF q = 0 THEN @ ELSE q]
        /\ sent' = IF q = 0 THEN {} ELSE {Packet(ip, mac)}

\* A packet for the board enters its sender in the cache, any other only updates
\* it.  The answer to a request for the board changes nothing here.
Input(ip, mac, forUs) ==
    /\ newest' = [newest EXCEPT ![ip] = mac]
    /\ \/ \E i \in Entries : /\ Matches(ip, i) \/ (forUs /\ Creates(ip, i))
                             /\ Settle(ip, mac, i)
       \/ /\ NoMatch(ip) /\ ~forUs
          /\ sent' = {}
          /\ UNCHANGED <<arp_table, delivered>>
    /\ UNCHANGED <<etharp_cached_entry, timeVars, submitted>>

-----------------------------------------------------------------------------
\* etharp_output of the next packet to ip.

\* etharp_output_to_arp_index: the packet is sent at once.  If the entry is about
\* to expire and was not asked for lately, it is asked for again, as far as there
\* is memory.
SendTo(ip, i) ==
    /\ \/ /\ In(i, {"STABLE"})
          /\ arp_table[i].ctime >= REREQUEST_UNICAST
          /\ arp_table' = [arp_table EXCEPT ![i].state = "REREQUESTING_1"]
       \/ UNCHANGED arp_table
    /\ sent' = {Packet(ip, arp_table[i].mac)}
    /\ delivered' = [delivered EXCEPT ![ip] = submitted'[ip]]

\* Mutant of CacheHit: the address of the remembered entry is not compared.
CacheHitAnyAddress(ip) ==
    /\ In(etharp_cached_entry, Stable)
    /\ SendTo(ip, etharp_cached_entry)
    /\ UNCHANGED etharp_cached_entry

\* The entry used last is the right one.
CacheHit(ip) ==
    /\ In(etharp_cached_entry, Stable) /\ Matches(ip, etharp_cached_entry)
    /\ SendTo(ip, etharp_cached_entry)
    /\ UNCHANGED etharp_cached_entry

\* Another stable entry is found and remembered.
TableHit(ip) ==
    /\ ~(In(etharp_cached_entry, Stable) /\ Matches(ip, etharp_cached_entry))
    /\ \E i \in Entries : /\ In(i, Stable) /\ Matches(ip, i)
                          /\ SendTo(ip, i)
                          /\ etharp_cached_entry' = i

\* Mutant of Query: the packet stays with its caller and is queued as well.
QuerySendsToo(ip) ==
    /\ \A i \in Entries : ~(In(i, Stable) /\ Matches(ip, i))
    /\ \E i \in Entries :
           /\ Matches(ip, i) \/ Creates(ip, i)
           /\ arp_table' = [arp_table EXCEPT ![i] =
                  IF Matches(ip, i) THEN [@ EXCEPT !.q = submitted'[ip]]
                  ELSE [Blank EXCEPT !.state = "PENDING", !.ip = ip, !.q = submitted'[ip]]]
    /\ sent' = {}
    /\ delivered' = [delivered EXCEPT ![ip] = submitted'[ip]]
    /\ UNCHANGED etharp_cached_entry

\* etharp_query: a pending or a new entry takes the packet, instead of one that
\* it has, if there is memory for its copy.
Query(ip) ==
    /\ \A i \in Entries : ~(In(i, Stable) /\ Matches(ip, i))
    /\ \E i \in Entries, stored \in BOOLEAN :
           LET q == IF stored THEN submitted'[ip] ELSE Waiting(ip, i)
           IN  \/ /\ Matches(ip, i)
                  /\ arp_table' = [arp_table EXCEPT ![i].q = q]
               \/ /\ Creates(ip, i)
                  /\ arp_table' = [arp_table EXCEPT ![i] =
                         [state |-> "PENDING", ip |-> ip, mac |-> ZeroMac, ctime |-> 0, q |-> q]]
    /\ sent' = {}
    /\ UNCHANGED <<etharp_cached_entry, delivered>>

Output(ip) ==
    /\ FoldFunction(+, 0, submitted) < MaxPackets
    /\ submitted' = [submitted EXCEPT ![ip] = @ + 1]
    /\ CacheHit(ip) \/ TableHit(ip) \/ Query(ip)
    /\ UNCHANGED <<timeVars, newest>>

-----------------------------------------------------------------------------
ArpNext ==
    \/ SysTick \/ Timer
    \/ \E ip \in Addrs : Output(ip)
    \/ \E claim \in Claims, forUs \in BOOLEAN : Input(claim[1], claim[2], forUs)

ArpSpec == ArpInit /\ [][ArpNext]_arpVars

\* SysTick comes again and again, and main calls lwip_timeouts_check.
ArpFairSpec == ArpSpec /\ WF_arpVars(SysTick) /\ SF_arpVars(Timer)

-----------------------------------------------------------------------------
\* Type correctness of the cache.
ArpTypeOK ==
    /\ arp_table \in [Entries -> [state : Stable \cup {"EMPTY", "PENDING"},
                                  ip : Addrs \cup {AnyIp}, mac : Macs \cup {ZeroMac},
                                  ctime : 0 .. ARP_MAXAGE - 1, q : Nat]]
    /\ etharp_cached_entry \in Entries
    /\ g_localtime \in 0 .. TimeModulus - 1 /\ arpcurtime \in 0 .. TimeModulus - 1
    /\ submitted \in [Addrs -> Nat] /\ delivered \in [Addrs -> Nat]
    /\ newest \in [Addrs -> Macs \cup {ZeroMac}]

\* An address has one entry at most, although entries are made in two places and
\* recycled; so the search may stop at the first match.
OneEntry == \A i, j \in Entries : ~In(i, {"EMPTY"}) /\ Matches(arp_table[i].ip, j) => i = j

\* Only a pending entry holds a packet, of its own address and one that was not
\* sent; etharp_find_entry asserts it of the stable entry that it recycles.
QueuedWhilePending ==
    \A i \in Entries : arp_table[i].q # 0 =>
        /\ In(i, {"PENDING"})
        /\ arp_table[i].q \in delivered[arp_table[i].ip] + 1 .. submitted[arp_table[i].ip]

\* A packet is sent to the host that was the last to claim its address, whether
\* the entry was remembered, found or just resolved, and whatever was recycled.
RightHost ==
    /\ \A p \in sent : p.mac = newest[p.ip]
    /\ \A i \in Entries : In(i, Stable) => arp_table[i].mac = newest[arp_table[i].ip]

\* Packets to an address leave in the order in which they were given to
\* etharp_output, although some of them wait and others do not; with the invariant
\* above, none of them twice.
ArpQueue(ip) == INSTANCE FrameQueue WITH
    Lossy <- TRUE, Direct <- TRUE, Capacity <- 0,
    offered <- submitted[ip], taken <- delivered[ip]
InOrderStep ==
    \A ip \in Addrs : ArpQueue(ip)!QueueNext \/ UNCHANGED <<submitted[ip], delivered[ip]>>
InOrder == (\A ip \in Addrs : ArpQueue(ip)!QueueInit) /\ [][InOrderStep]_netVars

\* An address does not stay pending: its request is answered or its entry expires,
\* and with it the packet that waits.  It needs etharp_tmr to be called, of which the
\* comment in lwip_timeouts_check says "called periodically to dispatch ARP timers
\* every 1s".
Pending(ip) == \E i \in Entries : In(i, {"PENDING"}) /\ arp_table[i].ip = ip
PendingSettles == \A ip \in Addrs : Pending(ip) ~> ~Pending(ip)
=============================================================================
