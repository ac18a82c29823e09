---------------------------- MODULE EthArpProofs ----------------------------
(***************************************************************************)
(* Proofs about the ARP cache, for every size of the table, every set of   *)
(* hosts and of claims, all ages and every clock.                          *)
(***************************************************************************)
EXTENDS EthArp, TLAPS

\* An entry in use has an address of the network, and what was sent was given to
\* etharp_output before.
Sound ==
    /\ \A i \in Entries : ~In(i, {"EMPTY"}) => arp_table[i].ip \in Addrs
    /\ \A ip \in Addrs : delivered[ip] <= submitted[ip]

\* The inductive invariant of the cache.
ArpInv == ArpTypeOK /\ Sound /\ OneEntry /\ QueuedWhilePending /\ RightHost

\* The zeroed table satisfies it.
LEMMA InitArpInv == ArpInit => ArpInv
  BY ArpAssumption
  DEF ArpInit, ArpInv, ArpTypeOK, Sound, OneEntry, QueuedWhilePending, RightHost, In,
      Matches, Blank, Entries, Stable

\* What becomes of one entry in etharp_tmr: it stays as it was but for its age and
\* its state, which remains pending or stable, or it is cleared.
LEMMA AgedEntry ==
    ASSUME ArpTypeOK, NEW i \in Entries
    PROVE  LET e == arp_table[i]
               a == Aged(e)
           IN  \/ a = Blank
               \/ /\ a.ip = e.ip /\ a.mac = e.mac /\ a.q = e.q
                  /\ a.state # "EMPTY" => e.state # "EMPTY"
                  /\ a.state = "PENDING" <=> e.state = "PENDING"
                  /\ a.state \in Stable <=> e.state \in Stable
                  /\ a \in [state : Stable \cup {"EMPTY", "PENDING"},
                            ip : Addrs \cup {AnyIp}, mac : Macs \cup {ZeroMac},
                            ctime : 0 .. ARP_MAXAGE - 1, q : Nat]
  <1> DEFINE e == arp_table[i]
  <1>1. e \in [state : Stable \cup {"EMPTY", "PENDING"},
               ip : Addrs \cup {AnyIp}, mac : Macs \cup {ZeroMac},
               ctime : 0 .. ARP_MAXAGE - 1, q : Nat]
    BY DEF ArpTypeOK
  <1>2. CASE e.state = "EMPTY"
    BY <1>1, <1>2 DEF Aged, Stable
  <1>3. CASE e.state # "EMPTY" /\ Expires(e)
    BY <1>3 DEF Aged
  <1>4. CASE e.state # "EMPTY" /\ ~Expires(e)
    <2>1. Aged(e) = Older(e)
      BY <1>4 DEF Aged
    <2>2. e.ctime + 1 \in 0 .. ARP_MAXAGE - 1
      BY <1>1, <1>4, ArpAssumption DEF Expires
    <2>3. QED
      BY <1>1, <1>4, <2>1, <2>2 DEF Older, Stable
  <1>5. QED
    BY <1>2, <1>3, <1>4

\* etharp_tmr preserves the invariant.
LEMMA TimerArpInv == ArpInv /\ Timer => ArpInv'
  <1> SUFFICES ASSUME ArpInv, Timer PROVE ArpInv'
    OBVIOUS
  <1>1. \A i \in Entries : arp_table'[i] = Aged(arp_table[i])
    BY DEF Timer
  <1>2. ArpTypeOK'
    <2>1. Blank \in [state : Stable \cup {"EMPTY", "PENDING"},
                     ip : Addrs \cup {AnyIp}, mac : Macs \cup {ZeroMac},
                     ctime : 0 .. ARP_MAXAGE - 1, q : Nat]
      BY ArpAssumption DEF Blank
    <2>2. \A i \in Entries : Aged(arp_table[i]) \in
              [state : Stable \cup {"EMPTY", "PENDING"},
               ip : Addrs \cup {AnyIp}, mac : Macs \cup {ZeroMac},
               ctime : 0 .. ARP_MAXAGE - 1, q : Nat]
      BY <2>1, AgedEntry DEF ArpInv
    <2>3. QED
      BY <2>2 DEF ArpInv, ArpTypeOK, Timer
  <1>3. \A i \in Entries :
            \/ arp_table'[i] = Blank
            \/ /\ arp_table'[i].ip = arp_table[i].ip
               /\ arp_table'[i].mac = arp_table[i].mac
               /\ arp_table'[i].q = arp_table[i].q
               /\ arp_table'[i].state # "EMPTY" => arp_table[i].state # "EMPTY"
               /\ arp_table'[i].state = "PENDING" <=> arp_table[i].state = "PENDING"
               /\ arp_table'[i].state \in Stable <=> arp_table[i].state \in Stable
    BY <1>1, AgedEntry DEF ArpInv
  <1>4. Blank.state = "EMPTY" /\ Blank.q = 0 /\ "EMPTY" \notin Stable
    BY DEF Blank, Stable
  <1>5. UNCHANGED <<submitted, delivered, newest>> /\ sent' = {}
    BY DEF Timer
  <1>6. Sound' /\ OneEntry'
    BY <1>3, <1>4, <1>5 DEF ArpInv, Sound, OneEntry, In, Matches
  <1>7. QueuedWhilePending'
    BY <1>3, <1>4, <1>5 DEF ArpInv, QueuedWhilePending, In
  <1>8. RightHost'
    BY <1>3, <1>4, <1>5 DEF ArpInv, RightHost, In
  <1>9. QED
    BY <1>2, <1>6, <1>7, <1>8 DEF ArpInv

\* SysTick_Handler changes the time only.
LEMMA SysTickArpInv == ArpInv /\ SysTick => ArpInv'
  <1> SUFFICES ASSUME ArpInv, SysTick PROVE ArpInv'
    OBVIOUS
  <1>1. ArpTypeOK'
    BY ArpAssumption DEF ArpInv, ArpTypeOK, SysTick
  <1>2. (Sound /\ OneEntry /\ QueuedWhilePending /\ RightHost)'
    BY DEF ArpInv, Sound, OneEntry, QueuedWhilePending, RightHost, In, Matches, SysTick
  <1>3. QED
    BY <1>1, <1>2 DEF ArpInv

\* What an entry that a packet of the host mac makes stable does to the invariant;
\* ip had this entry or none.
LEMMA SettleArpInv ==
    ASSUME ArpInv, NEW ip \in Addrs, NEW mac \in Macs, NEW i \in Entries,
           Matches(ip, i) \/ NoMatch(ip),
           Settle(ip, mac, i), newest' = [newest EXCEPT ![ip] = mac],
           UNCHANGED <<etharp_cached_entry, timeVars, submitted>>
    PROVE  ArpInv'
  <1> DEFINE q == Waiting(ip, i)
  <1>1. \A j \in Entries \ {i} : ~Matches(ip, j)
    BY DEF ArpInv, OneEntry, NoMatch, Matches, In
  <1>2. /\ \A j \in Entries \ {i} : arp_table'[j] = arp_table[j]
        /\ arp_table'[i] = [state |-> "STABLE", ip |-> ip, mac |-> mac, ctime |-> 0, q |-> 0]
    BY DEF Settle, ArpInv, ArpTypeOK
  <1>3. q \in Nat /\ (q # 0 => q \in delivered[ip] + 1 .. submitted[ip])
    BY DEF Waiting, Matches, ArpInv, ArpTypeOK, QueuedWhilePending
  <1>4. /\ delivered'[ip] = IF q = 0 THEN delivered[ip] ELSE q
        /\ \A a \in Addrs \ {ip} : delivered'[a] = delivered[a]
        /\ delivered' \in [Addrs -> Nat]
    BY <1>3 DEF Settle, ArpInv, ArpTypeOK
  <1>5. newest'[ip] = mac /\ \A a \in Addrs \ {ip} : newest'[a] = newest[a]
    BY DEF ArpInv, ArpTypeOK
  <1>6. ArpTypeOK'
    <2>1. arp_table'[i] \in [state : Stable \cup {"EMPTY", "PENDING"},
                             ip : Addrs \cup {AnyIp}, mac : Macs \cup {ZeroMac},
                             ctime : 0 .. ARP_MAXAGE - 1, q : Nat]
      BY <1>2, ArpAssumption DEF Stable
    <2>2. arp_table' \in [Entries -> [state : Stable \cup {"EMPTY", "PENDING"},
                                      ip : Addrs \cup {AnyIp}, mac : Macs \cup {ZeroMac},
                                      ctime : 0 .. ARP_MAXAGE - 1, q : Nat]]
      BY <1>2, <2>1 DEF Settle, ArpInv, ArpTypeOK
    <2>3. QED
      BY <1>4, <2>2 DEF ArpInv, ArpTypeOK, timeVars
  <1>7. Sound'
    BY <1>2, <1>3, <1>4 DEF ArpInv, ArpTypeOK, Sound, In
  <1>8. OneEntry'
    BY <1>1, <1>2 DEF ArpInv, OneEntry, Matches, In
  <1>9. QueuedWhilePending'
    <2> SUFFICES ASSUME NEW j \in Entries, arp_table'[j].q # 0
                 PROVE  /\ In(j, {"PENDING"})'
                        /\ arp_table'[j].q \in delivered'[arp_table'[j].ip] + 1
                                                 .. submitted'[arp_table'[j].ip]
      BY DEF QueuedWhilePending
    <2>1. j # i /\ arp_table'[j] = arp_table[j]
      BY <1>2
    <2>2. /\ In(j, {"PENDING"})
          /\ arp_table[j].q \in delivered[arp_table[j].ip] + 1 .. submitted[arp_table[j].ip]
      BY <2>1 DEF ArpInv, QueuedWhilePending
    <2>3. arp_table[j].ip \in Addrs \ {ip}
      BY <1>1, <2>1, <2>2 DEF ArpInv, Sound, Matches, In
    <2>4. QED
      BY <1>4, <2>1, <2>2, <2>3 DEF In
  <1>10. RightHost'
    <2>1. \A p \in sent' : p = [ip |-> ip, mac |-> mac]
      BY DEF Settle, Packet
    <2>2. \A p \in sent' : p.mac = newest'[p.ip]
      BY <1>5, <2>1
    <2>3. ASSUME NEW j \in Entries \ {i}, arp_table[j].state \in Stable
          PROVE  arp_table[j].mac = newest'[arp_table[j].ip]
      <3>1. ~In(j, {"EMPTY"})
        BY <2>3 DEF In, Stable
      <3>2. arp_table[j].ip \in Addrs \ {ip}
        BY <1>1, <3>1 DEF ArpInv, Sound, Matches
      <3>3. QED
        BY <1>5, <2>3, <3>2 DEF ArpInv, RightHost, In
    <2>4. \A j \in Entries : arp_table'[j].state \in Stable =>
                                 arp_table'[j].mac = newest'[arp_table'[j].ip]
      BY <1>2, <1>5, <2>3
    <2>5. QED
      BY <2>2, <2>4 DEF RightHost, In
  <1>11. QED
    BY <1>6, <1>7, <1>8, <1>9, <1>10 DEF ArpInv

\* etharp_input preserves the invariant, whoever claims what.
LEMMA InputArpInv ==
    ASSUME ArpInv, NEW claim \in Claims, NEW forUs \in BOOLEAN,
           Input(claim[1], claim[2], forUs)
    PROVE  ArpInv'
  <1> DEFINE ip == claim[1]
             mac == claim[2]
  <1>1. ip \in Addrs /\ mac \in Macs
    BY ArpAssumption
  <1>2. CASE \E i \in Entries : /\ Matches(ip, i) \/ (forUs /\ Creates(ip, i))
                                /\ Settle(ip, mac, i)
    <2>1. PICK i \in Entries : /\ Matches(ip, i) \/ (forUs /\ Creates(ip, i))
                               /\ Settle(ip, mac, i)
      BY <1>2
    <2>2. Matches(ip, i) \/ NoMatch(ip)
      BY <2>1 DEF Creates
    <2>3. newest' = [newest EXCEPT ![ip] = mac]
          /\ UNCHANGED <<etharp_cached_entry, timeVars, submitted>>
      BY DEF Input
    <2>4. QED
      BY <1>1, <2>1, <2>2, <2>3, SettleArpInv
  <1>3. CASE /\ NoMatch(ip) /\ ~forUs
             /\ sent' = {}
             /\ UNCHANGED <<arp_table, delivered>>
    <2>1. /\ UNCHANGED <<arp_table, etharp_cached_entry, timeVars, submitted, delivered>>
          /\ newest' = [newest EXCEPT ![ip] = mac]
      BY <1>3 DEF Input
    <2>2. newest'[ip] = mac /\ \A a \in Addrs \ {ip} : newest'[a] = newest[a]
      BY <1>1, <2>1 DEF ArpInv, ArpTypeOK
    <2>3. ArpTypeOK' /\ Sound' /\ OneEntry' /\ QueuedWhilePending'
      BY <1>1, <2>1
      DEF ArpInv, ArpTypeOK, Sound, OneEntry, QueuedWhilePending, In, Matches, timeVars
    <2>4. RightHost'
      <3>1. ASSUME NEW j \in Entries, arp_table[j].state \in Stable
            PROVE  arp_table[j].mac = newest'[arp_table[j].ip]
        <4>1. ~In(j, {"EMPTY"})
          BY <3>1 DEF In, Stable
        <4>2. arp_table[j].ip \in Addrs \ {ip}
          BY <1>3, <4>1 DEF ArpInv, Sound, NoMatch, Matches
        <4>3. QED
          BY <2>2, <3>1, <4>2 DEF ArpInv, RightHost, In
      <3>2. QED
        BY <1>3, <2>1, <3>1 DEF RightHost, In
    <2>5. QED
      BY <2>3, <2>4 DEF ArpInv
  <1>4. QED
    BY <1>2, <1>3 DEF Input

\* A packet is sent through a stable entry for its address.
LEMMA SendToArpInv ==
    ASSUME ArpInv, NEW ip \in Addrs, NEW i \in Entries,
           In(i, Stable), Matches(ip, i), SendTo(ip, i),
           submitted' = [submitted EXCEPT ![ip] = @ + 1],
           etharp_cached_entry' \in Entries, UNCHANGED <<timeVars, newest>>
    PROVE  ArpInv'
  <1>1. /\ submitted'[ip] = submitted[ip] + 1
        /\ \A a \in Addrs \ {ip} : submitted'[a] = submitted[a]
        /\ submitted' \in [Addrs -> Nat]
    BY DEF ArpInv, ArpTypeOK
  <1>2. /\ delivered'[ip] = submitted[ip] + 1
        /\ \A a \in Addrs \ {ip} : delivered'[a] = delivered[a]
        /\ delivered' \in [Addrs -> Nat]
    BY <1>1 DEF SendTo, ArpInv, ArpTypeOK
  <1>3. \A j \in Entries :
            /\ arp_table'[j].ip = arp_table[j].ip /\ arp_table'[j].mac = arp_table[j].mac
            /\ arp_table'[j].q = arp_table[j].q
            /\ \/ arp_table'[j].state = arp_table[j].state
               \/ /\ arp_table[j].state = "STABLE"
                  /\ arp_table'[j].state = "REREQUESTING_1"
    BY DEF SendTo, In, ArpInv, ArpTypeOK
  <1>4. ArpTypeOK'
    <2>1. arp_table' \in [Entries -> [state : Stable \cup {"EMPTY", "PENDING"},
                                      ip : Addrs \cup {AnyIp}, mac : Macs \cup {ZeroMac},
                                      ctime : 0 .. ARP_MAXAGE - 1, q : Nat]]
      BY DEF SendTo, ArpInv, ArpTypeOK, Stable
    <2>2. QED
      BY <1>1, <1>2, <2>1 DEF ArpInv, ArpTypeOK, timeVars
  <1>5. Sound'
    BY <1>1, <1>2, <1>3 DEF ArpInv, ArpTypeOK, Sound, In
  <1>6. OneEntry'
    BY <1>3 DEF ArpInv, OneEntry, Matches, In
  <1>7. QueuedWhilePending'
    <2> SUFFICES ASSUME NEW j \in Entries, arp_table'[j].q # 0
                 PROVE  /\ In(j, {"PENDING"})'
                        /\ arp_table'[j].q \in delivered'[arp_table'[j].ip] + 1
                                                 .. submitted'[arp_table'[j].ip]
      BY DEF QueuedWhilePending
    <2>1. /\ In(j, {"PENDING"})
          /\ arp_table[j].q \in delivered[arp_table[j].ip] + 1 .. submitted[arp_table[j].ip]
      BY <1>3 DEF ArpInv, QueuedWhilePending
    <2>2. j # i
      BY <2>1 DEF In, Stable
    <2>3. arp_table[j].ip \in Addrs \ {ip}
      BY <2>1, <2>2 DEF ArpInv, Sound, OneEntry, Matches, In
    <2>4. QED
      BY <1>1, <1>2, <1>3, <2>1, <2>3 DEF In
  <1>8. RightHost'
    <2>1. \A p \in sent' : p = [ip |-> ip, mac |-> arp_table[i].mac]
      BY DEF SendTo, Packet
    <2>2. arp_table[i].mac = newest[ip]
      BY DEF ArpInv, RightHost, Matches
    <2>3. QED
      BY <1>3, <2>1, <2>2 DEF ArpInv, RightHost, In, Stable
  <1>9. QED
    BY <1>4, <1>5, <1>6, <1>7, <1>8 DEF ArpInv

\* A packet is queued, or lost for want of memory.
LEMMA QueryArpInv ==
    ASSUME ArpInv, NEW ip \in Addrs, Query(ip),
           submitted' = [submitted EXCEPT ![ip] = @ + 1], UNCHANGED <<timeVars, newest>>
    PROVE  ArpInv'
  <1>1. /\ submitted'[ip] = submitted[ip] + 1
        /\ \A a \in Addrs \ {ip} : submitted'[a] = submitted[a]
        /\ submitted' \in [Addrs -> Nat]
    BY DEF ArpInv, ArpTypeOK
  <1>2. UNCHANGED <<etharp_cached_entry, delivered>> /\ sent' = {}
    BY DEF Query
  <1>3. PICK i \in Entries, stored \in BOOLEAN :
            LET q == IF stored THEN submitted'[ip] ELSE Waiting(ip, i)
            IN  \/ /\ Matches(ip, i)
                   /\ arp_table' = [arp_table EXCEPT ![i].q = q]
                \/ /\ Creates(ip, i)
                   /\ arp_table' = [arp_table EXCEPT ![i] =
                          [state |-> "PENDING", ip |-> ip, mac |-> ZeroMac, ctime |-> 0, q |-> q]]
    BY DEF Query
  <1> DEFINE q == IF stored THEN submitted'[ip] ELSE Waiting(ip, i)
  <1>4. Matches(ip, i) \/ NoMatch(ip)
    BY <1>3 DEF Creates
  <1>5. \A j \in Entries \ {i} : ~Matches(ip, j)
    BY <1>4 DEF ArpInv, OneEntry, NoMatch, Matches, In
  <1>6. q \in Nat /\ (q # 0 => q \in delivered[ip] + 1 .. submitted'[ip])
    BY <1>1 DEF Waiting, Matches, ArpInv, ArpTypeOK, QueuedWhilePending, Sound
  <1>7. /\ \A j \in Entries \ {i} : arp_table'[j] = arp_table[j]
        /\ arp_table'[i].state = "PENDING" /\ arp_table'[i].ip = ip /\ arp_table'[i].q = q
        /\ arp_table' \in [Entries -> [state : Stable \cup {"EMPTY", "PENDING"},
                                       ip : Addrs \cup {AnyIp}, mac : Macs \cup {ZeroMac},
                                       ctime : 0 .. ARP_MAXAGE - 1, q : Nat]]
    <2>1. CASE /\ Matches(ip, i)
               /\ arp_table' = [arp_table EXCEPT ![i].q = q]
      <3>1. arp_table[i].state = "PENDING" /\ arp_table[i].ip = ip
        BY <2>1 DEF Query, Matches, In, ArpInv, ArpTypeOK
      <3>2. QED
        BY <1>6, <2>1, <3>1 DEF ArpInv, ArpTypeOK
    <2>2. CASE /\ Creates(ip, i)
               /\ arp_table' = [arp_table EXCEPT ![i] =
                      [state |-> "PENDING", ip |-> ip, mac |-> ZeroMac, ctime |-> 0, q |-> q]]
      BY <1>6, <2>2, ArpAssumption DEF ArpInv, ArpTypeOK
    <2>3. QED
      BY <1>3, <2>1, <2>2
  <1> HIDE DEF q
  <1>8. ArpTypeOK'
    BY <1>1, <1>2, <1>7 DEF ArpInv, ArpTypeOK, timeVars
  <1>9. Sound'
    BY <1>1, <1>2, <1>7 DEF ArpInv, ArpTypeOK, Sound, In
  <1>10. OneEntry'
    BY <1>5, <1>7 DEF ArpInv, OneEntry, Matches, In
  <1>11. QueuedWhilePending'
    <2> SUFFICES ASSUME NEW j \in Entries, arp_table'[j].q # 0
                 PROVE  /\ In(j, {"PENDING"})'
                        /\ arp_table'[j].q \in delivered'[arp_table'[j].ip] + 1
                                                 .. submitted'[arp_table'[j].ip]
      BY DEF QueuedWhilePending
    <2>1. CASE j = i
      BY <1>2, <1>6, <1>7, <2>1 DEF In
    <2>2. CASE j # i
      <3>1. /\ In(j, {"PENDING"}) /\ arp_table'[j] = arp_table[j]
            /\ arp_table[j].q \in delivered[arp_table[j].ip] + 1
                                    .. submitted[arp_table[j].ip]
        BY <1>7, <2>2 DEF ArpInv, QueuedWhilePending
      <3>2. arp_table[j].ip \in Addrs \ {ip}
        BY <1>5, <2>2, <3>1 DEF ArpInv, Sound, Matches, In
      <3>3. QED
        BY <1>1, <1>2, <3>1, <3>2 DEF In
    <2>3. QED
      BY <2>1, <2>2
  <1>12. RightHost'
    BY <1>2, <1>7 DEF ArpInv, RightHost, In, Stable
  <1>13. QED
    BY <1>8, <1>9, <1>10, <1>11, <1>12 DEF ArpInv

\* etharp_output preserves the invariant.
LEMMA OutputArpInv == ASSUME ArpInv, NEW ip \in Addrs, Output(ip) PROVE ArpInv'
  <1>1. submitted' = [submitted EXCEPT ![ip] = @ + 1] /\ UNCHANGED <<timeVars, newest>>
    BY DEF Output
  <1>2. etharp_cached_entry \in Entries
    BY DEF ArpInv, ArpTypeOK
  <1>3. CASE CacheHit(ip)
    BY <1>1, <1>2, <1>3, SendToArpInv DEF CacheHit
  <1>4. CASE TableHit(ip)
    <2>1. PICK i \in Entries : /\ In(i, Stable) /\ Matches(ip, i)
                               /\ SendTo(ip, i)
                               /\ etharp_cached_entry' = i
      BY <1>4 DEF TableHit
    <2>2. QED
      BY <1>1, <2>1, SendToArpInv
  <1>5. CASE Query(ip)
    BY <1>1, <1>5, QueryArpInv
  <1>6. QED
    BY <1>3, <1>4, <1>5 DEF Output

\* Every step does.
LEMMA NextArpInv == ArpInv /\ [ArpNext]_arpVars => ArpInv'
  <1> SUFFICES ASSUME ArpInv, [ArpNext]_arpVars PROVE ArpInv'
    OBVIOUS
  <1>1. CASE SysTick
    BY <1>1, SysTickArpInv
  <1>2. CASE Timer
    BY <1>2, TimerArpInv
  <1>3. CASE \E ip \in Addrs : Output(ip)
    BY <1>3, OutputArpInv
  <1>4. CASE \E claim \in Claims, forUs \in BOOLEAN : Input(claim[1], claim[2], forUs)
    BY <1>4, InputArpInv
  <1>5. CASE UNCHANGED arpVars
    BY <1>5
    DEF arpVars, timeVars, netVars, ArpInv, ArpTypeOK, Sound, OneEntry, QueuedWhilePending,
        RightHost, In, Matches
  <1>6. QED
    BY <1>1, <1>2, <1>3, <1>4, <1>5 DEF ArpNext

\* The invariant holds of every behaviour.
LEMMA ArpInvariant == ArpSpec => []ArpInv
  <1>1. QED
    BY InitArpInv, NextArpInv, PTL DEF ArpSpec

\* Type correctness of the cache and of the time base.
THEOREM ArpTypeCorrect == ArpSpec => []ArpTypeOK
  <1>1. ArpInv => ArpTypeOK
    BY DEF ArpInv
  <1>2. QED
    BY <1>1, ArpInvariant, PTL

\* etharp_find_entry may stop at the first match: no address ever has two entries.
THEOREM OneEntryHolds == ArpSpec => []OneEntry
  <1>1. ArpInv => OneEntry
    BY DEF ArpInv
  <1>2. QED
    BY <1>1, ArpInvariant, PTL

\* Packets wait on pending entries only, on that of their own address, and none of
\* them has been sent.
THEOREM QueuedPackets == ArpSpec => []QueuedWhilePending
  <1>1. ArpInv => QueuedWhilePending
    BY DEF ArpInv
  <1>2. QED
    BY <1>1, ArpInvariant, PTL

\* A packet goes to the host that claimed its address last, whatever entries were
\* remembered, recycled or replaced in between.
THEOREM RightHostHolds == ArpSpec => []RightHost
  <1>1. ArpInv => RightHost
    BY DEF ArpInv
  <1>2. QED
    BY <1>1, ArpInvariant, PTL

\* Packets to one address leave in order, none twice: for each address the cache
\* implements the abstract queue.
THEOREM PacketsInOrder == ArpSpec => InOrder
  <1>1. ArpInit => \A ip \in Addrs : ArpQueue(ip)!QueueInit
    BY DEF ArpInit, ArpQueue!QueueInit
  <1>2. ASSUME ArpInv, [ArpNext]_arpVars, NEW ip \in Addrs
        PROVE  ArpQueue(ip)!QueueNext \/ UNCHANGED <<submitted[ip], delivered[ip]>>
    <2>1. /\ submitted[ip] \in Nat /\ delivered[ip] \in Nat /\ delivered[ip] <= submitted[ip]
          /\ submitted \in [Addrs -> Nat] /\ delivered \in [Addrs -> Nat]
      BY <1>2 DEF ArpInv, ArpTypeOK, Sound
    <2>2. CASE SysTick \/ Timer \/ UNCHANGED arpVars
      BY <2>2 DEF SysTick, Timer, arpVars, netVars
    <2>3. ASSUME NEW a \in Addrs, Output(a)
          PROVE  ArpQueue(ip)!QueueNext \/ UNCHANGED <<submitted[ip], delivered[ip]>>
      <3>1. submitted'[ip] = IF ip = a THEN submitted[ip] + 1 ELSE submitted[ip]
        BY <2>1, <2>3 DEF Output
      <3>2. CASE Query(a)
        BY <2>1, <3>1, <3>2 DEF Query, ArpQueue!QueueNext, ArpQueue!Offer
      <3>3. CASE CacheHit(a) \/ TableHit(a)
        <4>1. \E i : SendTo(a, i)
          BY <3>3 DEF CacheHit, TableHit
        <4>2. delivered' = [delivered EXCEPT ![a] = submitted'[a]]
          BY <4>1 DEF SendTo
        <4>3. QED
          BY <2>1, <3>1, <4>2 DEF ArpQueue!QueueNext, ArpQueue!Pass
      <3>4. QED
        BY <2>3, <3>2, <3>3 DEF Output
    <2>4. ASSUME NEW claim \in Claims, NEW forUs \in BOOLEAN,
                 Input(claim[1], claim[2], forUs)
          PROVE  ArpQueue(ip)!QueueNext \/ UNCHANGED <<submitted[ip], delivered[ip]>>
      <3> DEFINE a == claim[1]
      <3>1. UNCHANGED submitted
        BY <2>4 DEF Input
      <3>2. CASE UNCHANGED delivered
        BY <3>1, <3>2
      <3>3. CASE \E i \in Entries : Settle(a, claim[2], i)
        <4>1. PICK i \in Entries : Settle(a, claim[2], i)
          BY <3>3
        <4>2. delivered' = [delivered EXCEPT ![a] =
                               IF Waiting(a, i) = 0 THEN @ ELSE Waiting(a, i)]
          BY <4>1 DEF Settle
        <4>3. Waiting(a, i) = 0 \/ Waiting(a, i) \in delivered[a] + 1 .. submitted[a]
          BY <1>2 DEF Waiting, Matches, ArpInv, QueuedWhilePending
        <4>4. CASE ip = a /\ Waiting(a, i) # 0
          <5>1. delivered'[ip] \in delivered[ip] + 1 .. submitted[ip]
            BY <2>1, <4>2, <4>3, <4>4
          <5>2. QED
            BY <2>1, <3>1, <5>1 DEF ArpQueue!QueueNext, ArpQueue!Take
        <4>5. CASE ~(ip = a /\ Waiting(a, i) # 0)
          BY <2>1, <3>1, <4>2, <4>5
        <4>6. QED
          BY <4>4, <4>5
      <3>4. QED
        BY <2>4, <3>2, <3>3 DEF Input
    <2>5. QED
      BY <1>2, <2>2, <2>3, <2>4 DEF ArpNext
  <1>3. ArpInv /\ [ArpNext]_arpVars => [InOrderStep]_netVars
    BY <1>2 DEF InOrderStep
  <1>4. QED
    BY <1>1, <1>3, ArpInvariant, PTL DEF ArpSpec, InOrder
=============================================================================
