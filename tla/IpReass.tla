------------------------------ MODULE IpReass ------------------------------
(***************************************************************************)
(* Reassembly of IP fragments in lwIP (src/core/ipv4/ip4_frag.c) and the   *)
(* pool of receive buffers that it shares with the Ethernet driver.  A     *)
(* frame is taken from the driver, passed through the stack and freed in   *)
(* one pass of main, so it is one step here; only fragments stay.          *)
(*                                                                         *)
(* The network loses, repeats and reorders fragments and may split one     *)
(* datagram in several ways.  Fragments are well formed, and datagrams     *)
(* that are under way at the same time have different identifications.     *)
(* Lengths and offsets count units of 8 bytes.                             *)
(***************************************************************************)
EXTENDS Integers, Sequences, FiniteSets

CONSTANTS
    PBUF_POOL_SIZE,          \* buffers of the pool (10)
    IP_REASS_MAX_PBUFS,      \* buffers that may wait here (10)
    MEMP_NUM_REASSDATA,      \* datagrams that may wait here (5)
    IP_REASS_MAXAGE,         \* calls of ip_reass_tmr that a datagram survives (15)
    TIMEOUT_CHECK_USE_LWIP,  \* main calls sys_check_timeouts; not defined on this
                             \* board, and lwip_timeouts_check has no ip_reass_tmr
    Ids,                     \* source, destination and identification
    DatagramLen,             \* length of a datagram
    BufferLen                \* what fits in one buffer, after the frame's headers

ASSUME ReassAssumption ==
    /\ PBUF_POOL_SIZE \in Nat /\ IP_REASS_MAX_PBUFS \in Nat
    /\ MEMP_NUM_REASSDATA \in Nat \ {0} /\ IP_REASS_MAXAGE \in Nat
    /\ TIMEOUT_CHECK_USE_LWIP \in BOOLEAN
    /\ DatagramLen \in Nat /\ BufferLen \in Nat \ {0}

VARIABLES
    reassdatagrams,          \* the list, newest datagram first
    ip_reass_pbufcount,
    avail,                   \* free buffers of the pool
    passed                   \* the datagram that the last step has passed on, if any

reassVars == <<reassdatagrams, ip_reass_pbufcount, avail, passed>>

-----------------------------------------------------------------------------
\* The fragments of a datagram; all of it in one packet is none.
Fragments ==
    {f \in [id : Ids, start : 0 .. DatagramLen - 1, end : 1 .. DatagramLen] :
        f.start < f.end /\ f.end - f.start < DatagramLen}

IsLast(f) == f.end = DatagramLen

\* pbuf_alloc(PBUF_RAW, len, PBUF_POOL) chains as many buffers as it needs.
Clen(f) == (f.end - f.start + BufferLen - 1) \div BufferLen

\* The buffers of a datagram and of the entries E of a list: buffer k of fragment f.
Held(d)         == UNION {{f} \X (1 .. Clen(f)) : f \in d.frags}
Queued(list, E) == UNION {Held(list[i]) : i \in E}
Pbufs(E)        == Cardinality(Queued(reassdatagrams, E))

Positions == DOMAIN reassdatagrams
Others(f) == {i \in Positions : reassdatagrams[i].id # f.id}
Known(f)  == Others(f) # Positions

\* The list after ip_reass_dequeue_datagram for all of E: the others keep their order.
Place(K, i) == Cardinality({j \in K : j <= i})
Without(E) ==
    LET kept == Positions \ E
    IN  [k \in 1 .. Cardinality(kept) |->
            reassdatagrams[CHOOSE i \in kept : Place(kept, i) = k]]

ReassInit ==
    /\ reassdatagrams = <<>>
    /\ ip_reass_pbufcount = 0
    /\ avail = PBUF_POOL_SIZE
    /\ passed = {}

-----------------------------------------------------------------------------
\* Making room.

\* Mutant of Older: the first entry among equals ("<" for "<=").
OlderFirst(i, j) ==
    \/ reassdatagrams[i].timer < reassdatagrams[j].timer
    \/ reassdatagrams[i].timer = reassdatagrams[j].timer /\ i < j

\* The search prefers the smallest timer, and the last entry among equals.
Older(i, j) ==
    \/ reassdatagrams[i].timer < reassdatagrams[j].timer
    \/ reassdatagrams[i].timer = reassdatagrams[j].timer /\ i > j

\* Mutant of Oldest: the fragment's own datagram may be freed as well.
OldestOfAll(f, E) ==
    /\ E \subseteq Positions
    /\ \A i \in E, j \in Positions \ E : Older(i, j)
    /\ E = Positions \/ Pbufs(E) >= Clen(f)
    /\ \A i \in E : (\A j \in E \ {i} : Older(j, i)) => Pbufs(E \ {i}) < Clen(f)

\* ip_reass_remove_oldest_datagram: the oldest of the other datagrams are freed, one
\* after the other, until f would fit in what they held or none is left.
Oldest(f, E) ==
    /\ E \subseteq Others(f)
    /\ \A i \in E, j \in Others(f) \ E : Older(i, j)
    /\ E = Others(f) \/ Pbufs(E) >= Clen(f)
    /\ \A i \in E : (\A j \in E \ {i} : Older(j, i)) => Pbufs(E \ {i}) < Clen(f)

\* Too many buffers wait; or there is no struct for a new datagram.
Over(f) == ip_reass_pbufcount + Clen(f) > IP_REASS_MAX_PBUFS

\* Mutant of Full: the pool of structs is taken to be one larger.
FullLate(f) == ~Over(f) /\ ~Known(f) /\ Len(reassdatagrams) > MEMP_NUM_REASSDATA

Full(f) == ~Over(f) /\ ~Known(f) /\ Len(reassdatagrams) = MEMP_NUM_REASSDATA

MakesRoom(f, E) == IF Over(f) \/ Full(f) THEN Oldest(f, E) ELSE E = {}

\* f is dropped although others were freed for it.
Refused(f, E) ==
    \/ ip_reass_pbufcount - Pbufs(E) + Clen(f) > IP_REASS_MAX_PBUFS
    \/ Full(f) /\ Pbufs(E) < Clen(f)

-----------------------------------------------------------------------------
\* ip_reass_chain_frag_into_datagram_and_validate.

\* Mutant of Overlaps: only the same fragment is recognised.
OverlapsSame(f) ==
    \E i \in Positions : /\ reassdatagrams[i].id = f.id
                         /\ \E g \in reassdatagrams[i].frags : g.start = f.start

\* f repeats a part of the datagram that is there already.
Overlaps(f) ==
    \E i \in Positions : /\ reassdatagrams[i].id = f.id
                         /\ \E g \in reassdatagrams[i].frags : f.start < g.end /\ g.start < f.end

\* Mutant of Enter: every fragment starts the time of its datagram anew.
EnterRestarts(list, f) ==
    IF \E i \in DOMAIN list : list[i].id = f.id
    THEN [i \in DOMAIN list |->
             IF list[i].id # f.id THEN list[i]
             ELSE [list[i] EXCEPT !.frags = @ \cup {f}, !.lastfrag = @ \/ IsLast(f),
                                  !.timer = IP_REASS_MAXAGE]]
    ELSE <<[id |-> f.id, frags |-> {f}, lastfrag |-> IsLast(f), timer |-> IP_REASS_MAXAGE]>>
         \o list

\* f joins its datagram, or a new one at the front of the list.
Enter(list, f) ==
    IF \E i \in DOMAIN list : list[i].id = f.id
    THEN [i \in DOMAIN list |->
             IF list[i].id # f.id THEN list[i]
             ELSE [list[i] EXCEPT !.frags = @ \cup {f}, !.lastfrag = @ \/ IsLast(f)]]
    ELSE <<[id |-> f.id, frags |-> {f}, lastfrag |-> IsLast(f), timer |-> IP_REASS_MAXAGE]>>
         \o list

\* Mutant of Finished: the datagram need not begin with its first fragment.
FinishedHeadless(d) ==
    /\ d.lastfrag
    /\ \A g \in d.frags : \/ \A h \in d.frags : g.start <= h.start
                          \/ \E h \in d.frags : h.end = g.start

\* The last fragment has been seen, and there is no hole before, between or behind.
Finished(d) ==
    /\ d.lastfrag
    /\ \A g \in d.frags : g.start = 0 \/ \E h \in d.frags : h.end = g.start

-----------------------------------------------------------------------------
\* Steps.

\* Mutant of Free: the buffers of the datagrams that were freed are still counted.
FreeUncounted(E, n) ==
    /\ avail' = avail + Pbufs(E) - n
    /\ ip_reass_pbufcount' = ip_reass_pbufcount + n

\* ip_reass_free_complete_datagram for all of E, after which n buffers are queued.
Free(E, n) ==
    /\ avail' = avail + Pbufs(E) - n
    /\ ip_reass_pbufcount' = ip_reass_pbufcount - Pbufs(E) + n

\* low_level_input gets no buffers: the frame is dropped.
Lost(f) ==
    /\ Clen(f) > avail
    /\ passed' = {}
    /\ UNCHANGED <<reassdatagrams, ip_reass_pbufcount, avail>>

\* ip4_reass gives f back.
Drop(f) ==
    /\ Clen(f) <= avail
    /\ \E E \in SUBSET Positions :
           /\ MakesRoom(f, E)
           /\ Refused(f, E) \/ Overlaps(f)
           /\ reassdatagrams' = Without(E)
           /\ Free(E, 0)
    /\ passed' = {}

\* f is queued.
Queue(f) ==
    /\ Clen(f) <= avail
    /\ \E E \in SUBSET Positions :
           /\ MakesRoom(f, E) /\ ~Refused(f, E) /\ ~Overlaps(f)
           /\ LET list == Enter(Without(E), f)
              IN  /\ \A i \in DOMAIN list : list[i].id = f.id => ~Finished(list[i])
                  /\ reassdatagrams' = list
           /\ Free(E, Clen(f))
    /\ passed' = {}

\* f completes its datagram, which is passed on and freed there.
Complete(f) ==
    /\ Clen(f) <= avail
    /\ \E E \in SUBSET Positions :
           /\ MakesRoom(f, E) /\ ~Refused(f, E) /\ ~Overlaps(f)
           /\ LET list == Enter(Without(E), f)
              IN  \E i \in DOMAIN list : /\ list[i].id = f.id /\ Finished(list[i])
                                         /\ passed' = {list[i]}
           /\ reassdatagrams' = Without(E \cup (Positions \ Others(f)))
           /\ Free(E \cup (Positions \ Others(f)), 0)

\* ip_reass_tmr, where it is called.
ip_reass_tmr ==
    /\ TIMEOUT_CHECK_USE_LWIP
    /\ LET dead == {i \in Positions : reassdatagrams[i].timer = 0}
           left == Without(dead)
       IN  /\ reassdatagrams' = [i \in DOMAIN left |-> [left[i] EXCEPT !.timer = @ - 1]]
           /\ Free(dead, 0)
    /\ passed' = {}

ReassNext ==
    \/ \E f \in Fragments : Lost(f) \/ Drop(f) \/ Queue(f) \/ Complete(f)
    \/ ip_reass_tmr

ReassSpec == ReassInit /\ [][ReassNext]_reassVars

\* Fragments that are taken keep coming in.  Of ip_reass_tmr nothing is assumed: main never
\* calls it on this board.
ReassFairSpec == ReassSpec /\ WF_reassVars(\E f \in Fragments : Queue(f) \/ Complete(f))

-----------------------------------------------------------------------------
Datagrams ==
    [id : Ids, frags : (SUBSET Fragments) \ {{}}, lastfrag : BOOLEAN, timer : 0 .. IP_REASS_MAXAGE]

\* Type correctness; the list fits in MEMP_REASSDATA.
ReassTypeOK ==
    /\ reassdatagrams \in Seq(Datagrams) /\ Len(reassdatagrams) <= MEMP_NUM_REASSDATA
    /\ ip_reass_pbufcount \in 0 .. IP_REASS_MAX_PBUFS
    /\ avail \in 0 .. PBUF_POOL_SIZE

\* No buffer is lost or freed twice, by completion, repetition, eviction or timeout:
\* ip_reass_pbufcount is what is queued, and the pool has all the rest.
Accounted ==
    /\ ip_reass_pbufcount = Pbufs(Positions)
    /\ avail + ip_reass_pbufcount = PBUF_POOL_SIZE

\* The list, which every operation walks, stays well formed:
\* - a datagram has one entry, and the parts of it that wait do not overlap, however
\*   it was split;
Disjoint ==
    /\ \A i, j \in Positions : reassdatagrams[i].id = reassdatagrams[j].id => i = j
    /\ \A i \in Positions : \A g, h \in reassdatagrams[i].frags :
           g # h => g.end <= h.start \/ h.end <= g.start

\* - the fragments of an entry are of its datagram, and IP_REASS_FLAG_LASTFRAG tells of
\*   one that is still there;
OwnFragments ==
    \A i \in Positions :
        LET d == reassdatagrams[i]
        IN  /\ \A g \in d.frags : g.id = d.id
            /\ d.lastfrag => \E g \in d.frags : IsLast(g)

\* - it is ordered by age, oldest last.
AgeOrdered ==
    \A i, j \in Positions : i < j => reassdatagrams[i].timer >= reassdatagrams[j].timer

\* All three of the list that ip4_reass, the eviction and ip_reass_tmr share: one entry
\* per datagram with parts that do not overlap, own fragments, order by age.
WellFormed == Disjoint /\ OwnFragments /\ AgeOrdered

\* The answer to the question that a @todo in ip_reass_remove_oldest_datagram asks, "Can't
\* we simply remove the last datagram in the linked list behind reassdatagrams?": the
\* loop always ends, in one way, and what it frees is the last of the other datagrams.
EvictsLast ==
    \A f \in Fragments : \E E \in SUBSET Positions :
        /\ MakesRoom(f, E)
        /\ \A D \in SUBSET Positions : MakesRoom(f, D) => D = E
        /\ \A i \in E, j \in Others(f) \ E : j < i

\* What is passed on is one whole datagram: each byte of it is in exactly one of
\* the fragments, from the first to the last, and there are at least two (as the
\* second "sanity check" of the validation asserts).
Whole ==
    \A d \in passed :
        /\ \A n \in 0 .. DatagramLen - 1 :
               \E g \in d.frags : /\ n \in g.start .. g.end - 1
                                  /\ \A h \in d.frags : n \in h.start .. h.end - 1 => h = g
        /\ \E g, h \in d.frags : g # h

\* "The datagram 'fraghdr' belongs to is not freed!": whatever is freed for a new
\* fragment, what has arrived of its own datagram stays until the datagram is
\* complete or too old.
OwnKept(f) ==
    \A i \in Positions \ Others(f) : \E j \in DOMAIN reassdatagrams' :
        /\ reassdatagrams'[j].id = f.id
        /\ reassdatagrams[i].frags \subseteq reassdatagrams'[j].frags
KeepsOwn == [][\A f \in Fragments : OwnKept(f) \/ ~(Queue(f) \/ Drop(f))]_reassVars

\* No step makes a datagram that waits younger, though its fragments keep coming in, the
\* list is thinned and others enter it; and every call of ip_reass_tmr makes all of those
\* that it leaves older.  So a datagram survives no more than IP_REASS_MAXAGE calls.
Aging(d, e) == e.timer <= d.timer /\ (ip_reass_tmr => e.timer < d.timer)
OnlyAges ==
    [][\A i \in Positions : \A j \in DOMAIN reassdatagrams' :
           reassdatagrams'[j].id = reassdatagrams[i].id =>
               Aging(reassdatagrams[i], reassdatagrams'[j])]_reassVars

\* "PBUF_POOL_SIZE > IP_REASS_MAX_PBUFS so that the stack is still able to receive
\* packets even if the maximum amount of fragments is enqueued for reassembly": there
\* is a buffer for the next frame, again and again.
StillReceives == []<>(avail > 0)
=============================================================================
