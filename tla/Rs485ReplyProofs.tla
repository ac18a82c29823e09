-------------------------- MODULE Rs485ReplyProofs --------------------------
(***************************************************************************)
(* What the receiver of the RS-485 link makes of an answer: no frame is    *)
(* cut, no buffer overflows, and an undamaged answer is recorded before    *)
(* the next poll.  On top of LinkInv (module Rs485LinkProofs).             *)
(***************************************************************************)
EXTENDS Rs485LinkProofs

\* The numbers that the buffer of USART5 is about.
LEMMA BufferNumbers ==
    ASSUME LinkTypeOK
    PROVE  /\ glitches \in Nat /\ RX_BUFFER_SIZE \in Nat
           /\ 0 < RX_BUFFER_SIZE /\ RX_BUFFER_SIZE < 256
           /\ rx["USART5"] \in Seq(Bytes) /\ rx["USART0"] \in Seq(Bytes)
           /\ Len(rx["USART5"]) \in Nat /\ Len(rx["USART0"]) \in Nat
           /\ bus["USART5"] \in [frame : Frames, wait : Nat, sent : Nat]
  <1>1. rx["USART5"] \in Seq(Bytes) /\ rx["USART0"] \in Seq(Bytes)
    BY PortFacts DEF LinkTypeOK
  <1>2. Len(rx["USART5"]) \in Nat /\ Len(rx["USART0"]) \in Nat
    BY <1>1
  <1>3. bus["USART5"] \in [frame : Frames, wait : Nat, sent : Nat]
    BY PortFacts DEF LinkTypeOK
  <1> QED
    BY <1>1, <1>2, <1>3, LinkAssumption, SMT DEF LinkTypeOK

\* A byte of an answer is not noise: it has a place in its frame.
LEMMA AnswerIsNoNoise ==
    ASSUME NEW f, NEW i \in Nat, i > 0
    PROVE  ByteOf(f, i) # Noise
  <1>1. Noise.i = 0 /\ ByteOf(f, i).i = i
    BY DEF Noise, ByteOf
  <1> QED BY <1>1, SMT

\* Noise first, then the answer from its first byte on.
LEMMA HoldsFacts ==
    ASSUME NEW S, NEW r \in Seq(S), NEW f, NEW m \in Nat, NEW g \in Nat, Holds(r, f, m, g)
    PROVE  /\ Len(r) \in Nat /\ m <= Len(r) /\ Len(r) - m <= g
           /\ \A i \in 1 .. Len(r) - m : r[i] = Noise
           /\ \A i \in 1 .. m : r[Len(r) - m + i] = ByteOf(f, i)
  <1> DEFINE noise == Len(r) - m
  <1>0. Len(r) \in Nat
    OBVIOUS
  <1>1. noise \in 0 .. g
    BY DEF Holds
  <1>2. \A i \in 1 .. Len(r) :
            r[i] = IF i <= noise THEN Noise ELSE ByteOf(f, i - noise)
    BY DEF Holds
  <1>3. m <= Len(r) /\ Len(r) - m <= g
    BY <1>0, <1>1, SMT
  <1>4. ASSUME NEW i \in 1 .. noise PROVE r[i] = Noise
    <2>1. i \in 1 .. Len(r) /\ i <= noise
      BY <1>0, <1>1, SMT
    <2> QED BY <1>2, <2>1
  <1>5. ASSUME NEW i \in 1 .. m PROVE r[noise + i] = ByteOf(f, i)
    <2>1. noise + i \in 1 .. Len(r) /\ ~(noise + i <= noise) /\ (noise + i) - noise = i
      BY <1>0, <1>1, SMT
    <2> QED BY <1>2, <2>1
  <1> QED BY <1>0, <1>3, <1>4, <1>5

\* The same of one byte of the answer.
LEMMA HoldsByte ==
    ASSUME NEW S, NEW r \in Seq(S), NEW f, NEW m \in Nat, NEW g \in Nat, Holds(r, f, m, g),
           NEW i \in 1 .. m, NEW k, k = Len(r) - m + i
    PROVE  k \in 1 .. Len(r) /\ r[k] = ByteOf(f, i)
  <1>1. /\ Len(r) \in Nat /\ m <= Len(r)
        /\ \A j \in 1 .. m : r[Len(r) - m + j] = ByteOf(f, j)
    BY HoldsFacts
  <1>2. k \in 1 .. Len(r)
    BY <1>1, SMT
  <1> QED BY <1>1, <1>2

\* A buffer of noise alone holds none of any frame.
LEMMA HoldsNoise ==
    ASSUME NEW S, NEW r \in Seq(S), NEW f, NEW g \in Nat, Len(r) <= g,
           \A i \in 1 .. Len(r) : r[i] = Noise
    PROVE  Holds(r, f, 0, g)
  <1>1. Len(r) - 0 = Len(r) /\ Len(r) \in 0 .. g
    BY SMT
  <1>2. \A i \in 1 .. Len(r) : i <= Len(r)
    BY SMT
  <1> QED BY <1>1, <1>2 DEF Holds

\* And a buffer that holds none of a frame is noise.
LEMMA HoldsNone ==
    ASSUME NEW S, NEW r \in Seq(S), NEW f, NEW g \in Nat, Holds(r, f, 0, g)
    PROVE  Len(r) \in Nat /\ Len(r) <= g /\ \A i \in 1 .. Len(r) : r[i] = Noise
  <1>1. /\ Len(r) \in Nat /\ Len(r) - 0 <= g
        /\ \A i \in 1 .. Len(r) - 0 : r[i] = Noise
    BY HoldsFacts, 0 \in Nat
  <1>2. Len(r) - 0 = Len(r)
    BY <1>1, SMT
  <1> QED BY <1>1, <1>2

\* An empty buffer holds none.
LEMMA HoldsEmpty == ASSUME NEW f, NEW g \in Nat PROVE Holds(<<>>, f, 0, g)
  <1>1. <<>> \in Seq(Bytes) /\ Len(<<>>) = 0
    OBVIOUS
  <1>2. Len(<<>>) <= g /\ \A i \in 1 .. Len(<<>>) : <<>>[i] = Noise
    BY <1>1, SMT
  <1> QED BY <1>1, <1>2, HoldsNoise

\* More noise elsewhere does not change what a buffer holds.
LEMMA HoldsMore ==
    ASSUME NEW r, NEW f, NEW m, NEW g \in Nat, NEW h \in Nat, g <= h, Holds(r, f, m, g)
    PROVE  Holds(r, f, m, h)
  <1>1. \A n : n \in 0 .. g => n \in 0 .. h
    BY SMT
  <1> QED BY <1>1 DEF Holds

\* The next byte of the frame comes in behind the others.
LEMMA HoldsNext ==
    ASSUME NEW S, NEW r \in Seq(S), NEW f, NEW m \in Nat, NEW g \in Nat, Holds(r, f, m, g),
           ByteOf(f, m + 1) \in S
    PROVE  Holds(Append(r, ByteOf(f, m + 1)), f, m + 1, g)
  <1> DEFINE b == ByteOf(f, m + 1)
             s == Append(r, b)
             noise == Len(r) - m
  <1>1. Len(r) \in Nat /\ Len(s) = Len(r) + 1 /\ s[Len(r) + 1] = b
    OBVIOUS
  <1>2. \A i \in 1 .. Len(r) : s[i] = r[i]
    OBVIOUS
  <1>3. noise \in 0 .. g /\ Len(s) - (m + 1) = noise
    BY <1>1, SMT DEF Holds
  <1>4. ASSUME NEW i \in 1 .. Len(s)
        PROVE  s[i] = IF i <= noise THEN Noise ELSE ByteOf(f, i - noise)
    <2>1. CASE i \in 1 .. Len(r)
      BY <1>2, <2>1 DEF Holds
    <2>2. CASE i = Len(r) + 1
      <3>1. ~(i <= noise) /\ i - noise = m + 1
        BY <1>1, <2>2, SMT
      <3> QED BY <1>1, <2>2, <3>1
    <2> QED BY <1>1, <2>1, <2>2, SMT
  <1> HIDE DEF s
  <1> QED BY <1>3, <1>4 DEF Holds

-----------------------------------------------------------------------------
\* At the start the line is quiet.
LEMMA BoundedInit == LinkInit => LineBounded
  <1> SUFFICES ASSUME LinkInit PROVE LineBounded
    OBVIOUS
  <1>1. bus["USART5"] = Quiet
    BY PortFacts DEF LinkInit
  <1> QED BY <1>1, LinkAssumption, SMT DEF LineBounded, Quiet, NoFrame

\* A frame on the line is an answer, of which no more is sent than there is.
LEMMA BoundedNext ==
    ASSUME LinkInv, LineBounded, [LinkNext]_linkVars PROVE LineBounded'
  <1> DEFINE line == bus["USART5"]
             next == bus'["USART5"]
  <1>0. LinkTypeOK
    BY DEF LinkInv
  <1>1. /\ line.sent \in Nat /\ line.frame.n \in Nat /\ REPLY_SIZE \in Nat
        /\ line.sent <= line.frame.n /\ line.frame.n <= REPLY_SIZE
    BY <1>0, Numbers DEF LineBounded
  <1>2. CASE next = line
    BY <1>2 DEF LineBounded
  <1>3. CASE Advance
    <2>1. /\ Silent(line) => next = line
          /\ ~Silent(line) =>
                 /\ next.frame = line.frame
                 /\ next.sent = line.sent \/ next.sent = line.sent + 1
      BY <1>3, AdvanceEffect
    <2>2. ~Silent(line) => line.sent < line.frame.n
      BY <1>1, SMT DEF Silent
    <2> QED BY <1>1, <1>2, <2>1, <2>2, SMT DEF LineBounded
  <1>4. ASSUME NEW p \in Ports, TxEnd(p) PROVE LineBounded'
    <2>1. CASE bus' = [bus EXCEPT !["USART5"] = Quiet]
      <3>1. next = Quiet
        BY <1>0, <2>1, PortFacts DEF LinkTypeOK
      <3> QED BY <1>1, <3>1, SMT DEF LineBounded, Quiet, NoFrame
    <2>2. ASSUME NEW n \in ReplyLengths, NEW ok \in BOOLEAN, NEW w \in 0 .. MaxLatency,
                 bus' = [bus EXCEPT !["USART5"] =
                            [frame |-> [from |-> Heard, n |-> n, ok |-> ok],
                             wait |-> w, sent |-> 0]]
          PROVE  LineBounded'
      <3>1. next.sent = 0 /\ next.frame.n = n
        BY <1>0, <2>2, PortFacts DEF LinkTypeOK
      <3> QED BY <3>1, LinkAssumption, SMT DEF LineBounded
    <2> QED BY <1>2, <1>4, <2>1, <2>2 DEF TxEnd, Answer
  <1>5. ASSUME NEW p \in Ports, EndRx(p) \/ USART_IRQHandler(p) PROVE next = line
    BY <1>5 DEF EndRx, USART_IRQHandler
  <1>6. CASE Chatter
    <2>1. next = line
      BY <1>0, <1>6, PortFacts DEF Chatter, LinkTypeOK
    <2> QED BY <1>2, <2>1
  <1>7. Qwerty_all_Device \/ Glitch \/ SwitchBuffer \/ UNCHANGED linkVars => next = line
    BY DEF Qwerty_all_Device, Glitch, SwitchBuffer, linkVars, hwVars
  <1> QED
    BY <1>2, <1>3, <1>4, <1>5, <1>6, <1>7 DEF LinkNext, Handlers

\* At the start the line is quiet and the buffer empty.
LEMMA CollectingInit == LinkInit => Collecting
  <1> SUFFICES ASSUME LinkInit PROVE Collecting
    OBVIOUS
  <1>1. /\ pend = {"TIMER6"} /\ bus["USART5"] = Quiet /\ transmit["USART5"] = FALSE
        /\ rx["USART5"] = <<>> /\ glitches = 0
    BY PortFacts DEF LinkInit
  <1>2. Silent(bus["USART5"])
    BY <1>1 DEF Silent, Quiet, NoFrame
  <1>3. Buffered(0)
    BY <1>1, HoldsEmpty DEF Buffered
  <1> QED
    BY <1>1, <1>2, <1>3
       DEF Collecting, WhileSending, ByteWaiting, BetweenBytes, AfterAnswer

\* A step that leaves USART5, its line, its buffer and its timer alone.
LEMMA CollectingOther ==
    ASSUME LinkInv, Collecting, UNCHANGED <<pollVars, m0addr>>,
           transmit'["USART5"] = transmit["USART5"], bus'["USART5"] = bus["USART5"],
           timer'["USART5"] = timer["USART5"], rx'["USART5"] = rx["USART5"],
           rdr'["USART5"] = rdr["USART5"], glitches' = glitches,
           \A q \in {"TIMER4", "USART5"} : q \in pend' <=> q \in pend,
           "DMA1_CH6" \in pend' => "DMA1_CH6" \in pend
    PROVE  Collecting'
  <1>1. Heard' = Heard
    BY DEF Heard, pollVars
  <1> QED
    BY <1>1 DEF Collecting, WhileSending, ByteWaiting, BetweenBytes, AfterAnswer,
                Buffered, Silent

\* Time passes: a byte comes off the line before the rx timer runs out.
LEMMA CollectingAdvance == LinkInv /\ Collecting /\ Advance => Collecting'
  <1> SUFFICES ASSUME LinkInv, Collecting, Advance PROVE Collecting'
    OBVIOUS
  <1> DEFINE line == bus["USART5"]
             next == bus'["USART5"]
  <1>0. LinkTypeOK /\ Turns /\ pend = {} /\ LinkTypeOK'
    BY AdvanceType DEF LinkInv, Advance
  <1>1. /\ transmit' = transmit /\ rx' = rx /\ glitches' = glitches
        /\ timer'["USART5"] = IF timer["USART5"] > 0 THEN timer["USART5"] - 1 ELSE 0
        /\ "TIMER4" \in pend' <=> timer["USART5"] = 1
        /\ "USART5" \in pend' <=> Speaks(line) /\ dir["USART5"] = "rx"
    BY AdvanceEffect DEF Advance
  <1>2. /\ Silent(line) => next = line
        /\ ~Silent(line) =>
               /\ next.frame = line.frame
               /\ \/ line.wait > 0 /\ next.wait = line.wait - 1 /\ next.sent = line.sent
                  \/ line.wait = 0 /\ next.wait = 0 /\ next.sent = line.sent + 1
    BY AdvanceEffect
  <1>3. next.frame = line.frame
    BY <1>2
  <1>4. /\ line.wait \in Nat /\ line.sent \in Nat /\ line.frame.n \in Nat
        /\ timer["USART5"] \in Nat /\ GAP_USART5 \in Nat /\ GAP_USART5 >= 2
    BY <1>0, Numbers
  <1>5. WhileSending'
    <2> SUFFICES ASSUME transmit["USART5"] PROVE WhileSending'
      BY <1>1 DEF WhileSending
    <2>1. dir["USART5"] = "tx" /\ Silent(line)
      BY <1>0 DEF Turns
    <2>2. "USART5" \notin pend' /\ next = line
      BY <1>1, <1>2, <2>1
    <2>3. Buffered(0) /\ (Heard # 0 => timer["USART5"] = 0) /\ Heard' = Heard
      BY DEF Collecting, WhileSending, Advance, Heard, pollVars
    <2>4. Heard # 0 => timer'["USART5"] = 0 /\ "TIMER4" \notin pend'
      BY <1>1, <2>3, SMT
    <2> QED BY <1>1, <2>2, <2>3, <2>4 DEF WhileSending, Buffered
  <1>6. ByteWaiting'
    <2> SUFFICES ASSUME ~transmit["USART5"], "USART5" \in pend' PROVE ByteWaiting'
      BY <1>1 DEF ByteWaiting
    <2>1. ~Silent(line) /\ line.wait = 0 /\ dir["USART5"] = "rx"
      BY <1>1 DEF Speaks
    <2>2. next.sent = line.sent + 1 /\ next.wait = 0
      BY <1>2, <1>4, <2>1, SMT
    <2>3. rdr'["USART5"] = ByteOf(line.frame, line.sent + 1)
      BY <2>1, PortFacts DEF Advance, Speaks, ByteOf
    <2>4. Buffered(line.sent) /\ timer["USART5"] = IF line.sent = 0 THEN 0 ELSE GAP_USART5
      BY <1>0, <2>1 DEF Collecting, BetweenBytes
    <2>5. next.sent > 0 /\ next.sent - 1 = line.sent
      BY <1>4, <2>2, SMT
    <2>6. "TIMER4" \notin pend' /\ timer'["USART5"] = IF next.sent = 1 THEN 0 ELSE GAP_USART5 - 1
      BY <1>1, <1>4, <2>2, <2>4, SMT
    <2>7. Holds(rx'["USART5"], next.frame, next.sent - 1, glitches')
      BY <1>1, <1>3, <2>4, <2>5 DEF Buffered
    <2> QED BY <1>3, <2>2, <2>3, <2>5, <2>6, <2>7 DEF ByteWaiting, Buffered
  <1>7. BetweenBytes'
    <2> SUFFICES ASSUME next.sent # next.frame.n, "USART5" \notin pend' PROVE BetweenBytes'
      BY DEF BetweenBytes, Silent
    <2>1. ~Silent(line)
      BY <1>2 DEF Silent
    <2>2. dir["USART5"] = "rx"
      BY <1>0, <2>1, PortFacts DEF Turns, LinkTypeOK
    <2>3. line.wait > 0 /\ next.sent = line.sent
      BY <1>1, <1>2, <1>4, <2>1, <2>2, SMT DEF Speaks
    <2>4. /\ line.sent > 0 => line.wait = 0
          /\ Buffered(line.sent) /\ timer["USART5"] = IF line.sent = 0 THEN 0 ELSE GAP_USART5
      BY <1>0, <2>1 DEF Collecting, BetweenBytes
    <2>5. next.sent = 0 /\ timer["USART5"] = 0
      BY <1>4, <2>3, <2>4, SMT
    <2>6. "TIMER4" \notin pend' /\ timer'["USART5"] = 0
      BY <1>1, <2>5, SMT
    <2>7. Holds(rx'["USART5"], next.frame, next.sent, glitches')
      BY <1>1, <1>3, <2>3, <2>4 DEF Buffered
    <2> QED BY <2>5, <2>6, <2>7, SMT DEF BetweenBytes, Buffered
  <1>8. AfterAnswer'
    <2> SUFFICES ASSUME ~transmit["USART5"], next.sent = next.frame.n, "USART5" \notin pend'
                 PROVE  AfterAnswer'
      BY <1>1 DEF AfterAnswer, Silent
    <2>1. dir["USART5"] = "rx"
      BY <1>0, PortFacts DEF Turns, LinkTypeOK
    <2>2. Silent(line)
      <3> SUFFICES ASSUME ~Silent(line) PROVE FALSE
        OBVIOUS
      <3>1. ~(line.wait = 0)
        BY <1>1, <2>1 DEF Speaks
      <3> QED BY <1>2, <1>3, <3>1 DEF Silent
    <2> QED BY <1>0, <1>1, <1>2, <2>2 DEF Collecting, AfterAnswer, Buffered
  <1> QED BY <1>5, <1>6, <1>7, <1>8 DEF Collecting

\* A poll begins with nothing but noise in the buffer, and after the first one the rx
\* timer is stopped.
LEMMA CollectingQwerty == LinkInv /\ PollInv /\ Qwerty_all_Device => Collecting'
  <1> SUFFICES ASSUME LinkInv, PollInv, Qwerty_all_Device PROVE Collecting'
    OBVIOUS
  <1>0. LinkTypeOK
    BY DEF LinkInv
  <1>1. /\ "USART5" \notin pend /\ "DMA1_CH6" \notin pend /\ "TIMER4" \notin pend
        /\ Silent(bus["USART5"]) /\ OnlyNoise
    BY PollFinds
  <1>2. /\ rx' = rx /\ timer' = timer /\ bus' = bus /\ glitches' = Len(rx["USART5"])
        /\ pend' \subseteq pend /\ transmit'["USART5"]
    BY <1>0, PortFacts
       DEF Qwerty_all_Device, Serve, rxVars, StartTransmit, LinkTypeOK
  <1>3. Heard' # 0 => timer["USART5"] = 0
    BY PollFinds, FirstPollUnheard
  <1>4. Holds(rx["USART5"], bus["USART5"].frame, 0, Len(rx["USART5"]))
    <2>1. rx["USART5"] \in Seq(Bytes) /\ Len(rx["USART5"]) \in Nat
      BY <1>0, BufferNumbers
    <2>2. Len(rx["USART5"]) <= Len(rx["USART5"])
      BY <2>1, SMT
    <2> QED BY <1>1, <2>1, <2>2, HoldsNoise DEF OnlyNoise
  <1> QED
    BY <1>1, <1>2, <1>3, <1>4
       DEF Collecting, WhileSending, ByteWaiting, BetweenBytes, AfterAnswer, Buffered, Silent

\* The request is out: an answer begins with the timer stopped.
LEMMA CollectingTxEnd ==
    ASSUME LinkInv, Collecting, NEW p \in Ports, TxEnd(p)
    PROVE  Collecting'
  <1> DEFINE line == bus["USART5"]
             next == bus'["USART5"]
  <1>0. LinkTypeOK /\ Turns /\ LinkTypeOK'
    BY TxEndType DEF LinkInv
  <1>1. /\ pend' = pend \ {TxDma[p]} /\ TxDma[p] \in pend
        /\ rx' = rx /\ timer' = timer /\ rdr' = rdr /\ glitches' = glitches
        /\ transmit' = [transmit EXCEPT ![p] = FALSE] /\ UNCHANGED <<pollVars, m0addr>>
    BY DEF TxEnd, Serve, rxVars
  <1>2. TxDma[p] \notin {"TIMER4", "USART5"}
    BY DEF TxDma, Ports
  <1>3. CASE p = "USART0" \/ dir["USART5"] # "tx"
    <2>1. bus' = bus
      BY <1>0, <1>3 DEF TxEnd, Turns, Ports
    <2>2. transmit'["USART5"] = transmit["USART5"]
      BY <1>0, <1>1, <1>3, PortFacts DEF LinkTypeOK, Turns, Ports
    <2> QED BY <1>1, <1>2, <2>1, <2>2, CollectingOther
  <1>4. CASE p = "USART5" /\ dir["USART5"] = "tx"
    <2>1. transmit["USART5"] /\ "DMA1_CH6" \in pend /\ ~transmit'["USART5"]
      BY <1>0, <1>1, <1>4, PortFacts DEF Turns, LinkTypeOK
    <2>2. /\ Buffered(0) /\ "USART5" \notin pend'
          /\ Heard # 0 => timer'["USART5"] = 0 /\ "TIMER4" \notin pend'
      BY <1>1, <2>1 DEF Collecting, WhileSending
    <2>3. rx["USART5"] \in Seq(Bytes) /\ glitches \in Nat /\ 0 \in Nat
      BY <1>0, BufferNumbers, SMT
    <2>4. Holds(rx'["USART5"], next.frame, 0, glitches')
      <3>1. /\ Len(rx["USART5"]) <= glitches
            /\ \A i \in 1 .. Len(rx["USART5"]) : rx["USART5"][i] = Noise
        BY <2>2, <2>3, HoldsNone DEF Buffered
      <3> QED BY <1>1, <2>3, <3>1, HoldsNoise
    <2>5. next.sent = 0 /\ (next.sent = next.frame.n \/ Heard # 0)
      <3>1. CASE bus' = [bus EXCEPT !["USART5"] = Quiet]
        <4>1. next = Quiet
          BY <1>0, <3>1, PortFacts DEF LinkTypeOK
        <4> QED BY <4>1 DEF Quiet, NoFrame
      <3>2. ASSUME Heard \in Responders, NEW n, NEW ok, NEW w,
                   bus' = [bus EXCEPT !["USART5"] =
                              [frame |-> [from |-> Heard, n |-> n, ok |-> ok],
                               wait |-> w, sent |-> 0]]
            PROVE  next.sent = 0 /\ Heard # 0
        <4>1. next.sent = 0
          BY <1>0, <3>2, PortFacts DEF LinkTypeOK
        <4> QED BY <3>2, <4>1, LinkAssumption, SMT DEF Devices
      <3> QED BY <1>4, <3>1, <3>2 DEF TxEnd, Answer
    <2>6. ~(next.sent > 0)
      BY <2>5, SMT
    <2> QED
      BY <2>1, <2>2, <2>4, <2>5, <2>6
         DEF Collecting, WhileSending, ByteWaiting, BetweenBytes, AfterAnswer, Buffered, Silent
  <1> QED BY <1>3, <1>4 DEF Ports

\* Noise adds at most one byte.
LEMMA CollectingGlitch == LinkInv /\ Collecting /\ Glitch => Collecting'
  <1> SUFFICES ASSUME LinkInv, Collecting, Glitch PROVE Collecting'
    OBVIOUS
  <1>0. LinkTypeOK /\ Turns /\ pend' = {"USART5"} /\ transmit["USART5"]
    BY DEF LinkInv, Glitch, Turns
  <1>1. /\ rx' = rx /\ timer' = timer /\ bus' = bus /\ transmit' = transmit
        /\ glitches' = glitches + 1 /\ Heard' = Heard
    BY DEF Glitch, rxVars, Heard, pollVars
  <1>2. /\ glitches \in Nat /\ glitches' \in Nat /\ glitches <= glitches'
        /\ rx["USART5"] \in Seq(Bytes) /\ 0 \in Nat
    BY <1>0, <1>1, BufferNumbers, SMT
  <1>3. Buffered(0) /\ (Heard # 0 => timer["USART5"] = 0) /\ Silent(bus["USART5"])
    BY <1>0 DEF Collecting, WhileSending, Turns
  <1>4. Len(rx["USART5"]) < glitches'
    <2>1. Len(rx["USART5"]) \in Nat /\ Len(rx["USART5"]) <= glitches
      BY <1>2, <1>3, HoldsNone DEF Buffered
    <2> QED BY <1>1, <1>2, <2>1, SMT
  <1>5. Holds(rx["USART5"], bus["USART5"].frame, 0, glitches')
    BY <1>2, <1>3, HoldsMore DEF Buffered
  <1> QED
    BY <1>0, <1>1, <1>3, <1>4, <1>5
       DEF Collecting, WhileSending, ByteWaiting, BetweenBytes, AfterAnswer, Buffered, Silent

\* The rx timer runs out only when the line is silent.
LEMMA EndOfAnswer ==
    ASSUME LinkInv, Collecting, "TIMER4" \in pend
    PROVE  /\ "USART5" \notin pend /\ Silent(bus["USART5"])
           /\ Buffered(0) \/ Buffered(bus["USART5"].frame.n)
  BY DEF LinkInv, Turns, Collecting, WhileSending, ByteWaiting, BetweenBytes, AfterAnswer

\* The end of a reception leaves the buffer empty.
LEMMA CollectingEndRx ==
    ASSUME LinkInv, Collecting, NEW p \in Ports, EndRx(p)
    PROVE  Collecting'
  <1>0. LinkTypeOK /\ glitches \in Nat
    BY BufferNumbers DEF LinkInv
  <1>1. /\ pend' = pend \ {RxTimer[p]} /\ RxTimer[p] \in pend
        /\ bus' = bus /\ rdr' = rdr /\ glitches' = glitches /\ transmit' = transmit
        /\ UNCHANGED <<pollVars, m0addr>>
    BY DEF EndRx, Serve
  <1>2. CASE p = "USART0"
    <2>1. /\ rx'["USART5"] = rx["USART5"] /\ timer'["USART5"] = timer["USART5"]
          /\ pend' = pend \ {"TIMER2"}
      BY <1>0, <1>1, <1>2, PortFacts DEF EndRx, LinkTypeOK
    <2> QED BY <1>1, <2>1, CollectingOther
  <1>3. CASE p = "USART5"
    <2>1. rx'["USART5"] = <<>> /\ "TIMER4" \in pend /\ timer'["USART5"] = 0
      BY <1>0, <1>1, <1>3, PortFacts DEF EndRx, LinkTypeOK
    <2>2. "USART5" \notin pend /\ Silent(bus["USART5"])
      BY <2>1, EndOfAnswer
    <2>3. Holds(rx'["USART5"], bus["USART5"].frame, 0, glitches)
      BY <1>0, <2>1, HoldsEmpty
    <2>4. pend' = pend \ {"TIMER4"}
      BY <1>1, <1>3, PortFacts
    <2> QED
      BY <1>1, <2>1, <2>2, <2>3, <2>4
         DEF Collecting, WhileSending, ByteWaiting, BetweenBytes, AfterAnswer, Buffered, Silent
  <1> QED BY <1>2, <1>3 DEF Ports

\* A byte that waits while the board sends is stored behind the noise before it.
LEMMA StoredNoise ==
    ASSUME LinkInv, Roomy, Collecting, transmit["USART5"], "USART5" \in pend
    PROVE  /\ Stored("USART5") = Append(rx["USART5"], Noise)
           /\ Holds(Stored("USART5"), bus["USART5"].frame, 0, glitches)
           /\ Len(Stored("USART5")) < RX_BUFFER_SIZE
  <1> DEFINE r == rx["USART5"]
  <1>0. LinkTypeOK /\ rdr["USART5"] = Noise
    BY DEF LinkInv, Reception
  <1>1. /\ r \in Seq(Bytes) /\ glitches \in Nat
        /\ RX_BUFFER_SIZE \in Nat /\ RX_BUFFER_SIZE < 256
        /\ glitches + REPLY_SIZE < RX_BUFFER_SIZE /\ REPLY_SIZE \in Nat
        /\ Noise \in Bytes
    BY <1>0, BufferNumbers, Numbers, ByteTypes DEF Roomy
  <1>2. Len(r) < glitches /\ Holds(r, bus["USART5"].frame, 0, glitches)
    BY DEF Collecting, WhileSending, Buffered
  <1>3. Len(r) \in Nat /\ \A i \in 1 .. Len(r) : r[i] = Noise
    BY <1>1, <1>2, HoldsNone
  <1>4. Len(r) # 255
    <2>1. \A x, g, s, b \in Nat : x < g /\ g + s < b /\ b < 256 => x # 255
      BY SMT
    <2> QED BY <1>1, <1>2, <1>3, <2>1
  <1>5. Stored("USART5") = Append(r, Noise)
    BY <1>0, <1>4 DEF Stored
  <1>6. Append(r, Noise) \in Seq(Bytes) /\ Len(Append(r, Noise)) = Len(r) + 1
    BY <1>1
  <1>7. \A i \in 1 .. Len(r) + 1 : Append(r, Noise)[i] = Noise
    BY <1>1, <1>3, SMT
  <1>8. Len(Append(r, Noise)) <= glitches /\ Len(Append(r, Noise)) < RX_BUFFER_SIZE
    BY <1>1, <1>2, <1>3, <1>6, SMT
  <1>9. Holds(Append(r, Noise), bus["USART5"].frame, 0, glitches)
    <2>1. \A i \in 1 .. Len(Append(r, Noise)) : Append(r, Noise)[i] = Noise
      BY <1>6, <1>7
    <2> QED BY <1>1, <1>6, <1>8, <2>1, HoldsNoise
  <1> QED BY <1>5, <1>8, <1>9

\* A byte of the answer is stored behind the others, and the buffer is not full.
LEMMA StoredAnswer ==
    ASSUME LinkInv, LineBounded, Roomy, Collecting, ~transmit["USART5"],
           "USART5" \in pend
    PROVE  /\ Holds(Stored("USART5"), bus["USART5"].frame, bus["USART5"].sent, glitches)
           /\ Len(Stored("USART5")) < RX_BUFFER_SIZE
  <1> DEFINE r == rx["USART5"]
             f == bus["USART5"].frame
             n == bus["USART5"].sent
  <1>0. LinkTypeOK
    BY DEF LinkInv
  <1>1. /\ r \in Seq(Bytes) /\ glitches \in Nat
        /\ RX_BUFFER_SIZE \in Nat /\ RX_BUFFER_SIZE < 256
        /\ glitches + REPLY_SIZE < RX_BUFFER_SIZE /\ REPLY_SIZE \in Nat
        /\ n \in Nat /\ f.n \in Nat
    BY <1>0, BufferNumbers, Numbers DEF Roomy
  <1>2. /\ n > 0 /\ rdr["USART5"] = ByteOf(f, n) /\ Holds(r, f, n - 1, glitches)
        /\ n <= f.n /\ f.n <= REPLY_SIZE
    BY DEF Collecting, ByteWaiting, LineBounded, Buffered
  <1>3. n - 1 \in Nat /\ (n - 1) + 1 = n
    BY <1>1, <1>2, SMT
  <1>4. Len(r) \in Nat /\ Len(r) - (n - 1) <= glitches
    <2> HIDE DEF r, f, n
    <2> QED BY <1>1, <1>2, <1>3, HoldsFacts
  <1>5. Len(r) # 255 /\ Len(r) + 1 < RX_BUFFER_SIZE
    <2>1. Len(r) <= glitches + (n - 1)
      BY <1>1, <1>3, <1>4, SMT
    <2>2. n - 1 <= REPLY_SIZE - 1
      BY <1>1, <1>2, SMT
    <2>3. Len(r) + 1 <= glitches + REPLY_SIZE
      BY <1>1, <1>4, <2>1, <2>2, SMT
    <2>4. \A x, m, s, b \in Nat : x + 1 <= m + s /\ m + s < b /\ b < 256
                                 => x # 255 /\ x + 1 < b
      BY SMT
    <2> QED BY <1>1, <1>4, <2>3, <2>4
  <1>6. Stored("USART5") = Append(r, ByteOf(f, n))
    BY <1>2, <1>5 DEF Stored
  <1>7. ByteOf(f, n) \in Bytes
    BY <1>0, <1>2, PortFacts DEF LinkTypeOK
  <1>8. Len(Append(r, ByteOf(f, n))) = Len(r) + 1
    BY <1>1, <1>7
  <1>9. Holds(Append(r, ByteOf(f, n)), f, n, glitches)
    <2> HIDE DEF r, f, n
    <2>1. ByteOf(f, (n - 1) + 1) \in Bytes
      BY <1>3, <1>7
    <2>2. Holds(Append(r, ByteOf(f, (n - 1) + 1)), f, (n - 1) + 1, glitches)
      BY <1>1, <1>2, <1>3, <2>1, HoldsNext
    <2> QED BY <1>3, <2>2
  <1> QED BY <1>5, <1>6, <1>8, <1>9

\* What the handler of USART5 does with a byte, and that it drops none while the answer
\* fits.
LEMMA UsartEffect ==
    ASSUME LinkInv, LineBounded, Roomy, Collecting, USART_IRQHandler("USART5")
    PROVE  /\ "USART5" \in pend /\ pend' = pend \ {"USART5"} /\ "TIMER4" \notin pend
           /\ transmit' = transmit /\ bus' = bus /\ glitches' = glitches
           /\ rx'["USART5"] = Stored("USART5") /\ UNCHANGED <<pollVars, m0addr>>
           /\ timer'["USART5"] = IF transmit["USART5"] THEN timer["USART5"] ELSE GAP_USART5
  <1>0. LinkTypeOK /\ Reception
    BY DEF LinkInv
  <1>1. /\ "USART5" \in pend /\ pend' = pend \ {"USART5"} /\ "TIMER4" \notin pend
        /\ transmit' = transmit /\ bus' = bus /\ glitches' = glitches
        /\ UNCHANGED <<pollVars, m0addr>>
    BY Priorities DEF USART_IRQHandler, Serve
  <1>2. Len(Stored("USART5")) < RX_BUFFER_SIZE
    BY <1>1, StoredNoise, StoredAnswer
  <1>3. Len(Stored("USART5")) \in Nat /\ RX_BUFFER_SIZE \in Nat
    <2>1. Stored("USART5") \in Seq(Bytes)
      BY <1>0, PortFacts DEF LinkTypeOK, Stored
    <2> QED BY <2>1, LinkAssumption
  <1>4. ~StoreAndDrop("USART5")
    BY <1>2, <1>3, SMT DEF StoreAndDrop
  <1>5. CASE StoreWhileTransmitting("USART5")
    BY <1>0, <1>1, <1>5, PortFacts DEF StoreWhileTransmitting, LinkTypeOK
  <1>6. CASE StoreAndRestart("USART5")
    <2>1. ~(timerEn["USART5"] /\ timer["USART5"] = 0)
      BY <1>0, <1>1, Numbers, SMT DEF Reception
    <2> QED BY <1>0, <1>1, <1>6, <2>1, PortFacts DEF StoreAndRestart, LinkTypeOK
  <1> QED BY <1>4, <1>5, <1>6 DEF USART_IRQHandler

\* A received byte.
LEMMA CollectingUsart ==
    ASSUME LinkInv, LineBounded, Roomy, Collecting, NEW p \in Ports, USART_IRQHandler(p)
    PROVE  Collecting'
  <1>0. LinkTypeOK /\ Turns
    BY DEF LinkInv
  <1>1. CASE p = "USART0"
    <2>1. /\ rx'["USART5"] = rx["USART5"] /\ timer'["USART5"] = timer["USART5"]
          /\ pend' = pend \ {"USART0"}
          /\ rdr' = rdr /\ bus' = bus /\ glitches' = glitches /\ transmit' = transmit
          /\ UNCHANGED <<pollVars, m0addr>>
      BY <1>0, <1>1, PortFacts
         DEF USART_IRQHandler, Serve, StoreWhileTransmitting, StoreAndRestart, StoreAndDrop,
             LinkTypeOK
    <2> QED BY <2>1, CollectingOther
  <1>2. CASE p = "USART5"
    <2> DEFINE line == bus["USART5"]
    <2>1. /\ "USART5" \in pend /\ pend' = pend \ {"USART5"} /\ "TIMER4" \notin pend
          /\ transmit' = transmit /\ bus' = bus /\ glitches' = glitches
          /\ rx'["USART5"] = Stored("USART5")
          /\ timer'["USART5"] = IF transmit["USART5"] THEN timer["USART5"] ELSE GAP_USART5
          /\ Heard' = Heard
      BY <1>2, UsartEffect DEF Heard, pollVars
    <2>2. CASE transmit["USART5"]
      <3>1. Holds(rx'["USART5"], line.frame, 0, glitches)
        BY <2>1, <2>2, StoredNoise
      <3>2. Silent(line)
        BY <1>0, <2>2 DEF Turns
      <3> QED
        BY <2>1, <2>2, <3>1, <3>2
           DEF Collecting, WhileSending, ByteWaiting, BetweenBytes, AfterAnswer,
               Buffered, Silent
    <2>3. CASE ~transmit["USART5"]
      <3>1. Holds(rx'["USART5"], line.frame, line.sent, glitches)
        BY <2>1, <2>3, StoredAnswer
      <3>2. line.sent > 0 /\ line.wait = 0
        BY <2>1, <2>3 DEF Collecting, ByteWaiting
      <3>3. line.sent # 0
        BY <3>2, SMT
      <3> QED
        BY <2>1, <2>3, <3>1, <3>2, <3>3
           DEF Collecting, WhileSending, ByteWaiting, BetweenBytes, AfterAnswer,
               Buffered, Silent
    <2> QED BY <2>2, <2>3
  <1> QED BY <1>1, <1>2 DEF Ports

\* As long as an answer fits behind the noise, every step keeps the buffer of USART5 in
\* step with its line; a poll brings it back in step.
LEMMA CollectingNext ==
    ASSUME LinkInv, PollInv, LineBounded, Roomy => Collecting, [LinkNext]_linkVars, Roomy'
    PROVE  Collecting'
  <1>0. LinkTypeOK /\ glitches \in Nat
    BY BufferNumbers DEF LinkInv
  <1>1. CASE Qwerty_all_Device
    BY <1>1, CollectingQwerty
  <1>2. CASE ~Qwerty_all_Device
    <2>1. glitches' \in {glitches, glitches + 1}
      BY <1>2 DEF LinkNext, Handlers, Advance, EndRx, TxEnd, USART_IRQHandler, Chatter, Glitch,
                  SwitchBuffer, linkVars, hwVars
    <2>2. Roomy /\ Collecting
      <3>1. \A g, h, n, b \in Nat : h \in {g, g + 1} /\ h + n < b => g + n < b
        BY SMT
      <3>2. glitches' \in Nat
        BY <1>0, <2>1, SMT
      <3>3. REPLY_SIZE \in Nat /\ RX_BUFFER_SIZE \in Nat
        BY LinkAssumption
      <3>4. glitches' + REPLY_SIZE < RX_BUFFER_SIZE
        BY DEF Roomy
      <3>5. Roomy
        BY <1>0, <2>1, <3>1, <3>2, <3>3, <3>4 DEF Roomy
      <3> QED BY <3>5
    <2>3. CASE Chatter
      <3>1. bus'["USART5"] = bus["USART5"]
        BY <1>0, <2>3, PortFacts DEF Chatter, LinkTypeOK
      <3> QED BY <2>2, <2>3, <3>1, CollectingOther DEF Chatter, rxVars
    <2>4. CASE SwitchBuffer \/ UNCHANGED linkVars
      BY <2>2, <2>4, CollectingOther DEF SwitchBuffer, linkVars, hwVars, rxVars
    <2> QED
      BY <1>2, <2>2, <2>3, <2>4, CollectingAdvance, CollectingTxEnd, CollectingUsart,
         CollectingEndRx, CollectingGlitch
         DEF LinkNext, Handlers
  <1> QED BY <1>1, <1>2

-----------------------------------------------------------------------------
\* The end of a transmission puts a new frame on USART5's line, of which nothing has
\* been sent yet, or leaves the line and the port alone.
LEMMA TxEndEffect ==
    ASSUME LinkInv, NEW p \in Ports, TxEnd(p)
    PROVE  \/ /\ bus' = bus /\ transmit'["USART5"] = transmit["USART5"]
           \/ /\ bus'["USART5"].sent = 0
              /\ \/ bus'["USART5"].frame = NoFrame
                 \/ bus'["USART5"].frame.from = Polled /\ Polled \in Responders
  <1>0. LinkTypeOK /\ Turns /\ transmit' = [transmit EXCEPT ![p] = FALSE]
    BY DEF LinkInv, TxEnd
  <1>1. CASE p = "USART0" \/ dir["USART5"] # "tx"
    <2>1. bus' = bus
      BY <1>0, <1>1 DEF TxEnd, Turns, Ports
    <2>2. transmit'["USART5"] = transmit["USART5"]
      BY <1>0, <1>1, PortFacts DEF LinkTypeOK, Turns, Ports
    <2> QED BY <2>1, <2>2
  <1>2. CASE p = "USART5" /\ dir["USART5"] = "tx"
    <2>1. CASE bus' = [bus EXCEPT !["USART5"] = Quiet]
      <3>1. bus'["USART5"] = Quiet
        BY <1>0, <2>1, PortFacts DEF LinkTypeOK
      <3> QED BY <3>1 DEF Quiet
    <2>2. ASSUME Heard \in Responders, NEW n, NEW ok, NEW w,
                 bus' = [bus EXCEPT !["USART5"] =
                            [frame |-> [from |-> Heard, n |-> n, ok |-> ok],
                             wait |-> w, sent |-> 0]]
          PROVE  /\ bus'["USART5"].sent = 0
                 /\ bus'["USART5"].frame.from = Polled /\ Polled \in Responders
      <3>1. Heard # 0
        BY <2>2, LinkAssumption, SMT DEF Devices
      <3>2. Heard = Polled
        BY <3>1 DEF LinkInv, StartUp, Heard, Polled
      <3> QED BY <1>0, <2>2, <3>2, PortFacts DEF LinkTypeOK
    <2> QED BY <1>2, <2>1, <2>2 DEF TxEnd, Answer
  <1> QED BY <1>1, <1>2 DEF Ports

\* The frame on the line stays the polled device's until the next poll.
LEMMA OriginNext ==
    ASSUME LinkInv, PollInv, AnswerOfPolled, [LinkNext]_linkVars PROVE AnswerOfPolled'
  <1>0. LinkTypeOK
    BY DEF LinkInv
  <1>1. ASSUME UNCHANGED pollVars, bus'["USART5"].frame = bus["USART5"].frame,
               transmit'["USART5"] = transmit["USART5"]
        PROVE  AnswerOfPolled'
    <2>1. Polled' = Polled
      BY <1>1 DEF Polled, pollVars
    <2> QED BY <1>1, <2>1 DEF AnswerOfPolled
  <1>2. CASE Advance
    <2>1. bus'["USART5"].frame = bus["USART5"].frame
      BY <1>2, AdvanceEffect
    <2> QED BY <1>1, <1>2, <2>1 DEF Advance
  <1>3. CASE Qwerty_all_Device
    <2>1. transmit'["USART5"]
      BY <1>0, <1>3, PortFacts DEF Qwerty_all_Device, StartTransmit, LinkTypeOK
    <2> QED BY <2>1 DEF AnswerOfPolled
  <1>4. ASSUME NEW p \in Ports, TxEnd(p) PROVE AnswerOfPolled'
    <2>1. UNCHANGED pollVars /\ Polled' = Polled
      BY <1>4 DEF TxEnd, Polled, pollVars
    <2>2. CASE bus' = bus /\ transmit'["USART5"] = transmit["USART5"]
      BY <1>1, <2>1, <2>2
    <2>3. CASE \/ bus'["USART5"].frame = NoFrame
               \/ bus'["USART5"].frame.from = Polled /\ Polled \in Responders
      BY <2>1, <2>3 DEF AnswerOfPolled
    <2> QED BY <1>4, <2>2, <2>3, TxEndEffect
  <1>5. ASSUME NEW p \in Ports, USART_IRQHandler(p) \/ EndRx(p) PROVE AnswerOfPolled'
    BY <1>1, <1>5 DEF USART_IRQHandler, EndRx
  <1>6. CASE Chatter
    <2>1. bus'["USART5"] = bus["USART5"]
      BY <1>0, <1>6, PortFacts DEF Chatter, LinkTypeOK
    <2> QED BY <1>1, <1>6, <2>1 DEF Chatter
  <1>7. CASE Glitch \/ SwitchBuffer \/ UNCHANGED linkVars
    BY <1>1, <1>7 DEF Glitch, SwitchBuffer, linkVars, hwVars
  <1> QED
    BY <1>2, <1>3, <1>4, <1>5, <1>6, <1>7 DEF LinkNext, Handlers

\* A whole, undamaged answer without noise before it passes the check, and the bit
\* that it sets is its sender's.
LEMMA CheckedAnswer ==
    ASSUME LinkInv, PollInv, Buffered(bus["USART5"].frame.n), glitches = 0,
           bus["USART5"].frame.ok, bus["USART5"].frame.n = REPLY_SIZE, Credited,
           bus["USART5"].frame.from = Polled, Polled \in Responders
    PROVE  bus["USART5"].frame.from \in Check_message_UART(rx["USART5"])
  <1> DEFINE r == rx["USART5"]
             f == bus["USART5"].frame
  <1>0. LinkTypeOK /\ PollTypeOK /\ RoundConsistent /\ GroupRows
    BY DEF LinkInv, PollInv
  <1>1. r \in Seq(Bytes) /\ f.n \in Nat /\ 0 \in Nat /\ Holds(r, f, f.n, 0)
    BY <1>0, BufferNumbers, Numbers DEF Buffered
  <1>2. Len(r) \in Nat /\ f.n <= Len(r) /\ Len(r) - f.n <= 0
    <2> HIDE DEF r, f
    <2> QED BY <1>1, HoldsFacts
  <1>3. Len(r) = f.n /\ Len(r) = REPLY_SIZE /\ Len(r) > 1
    BY <1>1, <1>2, LinkAssumption, SMT
  <1>4. ASSUME NEW i \in 1 .. Len(r) PROVE r[i] = ByteOf(f, i)
    <2>1. i \in 1 .. f.n /\ i = Len(r) - f.n + i
      BY <1>1, <1>2, <1>3, SMT
    <2> HIDE DEF r, f
    <2> QED BY <1>1, <2>1, HoldsByte
  <1>5. r[1].frame = f
    <2>1. 1 \in 1 .. Len(r)
      BY <1>2, <1>3, SMT
    <2>2. r[1] = ByteOf(f, 1)
      <3> HIDE DEF r, f
      <3> QED BY <1>4, <2>1
    <2>3. ByteOf(f, 1).frame = f
      BY DEF ByteOf
    <2> QED BY <2>2, <2>3
  <1>6. CrcOK(r)
    BY <1>3, <1>4, <1>5 DEF CrcOK, ByteOf
  <1>7. Polled # 0
    BY LinkAssumption, SMT DEF Devices
  <1>8. CASE current_BKD < IN_TOTAL_BKD
    <2>1. /\ current_BKD \in Blocks /\ current_BKD <= current_BKD
          /\ current_BKD # IN_TOTAL_BKD
      BY <1>0, <1>8, AddressPlan, SMT DEF PollTypeOK, Slots, Blocks
    <2>2. message_adr[current_BKD] \in {0, AdrBKD(current_device_in_BKDx, current_BKD)}
      BY <1>0, <2>1 DEF RoundConsistent
    <2>3. Polled = AdrBKD(current_device_in_BKDx, current_BKD)
      BY <1>7, <2>2 DEF Polled
    <2> QED
      BY <1>3, <1>6, <1>8, <2>1, <2>3 DEF Check_message_UART, Check_message_BKD
  <1>9. CASE current_BKD = SlotBKHO /\ WarmBKHO_A
    <2>1. Polled = current_device_in_BKHO_A
      BY <1>0, <1>7, <1>9 DEF Polled, GroupRows
    <2> QED
      BY <1>3, <1>6, <1>9, <2>1
         DEF Check_message_UART, Check_message_BKHO_A, WarmBKHO_A, SlotBKHO
  <1> QED BY <1>8, <1>9 DEF Credited

\* An answer that has come in is recorded, or about to be.
LEMMA SeenNext ==
    ASSUME LinkInv, PollInv, LineBounded, Roomy => Collecting, AnswerOfPolled, AnswerSeen,
           [LinkNext]_linkVars
    PROVE  AnswerSeen'
  <1> DEFINE line == bus["USART5"]
             next == bus'["USART5"]
  <1>0. LinkTypeOK /\ Turns /\ LinkTypeOK'
    BY LinkNextType DEF LinkInv
  <1>1. /\ health \in [{0, 1} -> SUBSET Devices] /\ current_tick_tx_eth \in {0, 1}
        /\ timer["USART5"] \in Nat
    BY <1>0, Numbers DEF LinkTypeOK
  <1>a. glitches = 0 => Roomy /\ Collecting
    BY LinkAssumption, SMT DEF Roomy
  \* A step that leaves USART5 and the schedule alone and clears no health bit.
  <1>2. ASSUME UNCHANGED pollVars, bus'["USART5"] = bus["USART5"],
               transmit'["USART5"] = transmit["USART5"], rx'["USART5"] = rx["USART5"],
               timer'["USART5"] = timer["USART5"], glitches' = glitches,
               \A q \in {"TIMER4", "USART5"} : q \in pend' <=> q \in pend,
               \A b \in {0, 1} : health[b] \subseteq health'[b]
        PROVE  AnswerSeen'
    <2>1. Credited' <=> Credited
      BY <1>2 DEF Credited, WarmBKHO_A, pollVars
    <2> QED BY <1>2, <2>1 DEF AnswerSeen, Buffered, Silent
  <1>3. CASE Advance
    <2> SUFFICES ASSUME ~transmit["USART5"], next.sent = next.frame.n, "USART5" \notin pend',
                        next.frame.ok, next.frame.n = REPLY_SIZE, glitches = 0, Credited
                 PROVE  \/ /\ Buffered(bus["USART5"].frame.n)'
                           /\ timer'["USART5"] > 0 \/ "TIMER4" \in pend'
                        \/ next.frame.from \in health[0] \cup health[1]
      BY <1>3 DEF Advance, AnswerSeen, Silent, Credited, WarmBKHO_A, pollVars
    <2>1. /\ timer'["USART5"] = IF timer["USART5"] > 0 THEN timer["USART5"] - 1 ELSE 0
          /\ "TIMER4" \in pend' <=> timer["USART5"] = 1
          /\ "USART5" \in pend' <=> Speaks(line) /\ dir["USART5"] = "rx"
          /\ rx' = rx /\ glitches' = glitches
          /\ Silent(line) => next = line
          /\ ~Silent(line) =>
                 /\ next.frame = line.frame
                 /\ (line.wait > 0 /\ next.sent = line.sent) \/ line.wait = 0
      BY <1>3, AdvanceEffect DEF Advance
    <2>2. dir["USART5"] = "rx"
      BY <1>0, PortFacts DEF Turns, LinkTypeOK
    <2>3. Silent(line)
      BY <2>1, <2>2 DEF Speaks, Silent
    <2>4. pend = {} /\ next = line
      BY <1>3, <2>1, <2>3 DEF Advance
    <2>5. \/ Buffered(line.frame.n) /\ timer["USART5"] > 0
          \/ line.frame.from \in health[0] \cup health[1]
      BY <2>3, <2>4 DEF AnswerSeen
    <2>6. timer["USART5"] > 0 => timer'["USART5"] > 0 \/ "TIMER4" \in pend'
      BY <1>1, <2>1, SMT
    <2> QED BY <2>1, <2>4, <2>5, <2>6 DEF Buffered
  <1>4. CASE Qwerty_all_Device
    <2>1. transmit'["USART5"]
      BY <1>0, <1>4, PortFacts DEF Qwerty_all_Device, StartTransmit, LinkTypeOK
    <2> QED BY <2>1 DEF AnswerSeen
  <1>5. ASSUME NEW p \in Ports, TxEnd(p) PROVE AnswerSeen'
    <2>1. /\ UNCHANGED <<pollVars, rx, timer, glitches, health>>
          /\ \A q \in {"TIMER4", "USART5"} : q \in pend' <=> q \in pend
      BY <1>5 DEF TxEnd, Serve, rxVars, TxDma, Ports
    <2>2. CASE bus' = bus /\ transmit'["USART5"] = transmit["USART5"]
      BY <1>2, <2>1, <2>2
    <2>3. CASE next.sent = 0
      <3>1. REPLY_SIZE # 0
        BY LinkAssumption, SMT
      <3> QED BY <2>3, <3>1 DEF AnswerSeen, Silent
    <2> QED BY <1>5, <2>2, <2>3, TxEndEffect
  <1>6. ASSUME NEW p \in Ports, USART_IRQHandler(p) PROVE AnswerSeen'
    <2>1. CASE p = "USART0"
      <3>1. /\ rx'["USART5"] = rx["USART5"] /\ timer'["USART5"] = timer["USART5"]
            /\ pend' = pend \ {"USART0"}
            /\ UNCHANGED <<pollVars, bus, glitches, transmit, health>>
        BY <1>0, <1>6, <2>1, PortFacts
           DEF USART_IRQHandler, Serve, StoreWhileTransmitting, StoreAndRestart, StoreAndDrop,
               LinkTypeOK
      <3> QED BY <1>2, <3>1
    <2>2. CASE p = "USART5"
      <3>0. transmit' = transmit /\ bus' = bus /\ glitches' = glitches
        BY <1>6 DEF USART_IRQHandler
      <3> SUFFICES ASSUME ~transmit["USART5"], line.sent = line.frame.n, glitches = 0
                   PROVE  Buffered(bus["USART5"].frame.n)' /\ timer'["USART5"] > 0
        BY <3>0 DEF AnswerSeen, Silent
      <3>1. /\ "USART5" \in pend /\ rx'["USART5"] = Stored("USART5")
            /\ timer'["USART5"] = GAP_USART5
        BY <1>6, <1>a, <2>2, UsartEffect
      <3>2. Holds(rx'["USART5"], line.frame, line.sent, glitches)
        BY <1>a, <3>1, StoredAnswer
      <3>3. timer'["USART5"] > 0
        BY <1>0, <3>1, Numbers, SMT
      <3> QED BY <3>0, <3>1, <3>2, <3>3 DEF Buffered
    <2> QED BY <2>1, <2>2 DEF Ports
  <1>7. ASSUME NEW p \in Ports, EndRx(p) PROVE AnswerSeen'
    <2>1. /\ UNCHANGED <<pollVars, bus, glitches, transmit>>
          /\ pend' = pend \ {RxTimer[p]} /\ RxTimer[p] \in pend
          /\ health' = [health EXCEPT ![current_tick_tx_eth] = @ \cup Check_message_UART(rx[p])]
      BY <1>7 DEF EndRx, Serve
    <2>2. \A b \in {0, 1} : health[b] \subseteq health'[b]
      BY <1>1, <2>1
    <2>3. CASE p = "USART0"
      <3>1. /\ rx'["USART5"] = rx["USART5"] /\ timer'["USART5"] = timer["USART5"]
            /\ pend' = pend \ {"TIMER2"}
        BY <1>0, <1>7, <2>1, <2>3, PortFacts DEF EndRx, LinkTypeOK
      <3> QED BY <1>2, <2>1, <2>2, <3>1
    <2>4. CASE p = "USART5"
      <3> SUFFICES ASSUME line.frame.ok, line.frame.n = REPLY_SIZE, glitches = 0, Credited,
                          ~transmit["USART5"]
                   PROVE  line.frame.from \in health'[0] \cup health'[1]
        BY <2>1 DEF AnswerSeen, Silent, Credited, WarmBKHO_A, pollVars
      <3>1. "TIMER4" \in pend
        BY <2>1, <2>4, PortFacts
      <3>2. Silent(line) /\ "USART5" \notin pend
        BY <1>a, <3>1, EndOfAnswer
      <3>3. CASE line.frame.from \in health[0] \cup health[1]
        BY <2>2, <3>3
      <3>4. CASE Buffered(line.frame.n)
        <4>1. line.frame # NoFrame
          BY DEF NoFrame
        <4>2. line.frame.from = Polled /\ Polled \in Responders
          BY <4>1 DEF AnswerOfPolled
        <4>3. line.frame.from \in Check_message_UART(rx["USART5"])
          BY <3>4, <4>2, CheckedAnswer
        <4>4. line.frame.from \in health'[current_tick_tx_eth]
          BY <1>1, <2>1, <2>4, <4>3
        <4> QED BY <1>1, <4>4
      <3> QED BY <3>2, <3>3, <3>4 DEF AnswerSeen
    <2> QED BY <2>3, <2>4 DEF Ports
  <1>8. CASE Chatter
    <2>1. bus'["USART5"] = bus["USART5"]
      BY <1>0, <1>8, PortFacts DEF Chatter, LinkTypeOK
    <2> QED BY <1>2, <1>8, <2>1 DEF Chatter, rxVars
  <1>9. CASE Glitch
    <2>1. glitches' # 0
      BY <1>0, <1>9, BufferNumbers, SMT DEF Glitch
    <2> QED BY <2>1 DEF AnswerSeen
  <1>10. CASE SwitchBuffer \/ UNCHANGED linkVars
    BY <1>2, <1>10 DEF SwitchBuffer, linkVars, hwVars, rxVars
  <1> QED
    BY <1>3, <1>4, <1>5, <1>6, <1>7, <1>8, <1>9, <1>10 DEF LinkNext, Handlers

\* USART0 never transmits, and the handler drops what does not fit.
LEMMA Usart0Next ==
    ASSUME LinkInv, Usart0Guarded, [LinkNext]_linkVars PROVE Usart0Guarded'
  <1>0. LinkTypeOK
    BY DEF LinkInv
  <1>1. CASE Qwerty_all_Device
    <2>1. transmit'["USART0"] = transmit["USART0"] /\ rx' = rx
      BY <1>0, <1>1, PortFacts DEF Qwerty_all_Device, StartTransmit, rxVars, LinkTypeOK
    <2> QED BY <2>1 DEF Usart0Guarded
  <1>2. ASSUME NEW p \in Ports, TxEnd(p) PROVE Usart0Guarded'
    <2>1. ~transmit'["USART0"] /\ rx' = rx
      BY <1>0, <1>2, PortFacts DEF TxEnd, rxVars, LinkTypeOK, Usart0Guarded, Ports
    <2> QED BY <2>1 DEF Usart0Guarded
  <1>3. Len(<<>>) = 0 /\ 0 < RX_BUFFER_SIZE
    BY LinkAssumption, SMT
  <1>4. ASSUME NEW p \in Ports, USART_IRQHandler(p) PROVE Usart0Guarded'
    <2>1. transmit' = transmit
      BY <1>4 DEF USART_IRQHandler
    <2>2. \/ rx'["USART0"] = rx["USART0"] \/ rx'["USART0"] = <<>>
          \/ Len(rx'["USART0"]) < RX_BUFFER_SIZE
      <3>1. CASE p = "USART5"
        BY <1>0, <1>4, <3>1, PortFacts
           DEF USART_IRQHandler, StoreWhileTransmitting, StoreAndRestart, StoreAndDrop, LinkTypeOK
      <3>2. CASE p = "USART0"
        BY <1>0, <1>4, <3>2, PortFacts
           DEF USART_IRQHandler, StoreWhileTransmitting, StoreAndRestart, StoreAndDrop, LinkTypeOK,
               Usart0Guarded
      <3> QED BY <3>1, <3>2 DEF Ports
    <2> QED BY <1>3, <2>1, <2>2 DEF Usart0Guarded
  <1>5. ASSUME NEW p \in Ports, EndRx(p) PROVE Usart0Guarded'
    <2>1. transmit' = transmit /\ (rx'["USART0"] = rx["USART0"] \/ rx'["USART0"] = <<>>)
      BY <1>0, <1>5, PortFacts DEF EndRx, LinkTypeOK, Ports
    <2> QED BY <1>3, <2>1 DEF Usart0Guarded
  <1>6. CASE Advance \/ Chatter \/ Glitch \/ SwitchBuffer \/ UNCHANGED linkVars
    BY <1>6 DEF Advance, Chatter, Glitch, SwitchBuffer, linkVars, rxVars, Usart0Guarded
  <1> QED BY <1>1, <1>2, <1>4, <1>5, <1>6 DEF LinkNext, Handlers

-----------------------------------------------------------------------------
\* From the request to the end of the answer the buffer, the line, the rx timer and
\* the health bits are in step with each other, as long as the answer fits behind the
\* noise of the slot.
THEOREM ReplyInvariant == LinkSpec => []ReplyInv
  <1> DEFINE Answering == /\ LineBounded /\ (Roomy => Collecting)
                          /\ AnswerOfPolled /\ AnswerSeen /\ Usart0Guarded
  <1>1. LinkInit => Answering
    <2> SUFFICES ASSUME LinkInit PROVE AnswerOfPolled /\ AnswerSeen /\ Usart0Guarded
      BY BoundedInit, CollectingInit
    <2>1. /\ bus["USART5"].frame = NoFrame /\ ~transmit["USART0"]
          /\ rx["USART0"] = <<>>
      BY PortFacts DEF LinkInit, Quiet
    <2>2. AnswerOfPolled /\ AnswerSeen
      BY <2>1 DEF AnswerOfPolled, AnswerSeen, NoFrame
    <2>3. Len(<<>>) = 0 /\ 0 < RX_BUFFER_SIZE
      BY LinkAssumption, SMT
    <2> QED BY <2>1, <2>2, <2>3 DEF Usart0Guarded
  <1>2. LinkInv /\ PollInv /\ Answering /\ [LinkNext]_linkVars => Answering'
    BY BoundedNext, CollectingNext, OriginNext, SeenNext, Usart0Next
  <1>3. LinkInv /\ Answering => ReplyInv
    BY DEF ReplyInv
  <1> HIDE DEF Answering
  <1> QED
    BY <1>1, <1>2, <1>3, LinkInvariant, LinkPollInv, PTL DEF LinkSpec

\* Whatever comes in, and for however long: another talker's frames, of any length, never
\* overrun usart0_buffer_rx, and only noise stored while the board transmits overruns
\* usart5_buffer_rx.
THEOREM BuffersInBounds == LinkSpec => []OnlyNoiseOverruns
  <1>1. ReplyInv => OnlyNoiseOverruns
    BY DEF ReplyInv, Usart0Guarded, LinkInv, Reception, OnlyNoise, OnlyNoiseOverruns
  <1> QED BY <1>1, ReplyInvariant, PTL

\* The rx timer of USART5 never cuts a frame: when TIMER4's handler has bytes of an
\* answer before it, and there was room for the answer, it has the whole answer.
THEOREM FramesAreWhole == LinkSpec => []FrameNeverCut
  <1>1. ReplyInv => FrameNeverCut
    <2> DEFINE r == rx["USART5"]
               f == bus["USART5"].frame
    <2> SUFFICES ASSUME LinkInv, Collecting, "TIMER4" \in pend,
                        NEW j \in 1 .. Len(r), r[j] # Noise
                 PROVE  /\ Silent(bus["USART5"]) /\ Len(r) >= f.n
                        /\ \A i \in 1 .. f.n : r[Len(r) - f.n + i] = [frame |-> f, i |-> i]
      BY DEF ReplyInv, FrameNeverCut
    <2>0. LinkTypeOK
      BY DEF LinkInv
    <2>1. r \in Seq(Bytes) /\ glitches \in Nat /\ f.n \in Nat
      BY <2>0, Numbers, BufferNumbers
    <2>2. Silent(bus["USART5"]) /\ (Buffered(0) \/ Buffered(f.n))
      BY EndOfAnswer
    <2>3. ~Buffered(0)
      BY <2>1, HoldsNone DEF Buffered
    <2>4. Holds(r, f, f.n, glitches)
      BY <2>2, <2>3 DEF Buffered
    <2> HIDE DEF r, f
    <2>5. Len(r) \in Nat /\ f.n <= Len(r)
      BY <2>1, <2>4, HoldsFacts
    <2>6. ASSUME NEW i \in 1 .. f.n PROVE r[Len(r) - f.n + i] = [frame |-> f, i |-> i]
      BY <2>1, <2>4, HoldsByte DEF ByteOf
    <2>7. Len(r) >= f.n
      BY <2>1, <2>5, SMT
    <2> QED BY <2>2, <2>6, <2>7 DEF r, f
  <1> QED BY <1>1, ReplyInvariant, PTL

\* An undamaged answer of a BKD or BKHO_A device is in the packet before the next
\* poll.
THEOREM RepliesAreRecorded == LinkSpec => []RecordedInTime
  <1>1. ReplyInv => RecordedInTime
    <2> DEFINE f == bus["USART5"].frame
    <2> SUFFICES ASSUME LinkInv, AnswerSeen, "TIMER6" \in pend, "TIMER4" \notin pend,
                        f.ok, f.n = REPLY_SIZE, glitches = 0, Credited
                 PROVE  f.from \in health[0] \cup health[1]
      BY DEF ReplyInv, RecordedInTime
    <2>0. Polled # 0
      <3> SUFFICES ASSUME Polled = 0 PROVE FALSE
        OBVIOUS
      <3>1. f.n = 0
        BY DEF LinkInv, StartUp, Quiet, NoFrame
      <3> QED BY <3>1, LinkAssumption, SMT
    <2>1. /\ timer["USART5"] = 0 /\ "USART5" \notin pend /\ Silent(bus["USART5"])
          /\ ~transmit["USART5"]
      BY <2>0, EndOfSlot DEF LinkInv, Turns
    <2>2. ~(timer["USART5"] > 0)
      BY <2>1, SMT
    <2> QED BY <2>1, <2>2 DEF AnswerSeen
  <1> QED BY <1>1, ReplyInvariant, PTL
=============================================================================
