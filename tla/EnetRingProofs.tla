--------------------------- MODULE EnetRingProofs ---------------------------
(***************************************************************************)
(* Proofs about the descriptor rings, for rings of any size of at least    *)
(* two descriptors and any number of frames.                               *)
(***************************************************************************)
EXTENDS EnetRing, TLAPS

-----------------------------------------------------------------------------
\* The window of one side of a ring, whichever ring it is.

\* The chain stays within the ring and goes on to another descriptor.
LEMMA NextOfInRing ==
    ASSUME NEW n \in Nat \ {0, 1}, NEW d \in 0 .. n - 1
    PROVE  NextOf(d, n) \in 0 .. n - 1 /\ NextOf(d, n) # d
  BY DEF NextOf

\* The descriptor at the end of a window is handed to its side.
LEMMA WindowGrows ==
    ASSUME NEW n \in Nat \ {0, 1}, NEW a \in 0 .. n - 1, NEW b \in 0 .. n - 1,
           NEW owner, NEW S, owner \in [0 .. n - 1 -> S], NEW side \in S,
           Window(owner, side, a, b, n), owner[b] # side
    PROVE  Window([owner EXCEPT ![b] = side], side, a, NextOf(b, n), n)
  <1> DEFINE own == [owner EXCEPT ![b] = side]
  <1>1. \A d \in 0 .. n - 1 : own[d] = IF d = b THEN side ELSE owner[d]
    OBVIOUS
  <1>2. own[a] = side
    <2>1. CASE a = b
      BY <1>1, <2>1
    <2>2. CASE a # b
      BY <1>1, <2>2 DEF Window, Within
    <2>3. QED
      BY <2>1, <2>2
  <1>3. a = b => \A d \in 0 .. n - 1 : owner[d] # side
    BY DEF Window, Within
  <1>4. a # b => owner[a] = side
    BY DEF Window, Within
  <1>5. ASSUME NEW d \in 0 .. n - 1
        PROVE  own[d] = side <=> Within(a, d, NextOf(b, n), own[a] = side)
    <2>1. CASE d = b
      BY <1>1, <1>2, <2>1 DEF Within, NextOf
    <2>2. CASE d # b /\ a = b
      BY <1>1, <1>2, <1>3, <2>2 DEF Within, NextOf
    <2>3. CASE d # b /\ a # b
      <3>1. own[d] = side <=> Within(a, d, b, TRUE)
        BY <1>1, <1>4, <2>3 DEF Window
      <3>2. QED
        BY <1>2, <2>3, <3>1 DEF Within, NextOf
    <2>4. QED
      BY <2>1, <2>2, <2>3
  <1>6. QED
    BY <1>5 DEF Window

\* The descriptor at its beginning is handed to the other side.
LEMMA WindowShrinks ==
    ASSUME NEW n \in Nat \ {0, 1}, NEW a \in 0 .. n - 1, NEW b \in 0 .. n - 1,
           NEW owner, NEW S, owner \in [0 .. n - 1 -> S],
           NEW side \in S, NEW other \in S \ {side},
           Window(owner, side, a, b, n), owner[a] = side
    PROVE  Window([owner EXCEPT ![a] = other], side, NextOf(a, n), b, n)
  <1> DEFINE own == [owner EXCEPT ![a] = other]
             c == NextOf(a, n)
  <1>1. \A d \in 0 .. n - 1 : own[d] = IF d = a THEN other ELSE owner[d]
    OBVIOUS
  <1>2. c \in 0 .. n - 1 /\ c # a
    BY NextOfInRing
  <1>3. ASSUME NEW d \in 0 .. n - 1
        PROVE  own[d] = side <=> d # a /\ Within(a, d, b, TRUE)
    BY <1>1 DEF Window
  <1>4. ASSUME NEW d \in 0 .. n - 1
        PROVE  own[d] = side <=> Within(c, d, b, own[c] = side)
    <2>1. CASE c = b
      BY <1>2, <1>3, <2>1 DEF Within, NextOf
    <2>2. CASE c # b
      BY <1>2, <1>3, <2>2 DEF Within, NextOf
    <2>3. QED
      BY <2>1, <2>2
  <1>5. QED
    BY <1>4 DEF Window

-----------------------------------------------------------------------------
\* The inductive invariant.

\* Reception: the DMA has the descriptor in which it will put a second part, and
\* does not suspend before; a descriptor of the program holds a frame.
RxInv ==
    /\ rxOwner \in [RxDescs -> {"dma", "cpu"}] /\ rxDesc \in [RxDescs -> Statuses]
    /\ rxCpu \in RxDescs /\ rxDma \in RxDescs /\ rbu \in BOOLEAN
    /\ arrived \in Numbers /\ second \in {0, arrived}
    /\ Window(rxOwner, "cpu", rxCpu, rxDma, ENET_RXBUF_NUM)
    /\ rbu => second = 0
    /\ second # 0 => rxOwner[rxDma] = "dma"
    /\ \A d \in RxDescs : rxOwner[d] = "cpu" => rxDesc[d].id \in 1 .. arrived

\* Frames that are between lwIP and the line.
InFlight ==
    IF txOwner[txDma] # "dma" THEN 0
    ELSE IF TxNext = txDma THEN ENET_TXBUF_NUM ELSE Ahead(txDma, TxNext, ENET_TXBUF_NUM)

\* Transmission: the descriptors of the DMA hold consecutive frames, the next one
\* to be sent first.
TxInv ==
    /\ txOwner \in [TxDescs -> {"dma", "cpu"}] /\ txFrame \in [TxDescs -> 0 .. MaxReplies]
    /\ txCpu \in TxDescs /\ txDma \in TxDescs /\ tbu \in BOOLEAN
    /\ replies \in 0 .. MaxReplies /\ sent \in 0 .. replies
    /\ Window(txOwner, "dma", txDma, TxNext, ENET_TXBUF_NUM)
    /\ \A d \in TxDescs :
           txOwner[d] = "dma" => txFrame[d] = sent + 1 + Ahead(txDma, d, ENET_TXBUF_NUM)
    /\ replies = sent + InFlight
    /\ pc = "output" => replies < MaxReplies

\* Main: what it knows of its current descriptor and of the pbuf at each point.
MainInv ==
    /\ pc \in {"poll", "length", "copy", "release", "resume", "input", "stack",
               "output", "demand"}
    /\ dropped \in BOOLEAN /\ len \in 0 .. arrived /\ taken \in 0 .. arrived
    /\ p \in [id : 0 .. arrived, ok : BOOLEAN]
    /\ pc \in {"poll", "length", "copy"} => p = Empty
    /\ pc = "length" /\ ~dropped => rxOwner[rxCpu] = "cpu" /\ Valid(rxDesc[rxCpu])
    /\ pc = "copy" =>
           /\ len # 0 => rxOwner[rxCpu] = "cpu" /\ rxDesc[rxCpu].id = len
           /\ ~dropped => len # 0 /\ Valid(rxDesc[rxCpu])
    /\ pc = "release" =>
           \/ p = Null \/ (p = Empty /\ dropped)
           \/ rxOwner[rxCpu] = "cpu" /\ p.id = rxDesc[rxCpu].id
    /\ p.id \in {0, len}
    /\ p.id # 0 /\ ~p.ok => dropped

RingInv == RxInv /\ TxInv /\ MainInv

LEMMA InitRingInv == RingInit => RingInv
  <1> SUFFICES ASSUME RingInit PROVE RingInv
    OBVIOUS
  <1>1. 0 \in RxDescs /\ 0 \in TxDescs /\ 0 \in Numbers
    BY RingAssumption DEF RxDescs, TxDescs, Numbers
  <1>2. rxOwner \in [RxDescs -> {"dma", "cpu"}] /\ rxDesc \in [RxDescs -> Statuses]
    <2>1. Blank \in Statuses
      BY <1>1 DEF Blank, Statuses
    <2>2. QED
      BY <2>1 DEF RingInit
  <1>3. Window(rxOwner, "cpu", rxCpu, rxDma, ENET_RXBUF_NUM)
    BY <1>1 DEF RingInit, RxDescs, Window, Within
  <1>4. RxInv
    <2>1. ~rbu /\ rbu \in BOOLEAN /\ second = 0
      BY DEF RingInit
    <2>2. QED
      BY <1>1, <1>2, <1>3, <2>1 DEF RingInit, RxInv
  <1>5. TxNext = 0
    BY DEF RingInit, TxNext
  <1>6. Window(txOwner, "dma", txDma, TxNext, ENET_TXBUF_NUM)
    BY <1>1, <1>5 DEF RingInit, TxDescs, Window, Within
  <1>7. TxInv
    <2>1. tbu \in BOOLEAN /\ pc # "output"
      BY DEF RingInit
    <2>2. InFlight = 0
      BY <1>1 DEF RingInit, InFlight
    <2>3. QED
      BY <1>1, <1>6, <2>1, <2>2, RingAssumption DEF RingInit, TxInv
  <1>8. MainInv
    <2>1. p \in [id : 0 .. arrived, ok : BOOLEAN] /\ p = Empty /\ p.id = 0
      BY DEF RingInit, Empty
    <2>2. pc = "poll" /\ dropped \in BOOLEAN /\ len = 0 /\ taken = 0 /\ arrived = 0
      BY DEF RingInit
    <2>3. QED
      BY <2>1, <2>2 DEF MainInv
  <1>9. QED
    BY <1>4, <1>7, <1>8 DEF RingInv

-----------------------------------------------------------------------------
\* Steps that do not touch a part of the state.

LEMMA RxKept == ASSUME RxInv, UNCHANGED rxRing PROVE RxInv'
  BY DEF RxInv, rxRing, Window, Within

LEMMA TxKept ==
    ASSUME TxInv, UNCHANGED txRing, pc' = "output" => pc = "output",
           pc' = "demand" <=> pc = "demand"
    PROVE  TxInv'
  <1>1. TxNext' = TxNext
    BY DEF txRing, TxNext
  <1>2. InFlight' = InFlight
    BY <1>1 DEF txRing, InFlight, Ahead
  <1>3. Window(txOwner, "dma", txDma, TxNext, ENET_TXBUF_NUM)'
    BY <1>1 DEF TxInv, txRing, Window, Within
  <1>4. QED
    BY <1>2, <1>3 DEF TxInv, txRing, Ahead

-----------------------------------------------------------------------------
\* The DMA receives.

\* A descriptor is filled with a part of a frame.
LEMMA FillInv ==
    ASSUME RingInv, NEW desc \in Statuses, Fill(desc), rxOwner[rxDma] = "dma",
           arrived' \in Numbers, arrived' >= arrived, desc.id \in 1 .. arrived',
           second' \in {0, arrived'}, rbu' => second' = 0,
           second' # 0 => rxOwner[NextOf(rxDma, ENET_RXBUF_NUM)] = "dma"
    PROVE  RingInv'
  <1> USE RingAssumption
  <1>1. /\ rxOwner \in [0 .. ENET_RXBUF_NUM - 1 -> {"dma", "cpu"}]
        /\ rxCpu \in 0 .. ENET_RXBUF_NUM - 1 /\ rxDma \in 0 .. ENET_RXBUF_NUM - 1
        /\ Window(rxOwner, "cpu", rxCpu, rxDma, ENET_RXBUF_NUM)
    BY DEF RingInv, RxInv, RxDescs
  <1>2. /\ rxOwner' = [rxOwner EXCEPT ![rxDma] = "cpu"]
        /\ rxDesc' = [rxDesc EXCEPT ![rxDma] = desc]
        /\ rxDma' = NextOf(rxDma, ENET_RXBUF_NUM)
        /\ UNCHANGED <<rxCpu, rbu, txRing, mainVars>>
    BY DEF Fill
  <1>3. Window(rxOwner', "cpu", rxCpu, rxDma', ENET_RXBUF_NUM)
    BY <1>1, <1>2, WindowGrows
  <1>4. rxDma' \in RxDescs /\ rxDma' # rxDma
    BY <1>1, <1>2, NextOfInRing DEF RxDescs
  <1>5. Window(rxOwner, "cpu", rxCpu, rxDma, ENET_RXBUF_NUM)'
    BY <1>2, <1>3 DEF Window, Within
  <1>6. RxInv'
    BY <1>1, <1>2, <1>4, <1>5 DEF RingInv, RxInv, RxDescs, Numbers
  <1>7. TxInv'
    BY <1>2, TxKept DEF RingInv, mainVars
  <1>8. rxOwner[rxCpu] = "cpu" =>
            rxOwner'[rxCpu'] = "cpu" /\ rxDesc'[rxCpu'] = rxDesc[rxCpu]
    BY <1>1, <1>2 DEF RingInv, RxInv, RxDescs
  <1>9. MainInv'
    BY <1>2, <1>8 DEF RingInv, MainInv, mainVars, RxInv, Numbers
  <1>10. QED
    BY <1>6, <1>7, <1>9 DEF RingInv

LEMMA RxStoreInv == ASSUME RingInv, RxStore PROVE RingInv'
  <1>1. arrived \in Numbers /\ second = 0 /\ rbu \in BOOLEAN
    BY DEF RingInv, RxInv, RxStore
  <1>2. arrived' = arrived + 1 /\ arrived' \in Numbers /\ second' = 0
    BY <1>1, RingAssumption DEF RxStore, Numbers
  <1>3. PICK e \in BOOLEAN :
            Fill([id |-> arrived', errs |-> e, fdes |-> TRUE, ldes |-> TRUE])
    BY DEF RxStore
  <1>4. /\ [id |-> arrived', errs |-> e, fdes |-> TRUE, ldes |-> TRUE] \in Statuses
        /\ [id |-> arrived', errs |-> e, fdes |-> TRUE, ldes |-> TRUE].id = arrived'
    BY <1>2 DEF Statuses
  <1>5. rxOwner[rxDma] = "dma"
    BY DEF RxStore
  <1>6. arrived' >= arrived /\ arrived' \in 1 .. arrived'
    BY <1>1, <1>2 DEF Numbers
  <1>7. QED
    BY <1>2, <1>3, <1>4, <1>5, <1>6, FillInv

LEMMA RxStoreFirstInv == ASSUME RingInv, RxStoreFirst PROVE RingInv'
  <1>1. arrived \in Numbers /\ second = 0 /\ ~rbu
    BY DEF RingInv, RxInv, RxStoreFirst
  <1>2. arrived' = arrived + 1 /\ arrived' \in Numbers /\ second' = arrived'
    BY <1>1, RingAssumption DEF RxStoreFirst, Numbers
  <1>3. Fill([id |-> arrived', errs |-> FALSE, fdes |-> TRUE, ldes |-> FALSE])
    BY DEF RxStoreFirst
  <1>4. /\ [id |-> arrived', errs |-> FALSE, fdes |-> TRUE, ldes |-> FALSE] \in Statuses
        /\ [id |-> arrived', errs |-> FALSE, fdes |-> TRUE, ldes |-> FALSE].id = arrived'
    BY <1>2 DEF Statuses
  <1>5. rxOwner[rxDma] = "dma" /\ rxOwner[NextOf(rxDma, ENET_RXBUF_NUM)] = "dma"
    BY DEF RxStoreFirst
  <1>6. arrived' >= arrived /\ arrived' \in 1 .. arrived'
    BY <1>1, <1>2 DEF Numbers
  <1>7. rbu' = rbu
    BY <1>3 DEF Fill
  <1>8. QED
    BY <1>1, <1>2, <1>3, <1>4, <1>5, <1>6, <1>7, FillInv

LEMMA RxStoreSecondInv == ASSUME RingInv, RxStoreSecond PROVE RingInv'
  <1>1. /\ arrived \in Numbers /\ second # 0 /\ second = arrived
        /\ rxOwner[rxDma] = "dma"
    BY DEF RingInv, RxInv, RxStoreSecond
  <1>2. arrived' = arrived /\ second' = 0
    BY DEF RxStoreSecond
  <1>3. Fill([id |-> second, errs |-> FALSE, fdes |-> FALSE, ldes |-> TRUE])
    BY DEF RxStoreSecond
  <1>4. /\ [id |-> second, errs |-> FALSE, fdes |-> FALSE, ldes |-> TRUE] \in Statuses
        /\ [id |-> second, errs |-> FALSE, fdes |-> FALSE, ldes |-> TRUE].id = arrived
    BY <1>1 DEF Statuses
  <1>5. arrived' >= arrived /\ arrived \in 1 .. arrived'
    BY <1>1, <1>2 DEF Numbers
  <1>6. QED
    BY <1>1, <1>2, <1>3, <1>4, <1>5, FillInv

\* The DMA suspends, and flushes what arrives then.
LEMMA RxSuspendInv == ASSUME RingInv, RxSuspend \/ RxFlush PROVE RingInv'
  <1>1. /\ UNCHANGED <<rxOwner, rxDesc, rxCpu, rxDma, second, txRing, mainVars>>
        /\ second = 0 /\ rbu' \in BOOLEAN
    BY DEF RingInv, RxInv, RxSuspend, RxFlush
  <1>2. arrived \in Numbers /\ arrived' \in Numbers /\ arrived' >= arrived
    BY RingAssumption DEF RingInv, RxInv, RxSuspend, RxFlush, Numbers
  <1>3. Window(rxOwner, "cpu", rxCpu, rxDma, ENET_RXBUF_NUM)'
    BY <1>1 DEF RingInv, RxInv, Window, Within
  <1>4. RxInv'
    BY <1>1, <1>2, <1>3 DEF RingInv, RxInv, Numbers
  <1>5. TxInv'
    BY <1>1, TxKept DEF RingInv, mainVars
  <1>6. MainInv'
    BY <1>1, <1>2 DEF RingInv, MainInv, mainVars, Numbers
  <1>7. QED
    BY <1>4, <1>5, <1>6 DEF RingInv

-----------------------------------------------------------------------------
\* Main receives.

\* A descriptor is given back.
LEMMA GiveBackInv ==
    ASSUME RxInv, rxOwner[rxCpu] = "cpu", GiveBack,
           rxCpu' = NextOf(rxCpu, ENET_RXBUF_NUM),
           UNCHANGED <<rxDma, rbu, second, arrived>>
    PROVE  RxInv'
  <1> USE RingAssumption
  <1>1. /\ rxOwner \in [0 .. ENET_RXBUF_NUM - 1 -> {"dma", "cpu"}]
        /\ rxCpu \in 0 .. ENET_RXBUF_NUM - 1 /\ rxDma \in 0 .. ENET_RXBUF_NUM - 1
        /\ Window(rxOwner, "cpu", rxCpu, rxDma, ENET_RXBUF_NUM)
    BY DEF RxInv, RxDescs
  <1>2. /\ rxOwner' = [rxOwner EXCEPT ![rxCpu] = "dma"]
        /\ rxDesc' = [rxDesc EXCEPT ![rxCpu] = Blank]
    BY DEF GiveBack
  <1>3. Window([rxOwner EXCEPT ![rxCpu] = "dma"], "cpu", NextOf(rxCpu, ENET_RXBUF_NUM),
               rxDma, ENET_RXBUF_NUM)
    BY <1>1, WindowShrinks
  <1>4. Window(rxOwner, "cpu", rxCpu, rxDma, ENET_RXBUF_NUM)'
    BY <1>2, <1>3 DEF Window, Within
  <1>5. rxCpu' \in RxDescs
    BY <1>1, NextOfInRing DEF RxDescs
  <1>6. Blank \in Statuses
    BY DEF Blank, Statuses, Numbers
  <1>7. QED
    BY <1>1, <1>2, <1>4, <1>5, <1>6 DEF RxInv, RxDescs

\* Steps of main that leave both rings alone.
LEMMA MainStepInv ==
    ASSUME RingInv,
           PollNone \/ PollFrame \/ ReadLength \/ CopyFrame \/ ReleaseBusy \/ Input
             \/ NextTurn
    PROVE  RingInv'
  <1> USE DEF PollNone, PollFrame, ReadLength, CopyFrame, ReleaseBusy, Input, NextTurn
  <1>1. UNCHANGED <<rxRing, txRing>> /\ pc' \notin {"output", "demand"} /\ pc # "demand"
    OBVIOUS
  <1>2. RxInv'
    BY <1>1, RxKept DEF RingInv
  <1>3. TxInv'
    BY <1>1, TxKept DEF RingInv
  <1>4. /\ UNCHANGED <<rxOwner, rxDesc, rxCpu, arrived>>
        /\ rxOwner[rxCpu] \in {"dma", "cpu"} /\ rxDesc[rxCpu] \in Statuses
        /\ rxOwner[rxCpu] = "cpu" => rxDesc[rxCpu].id \in 1 .. arrived
    BY <1>1 DEF RingInv, RxInv, rxRing
  <1>5. arrived \in Nat
    BY DEF RingInv, RxInv, Numbers
  <1>6. Empty \in [id : 0 .. arrived, ok : BOOLEAN] /\ Empty.id = 0
        /\ Null \in [id : 0 .. arrived, ok : BOOLEAN] /\ Null.id = 0 /\ Empty.ok
    BY <1>5 DEF Empty, Null
  <1>7. CASE PollNone
    BY <1>1, <1>2, <1>3, <1>4, <1>7 DEF RingInv, MainInv
  <1>8. CASE PollFrame
    BY <1>1, <1>2, <1>3, <1>4, <1>8 DEF RingInv, MainInv
  <1>9. CASE ReadLength
    <2>1. len' \in 0 .. arrived /\ p = Empty /\ UNCHANGED <<dropped, p, taken>>
      BY <1>4, <1>5, <1>9 DEF RingInv, MainInv
    <2>2. /\ len' # 0 => rxOwner[rxCpu] = "cpu" /\ rxDesc[rxCpu].id = len'
          /\ ~dropped => len' # 0 /\ Valid(rxDesc[rxCpu])
      BY <1>4, <1>5, <1>9 DEF RingInv, MainInv
    <2>3. MainInv'
      BY <1>4, <1>6, <1>9, <2>1, <2>2 DEF RingInv, MainInv
    <2>4. QED
      BY <1>2, <1>3, <2>3 DEF RingInv
  <1>10. CASE CopyFrame
    <2>1. UNCHANGED <<dropped, len, taken>>
      BY <1>10
    <2>2. CASE p' = Null
      BY <1>2, <1>3, <1>4, <1>6, <1>10, <2>1, <2>2 DEF RingInv, MainInv
    <2>3. CASE len = 0 /\ p' = Empty
      BY <1>2, <1>3, <1>4, <1>6, <1>10, <2>1, <2>3 DEF RingInv, MainInv
    <2>4. CASE len # 0 /\ p' = [id |-> rxDesc[rxCpu].id, ok |-> Valid(rxDesc[rxCpu])]
      <3>1. rxOwner[rxCpu] = "cpu" /\ rxDesc[rxCpu].id = len
            /\ (~dropped => Valid(rxDesc[rxCpu]))
        BY <1>10, <2>4 DEF RingInv, MainInv
      <3>2. Valid(rxDesc[rxCpu]) \in BOOLEAN
        BY <1>4 DEF Valid, Statuses
      <3>3. /\ p'.id = rxDesc[rxCpu].id /\ (p'.ok <=> Valid(rxDesc[rxCpu]))
            /\ p' \in [id : 0 .. arrived, ok : BOOLEAN]
        BY <1>4, <1>5, <2>4, <3>1, <3>2
      <3>4. MainInv'
        BY <1>4, <1>10, <2>1, <3>1, <3>3 DEF RingInv, MainInv
      <3>5. QED
        BY <1>2, <1>3, <3>4 DEF RingInv
    <2>5. QED
      BY <1>10, <2>2, <2>3, <2>4
  <1>11. CASE ReleaseBusy
    BY <1>2, <1>3, <1>4, <1>11 DEF RingInv, MainInv
  <1>12. CASE Input
    <2>1. taken' \in 0 .. arrived /\ UNCHANGED <<dropped, len, p>>
      BY <1>5, <1>12 DEF RingInv, MainInv
    <2>2. MainInv'
      BY <1>4, <1>12, <2>1 DEF RingInv, MainInv
    <2>3. QED
      BY <1>2, <1>3, <2>2 DEF RingInv
  <1>13. CASE NextTurn
    <2>1. pc' = "poll" /\ dropped' \in BOOLEAN /\ len' = 0 /\ p' = Empty /\ UNCHANGED taken
      BY <1>13
    <2>2. MainInv'
      BY <1>4, <1>5, <1>6, <2>1 DEF RingInv, MainInv
    <2>3. QED
      BY <1>2, <1>3, <2>2 DEF RingInv
  <1>14. QED
    BY <1>7, <1>8, <1>9, <1>10, <1>11, <1>12, <1>13

\* Steps of main that give a descriptor back, or let the DMA go on.
LEMMA RxReleaseInv == ASSUME RingInv, PollDrop \/ Release \/ Resume PROVE RingInv'
  <1> USE DEF PollDrop, Release, Resume
  <1>1. RxInv'
    <2>1. CASE PollDrop \/ Release
      BY <2>1, GiveBackInv DEF RingInv
    <2>2. CASE Resume
      <3>1. UNCHANGED <<rxOwner, rxDesc, rxCpu, rxDma, second, arrived>>
            /\ rbu' \in BOOLEAN /\ ~rbu'
        BY <2>2
      <3>2. Window(rxOwner, "cpu", rxCpu, rxDma, ENET_RXBUF_NUM)'
        BY <3>1 DEF RingInv, RxInv, Window, Within
      <3>3. QED
        BY <3>1, <3>2 DEF RingInv, RxInv
    <2>3. QED
      BY <2>1, <2>2
  <1>2. TxInv'
    <2>1. UNCHANGED txRing /\ pc' \notin {"output", "demand"} /\ pc # "demand"
      OBVIOUS
    <2>2. QED
      BY <2>1, TxKept DEF RingInv
  <1>3. MainInv'
    <2>1. CASE PollDrop
      <3>1. pc' = "length" /\ dropped' /\ dropped' \in BOOLEAN /\ pc = "poll"
            /\ UNCHANGED <<len, p, taken, arrived>>
        BY <2>1
      <3>2. QED
        BY <3>1 DEF RingInv, MainInv
    <2>2. CASE Release \/ Resume
      <3>1. pc' \in {"resume", "input"} /\ UNCHANGED <<dropped, len, p, taken, arrived>>
        BY <2>2
      <3>2. QED
        BY <3>1 DEF RingInv, MainInv
    <2>3. QED
      BY <2>1, <2>2
  <1>4. QED
    BY <1>1, <1>2, <1>3 DEF RingInv

-----------------------------------------------------------------------------
\* Transmission.

\* If the DMA has no descriptor, the two sides have met.
LEMMA TxEmpty ==
    ASSUME TxInv, txOwner[txDma] # "dma"
    PROVE  TxNext = txDma /\ \A d \in TxDescs : txOwner[d] # "dma"
  <1>1. TxNext \in 0 .. ENET_TXBUF_NUM - 1
    BY RingAssumption, NextOfInRing DEF TxInv, TxNext, TxDescs
  <1>2. TxNext = txDma
    BY <1>1, RingAssumption DEF TxInv, TxDescs, Window, Within
  <1>3. QED
    BY <1>2, RingAssumption DEF TxInv, TxDescs, Window, Within

\* The DMA sends the oldest of the frames under way, and they are fewer by one.
LEMMA TxSendInv == ASSUME RingInv, TxSend PROVE RingInv' /\ sent' = sent + 1
  <1> DEFINE n == ENET_TXBUF_NUM
             c == NextOf(txDma, ENET_TXBUF_NUM)
  <1> USE RingAssumption
  <1>1. /\ txOwner \in [0 .. n - 1 -> {"dma", "cpu"}] /\ txOwner[txDma] = "dma"
        /\ txDma \in 0 .. n - 1 /\ txCpu \in 0 .. n - 1 /\ n \in Nat \ {0, 1}
        /\ sent \in Nat /\ replies \in Nat
    BY DEF RingInv, TxInv, TxDescs, TxSend
  <1>2. TxNext \in 0 .. n - 1 /\ TxNext' = TxNext /\ c \in 0 .. n - 1 /\ c # txDma
    BY <1>1, NextOfInRing DEF TxNext, TxSend, mainVars
  <1>3. /\ txOwner' = [txOwner EXCEPT ![txDma] = "cpu"] /\ txDma' = c
        /\ sent' = txFrame[txDma]
        /\ UNCHANGED <<rxRing, txFrame, txCpu, tbu, replies, mainVars>>
    BY DEF TxSend
  <1>4. sent' = sent + 1
    BY <1>1, <1>3 DEF RingInv, TxInv, TxDescs, Ahead
  <1>5. Window([txOwner EXCEPT ![txDma] = "cpu"], "dma", c, TxNext, n)
    BY <1>1, <1>2, WindowShrinks DEF RingInv, TxInv
  <1>6. Window(txOwner, "dma", txDma, TxNext, n)'
    BY <1>2, <1>3, <1>5 DEF Window, Within
  <1>7. InFlight = 1 + InFlight'
    <2>1. InFlight = IF TxNext = txDma THEN n ELSE Ahead(txDma, TxNext, n)
      BY <1>1 DEF InFlight
    <2>2. CASE TxNext = c
      <3>1. txOwner'[c] # "dma"
        <4>1. txOwner[c] # "dma"
          BY <1>1, <1>2, <2>2 DEF RingInv, TxInv, Window, Within
        <4>2. QED
          BY <1>1, <1>2, <1>3, <4>1
      <3>2. InFlight' = 0
        BY <1>3, <3>1 DEF InFlight
      <3>3. QED
        BY <1>1, <1>2, <2>1, <2>2, <3>2 DEF Ahead, NextOf
    <2>3. CASE TxNext # c
      <3>1. txOwner'[c] = "dma"
        <4>1. Within(c, c, TxNext, TRUE)
          BY <1>1, <1>2, <2>3 DEF Within
        <4>2. QED
          BY <1>2, <1>3, <1>5, <2>3 DEF Window, Within
      <3>2. InFlight' = Ahead(c, TxNext, n)
        BY <1>2, <1>3, <2>3, <3>1 DEF InFlight, Ahead
      <3>3. QED
        BY <1>1, <1>2, <2>1, <2>3, <3>2 DEF Ahead, NextOf
    <2>4. QED
      BY <2>2, <2>3
  <1>8. InFlight' \in Nat
    BY <1>1, <1>2, <1>3 DEF InFlight, Ahead
  <1>9. sent' \in 0 .. replies' /\ replies' = sent' + InFlight'
    <2>1. replies = sent + InFlight /\ replies' = replies
      BY <1>3 DEF RingInv, TxInv
    <2>2. PICK k \in Nat : k = InFlight'
      BY <1>8
    <2>3. InFlight = 1 + k
      BY <1>7, <2>2
    <2>4. replies = sent + (1 + k)
      BY <2>1, <2>3
    <2>5. replies' = sent' + k /\ sent' \in 0 .. replies'
      BY <1>1, <1>4, <2>1, <2>4
    <2>6. QED
      BY <2>2, <2>5
  <1>10. ASSUME NEW d \in TxDescs, txOwner'[d] = "dma"
         PROVE  txFrame'[d] = sent' + 1 + Ahead(txDma', d, n)
    <2>1. d # txDma /\ txOwner[d] = "dma"
      BY <1>1, <1>3, <1>10 DEF TxDescs
    <2>2. txFrame[d] = sent + 1 + Ahead(txDma, d, n)
      BY <2>1 DEF RingInv, TxInv
    <2>3. QED
      BY <1>1, <1>3, <1>4, <2>1, <2>2 DEF Ahead, NextOf, TxDescs
  <1>11. TxInv'
    BY <1>1, <1>2, <1>3, <1>6, <1>9, <1>10 DEF RingInv, TxInv, TxDescs, Ahead, mainVars
  <1>12. RxInv'
    BY <1>3, RxKept DEF RingInv
  <1>13. MainInv'
    BY <1>3 DEF RingInv, MainInv, mainVars, rxRing
  <1>14. QED
    BY <1>4, <1>11, <1>12, <1>13 DEF RingInv

\* low_level_output gives the DMA one frame more; the ring was not full.
LEMMA LowLevelOutputInv ==
    ASSUME RingInv, LowLevelOutput
    PROVE  RingInv' /\ replies - sent < ENET_TXBUF_NUM
  <1> DEFINE n == ENET_TXBUF_NUM
             c == NextOf(txCpu, ENET_TXBUF_NUM)
  <1> USE RingAssumption
  <1>1. /\ txOwner \in [0 .. n - 1 -> {"dma", "cpu"}] /\ txOwner[txCpu] = "cpu"
        /\ txFrame \in [0 .. n - 1 -> 0 .. MaxReplies]
        /\ txDma \in 0 .. n - 1 /\ txCpu \in 0 .. n - 1 /\ n \in Nat \ {0, 1}
        /\ sent \in Nat /\ replies \in Nat /\ replies < MaxReplies /\ sent <= replies
    BY DEF RingInv, TxInv, TxDescs, LowLevelOutput
  <1>2. /\ txFrame' = [txFrame EXCEPT ![txCpu] = replies + 1]
        /\ txOwner' = [txOwner EXCEPT ![txCpu] = "dma"]
        /\ replies' = replies + 1 /\ pc = "output" /\ pc' = "demand"
        /\ UNCHANGED <<rxRing, txCpu, txDma, tbu, sent, dropped, len, p, taken>>
    BY DEF LowLevelOutput
  <1>3. TxNext = txCpu /\ TxNext' = c /\ c \in 0 .. n - 1 /\ c # txCpu
    BY <1>1, <1>2, NextOfInRing DEF TxNext
  <1>4. Window([txOwner EXCEPT ![txCpu] = "dma"], "dma", txDma, c, n)
    BY <1>1, <1>3, WindowGrows DEF RingInv, TxInv
  <1>5. Window(txOwner, "dma", txDma, TxNext, n)'
    BY <1>2, <1>3, <1>4 DEF Window, Within
  <1>6. txOwner[txDma] = "dma" <=> txDma # txCpu
    <2>1. txOwner[txDma] # "dma" => txDma = txCpu
      BY <1>3, TxEmpty DEF RingInv
    <2>2. QED
      BY <1>1, <2>1
  <1>7. InFlight = IF txDma = txCpu THEN 0 ELSE Ahead(txDma, txCpu, n)
    BY <1>3, <1>6 DEF InFlight
  <1>8. InFlight = Ahead(txDma, txCpu, n) /\ InFlight \in 0 .. n - 1
    BY <1>1, <1>7 DEF Ahead
  <1>9. InFlight' = InFlight + 1
    <2>1. txOwner'[txDma] = "dma"
      BY <1>1, <1>2, <1>6
    <2>2. InFlight' = IF c = txDma THEN n ELSE Ahead(txDma, c, n)
      BY <1>2, <1>3, <2>1 DEF InFlight, Ahead
    <2>3. QED
      BY <1>1, <1>8, <2>2 DEF Ahead, NextOf
  <1>10. replies = sent + InFlight
    BY DEF RingInv, TxInv
  <1>11. replies' = sent' + InFlight' /\ replies' \in 0 .. MaxReplies
         /\ sent' \in 0 .. replies' /\ replies - sent < n
    <2>1. PICK k \in 0 .. n - 1 : k = InFlight
      BY <1>8
    <2>2. replies = sent + k /\ InFlight' = k + 1
      BY <1>9, <1>10, <2>1
    <2>3. replies' = sent' + (k + 1) /\ replies - sent < n
      BY <1>1, <1>2, <2>1, <2>2
    <2>4. replies' \in 0 .. MaxReplies /\ sent' \in 0 .. replies'
      BY <1>1, <1>2
    <2>5. QED
      BY <2>2, <2>3, <2>4
  <1>12. ASSUME NEW d \in TxDescs, txOwner'[d] = "dma"
         PROVE  txFrame'[d] = sent' + 1 + Ahead(txDma', d, n)
    <2>1. CASE d = txCpu
      <3>1. txFrame'[d] = replies + 1
        BY <1>1, <1>2, <2>1
      <3>2. QED
        BY <1>1, <1>2, <1>8, <1>10, <2>1, <3>1 DEF Ahead
    <2>2. CASE d # txCpu
      <3>1. txOwner[d] = "dma" /\ txFrame'[d] = txFrame[d]
        BY <1>1, <1>2, <1>12, <2>2 DEF TxDescs
      <3>2. txFrame[d] = sent + 1 + Ahead(txDma, d, n)
        BY <3>1 DEF RingInv, TxInv
      <3>3. QED
        BY <1>2, <3>1, <3>2 DEF Ahead
    <2>3. QED
      BY <2>1, <2>2
  <1>13. TxInv'
    <2>1. /\ txOwner' \in [TxDescs -> {"dma", "cpu"}]
          /\ txFrame' \in [TxDescs -> 0 .. MaxReplies]
      BY <1>1, <1>2 DEF TxDescs
    <2>2. txCpu' \in TxDescs /\ txDma' \in TxDescs /\ tbu' \in BOOLEAN
      BY <1>2 DEF RingInv, TxInv
    <2>3. QED
      BY <1>2, <1>5, <1>11, <1>12, <2>1, <2>2 DEF TxInv, Ahead
  <1>14. RxInv'
    BY <1>2, RxKept DEF RingInv
  <1>15. MainInv'
    BY <1>2 DEF RingInv, MainInv, rxRing
  <1>16. QED
    BY <1>11, <1>13, <1>14, <1>15 DEF RingInv

\* The other steps of transmission move nothing between the two sides.
LEMMA TxOtherInv == ASSUME RingInv, TxSuspend \/ Send \/ Demand PROVE RingInv'
  <1> USE DEF TxSuspend, Send, Demand
  <1>1. /\ UNCHANGED <<rxRing, txOwner, txFrame, txDma, replies, sent, dropped, len, p, taken>>
        /\ tbu' \in BOOLEAN
    BY DEF RingInv, TxInv, txRing, mainVars
  <1>2. TxNext' = TxNext /\ txCpu' \in TxDescs
    BY RingAssumption, NextOfInRing DEF RingInv, TxInv, TxNext, TxDescs, txRing, mainVars
  <1>3. Window(txOwner, "dma", txDma, TxNext, ENET_TXBUF_NUM)'
    BY <1>1, <1>2 DEF RingInv, TxInv, Window, Within
  <1>4. InFlight' = InFlight
    BY <1>1, <1>2 DEF InFlight, Ahead
  <1>5. pc' = "output" => replies' < MaxReplies
    BY DEF RingInv, TxInv, txRing, mainVars
  <1>6. TxInv'
    BY <1>1, <1>2, <1>3, <1>4, <1>5 DEF RingInv, TxInv, Ahead
  <1>7. RxInv'
    BY <1>1, RxKept DEF RingInv
  <1>8. pc' = pc \/ pc' \in {"output", "stack"}
    BY DEF mainVars
  <1>9. MainInv'
    BY <1>1, <1>8 DEF RingInv, MainInv, rxRing
  <1>10. QED
    BY <1>6, <1>7, <1>9 DEF RingInv

-----------------------------------------------------------------------------
\* Every step preserves the invariant.
LEMMA NextRingInv == RingInv /\ [RingNext]_ringVars => RingInv'
  <1> SUFFICES ASSUME RingInv, [RingNext]_ringVars PROVE RingInv'
    OBVIOUS
  <1>1. CASE Dma
    BY <1>1, RxStoreInv, RxStoreFirstInv, RxStoreSecondInv, RxSuspendInv, TxSendInv,
       TxOtherInv DEF Dma
  <1>2. CASE RxMain
    BY <1>2, MainStepInv, RxReleaseInv DEF RxMain
  <1>3. CASE Send \/ TxMain \/ NextTurn
    BY <1>3, MainStepInv, LowLevelOutputInv, TxOtherInv DEF TxMain
  <1>4. CASE UNCHANGED ringVars
    <2>1. UNCHANGED rxRing /\ UNCHANGED txRing /\ UNCHANGED mainVars
      BY <1>4 DEF ringVars
    <2>2. RxInv'
      BY <2>1, RxKept DEF RingInv
    <2>3. TxInv'
      BY <2>1, TxKept DEF RingInv, mainVars
    <2>4. MainInv'
      BY <2>1 DEF RingInv, MainInv, rxRing, mainVars
    <2>5. QED
      BY <2>2, <2>3, <2>4 DEF RingInv
  <1>5. QED
    BY <1>1, <1>2, <1>3, <1>4 DEF RingNext, Main

\* The invariant holds of every behaviour.
LEMMA RingInvariant == RingSpec => []RingInv
  BY InitRingInv, NextRingInv, PTL DEF RingSpec

\* Type correctness of the rings: no side ever leaves its ring.
THEOREM RingTypeCorrect == RingSpec => []RingTypeOK
  <1>1. RingInv => RingTypeOK
    BY RingAssumption DEF RingInv, RxInv, TxInv, MainInv, RingTypeOK, Numbers
  <1>2. QED
    BY <1>1, RingInvariant, PTL

\* Program and DMA agree whose each descriptor is, in rings of any size.
THEOREM WindowsHold == RingSpec => []Windows
  <1>1. RingInv => Windows
    BY DEF RingInv, RxInv, TxInv, Windows
  <1>2. QED
    BY <1>1, RingInvariant, PTL

\* The frame that lwIP is given is the one whose length was read.
THEOREM CopiedBeforeReuseHolds == RingSpec => []CopiedBeforeReuse
  <1>1. RingInv => CopiedBeforeReuse
    BY DEF RingInv, MainInv, CopiedBeforeReuse
  <1>2. QED
    BY <1>1, RingInvariant, PTL

\* Transmission implements a queue without losses that holds at most as many frames
\* as the ring has descriptors.
THEOREM TransmitImplementsQueue == RingSpec => TxQueueSpec
  <1>1. RingInit => TxQueue!QueueInit
    BY DEF RingInit, TxQueue!QueueInit
  <1>2. RingInv /\ [RingNext]_ringVars => [TxQueue!QueueNext]_<<replies, sent>>
    <2> SUFFICES ASSUME RingInv, [RingNext]_ringVars
                 PROVE  TxQueue!QueueNext \/ UNCHANGED <<replies, sent>>
      OBVIOUS
    <2>1. CASE TxSend
      <3>1. sent' = sent + 1 /\ replies' = replies /\ sent' <= replies
        BY <2>1, TxSendInv DEF TxSend, RingInv, TxInv
      <3>2. QED
        BY <3>1 DEF TxQueue!QueueNext, TxQueue!Take
    <2>2. CASE LowLevelOutput
      BY <2>2, LowLevelOutputInv DEF LowLevelOutput, TxQueue!QueueNext, TxQueue!Offer
    <2>3. CASE Dma /\ ~TxSend
      BY <2>3 DEF Dma, RxStore, RxStoreFirst, RxStoreSecond, Fill, RxSuspend, RxFlush,
                  TxSuspend, txRing
    <2>4. CASE RxMain \/ Send \/ Demand \/ NextTurn \/ UNCHANGED ringVars
      BY <2>4 DEF RxMain, PollNone, PollDrop, PollFrame, ReadLength, CopyFrame, ReleaseBusy,
                  Release, Resume, Input, Send, Demand, NextTurn, txRing, ringVars
    <2>5. QED
      BY <2>1, <2>2, <2>3, <2>4 DEF RingNext, Main, TxMain
  <1>3. QED
    BY <1>1, <1>2, RingInvariant, PTL DEF RingSpec, TxQueueSpec, TxQueue!QueueSpec,
       TxQueue!queueVars

-----------------------------------------------------------------------------
\* The order of reception.

\* Where lwIP has been given its frame and the next one was not looked at yet.
Between == pc \in {"stack", "output", "demand", "poll"}

\* Frames of the program in the order of the ring have rising numbers, equal only in
\* the two parts of one; they and the part that is to come are newer than what lwIP
\* was given or is about to be given, but for a second part of just that.
RxOrder ==
    /\ \A d, e \in RxDescs :
           /\ rxOwner[d] = "cpu" /\ rxOwner[e] = "cpu"
           /\ Ahead(rxCpu, d, ENET_RXBUF_NUM) < Ahead(rxCpu, e, ENET_RXBUF_NUM)
           => \/ rxDesc[d].id < rxDesc[e].id
              \/ rxDesc[d].id = rxDesc[e].id /\ rxDesc[d].fdes /\ ~rxDesc[e].fdes
    /\ second # 0 => \A d \in RxDescs :
           rxOwner[d] = "cpu" /\ rxDesc[d].id = second => rxDesc[d].fdes
    /\ \A d \in RxDescs : rxOwner[d] = "cpu" =>
           \/ taken < rxDesc[d].id
           \/ taken = rxDesc[d].id /\ ~rxDesc[d].fdes /\ Between
    /\ second # 0 => taken < second \/ (taken = second /\ Between)
    /\ pc \in {"resume", "input"} /\ p.id # 0 =>
           /\ taken < p.id
           /\ \A d \in RxDescs : rxOwner[d] = "cpu" =>
                  p.id < rxDesc[d].id \/ (p.id = rxDesc[d].id /\ ~rxDesc[d].fdes)

\* Moving on by one descriptor brings all the others nearer by one.
LEMMA AheadNext ==
    ASSUME NEW n \in Nat \ {0, 1}, NEW a \in 0 .. n - 1, NEW d \in 0 .. n - 1, d # a
    PROVE  Ahead(NextOf(a, n), d, n) = Ahead(a, d, n) - 1 /\ Ahead(a, d, n) \in Nat
  BY DEF Ahead, NextOf

\* The end of a window is behind all that is in it.
LEMMA AheadEnd ==
    ASSUME NEW n \in Nat \ {0, 1}, NEW a \in 0 .. n - 1, NEW b \in 0 .. n - 1,
           NEW d \in 0 .. n - 1, NEW owner, NEW side,
           Window(owner, side, a, b, n), owner[d] = side, owner[b] # side
    PROVE  Ahead(a, d, n) < Ahead(a, b, n) /\ d # b
  <1>1. Within(a, d, b, owner[a] = side)
    BY DEF Window
  <1>2. a # b
    BY <1>1 DEF Within
  <1>3. QED
    BY <1>1, <1>2 DEF Within, Ahead

\* A descriptor is filled.
LEMMA FillOrder ==
    ASSUME RingInv, RxOrder, NEW desc \in Statuses, Fill(desc), rxOwner[rxDma] = "dma",
           \A d \in RxDescs : rxOwner[d] = "cpu" =>
               \/ rxDesc[d].id < desc.id
               \/ rxDesc[d].id = desc.id /\ rxDesc[d].fdes /\ ~desc.fdes,
           second' # 0 => /\ desc.id = second' => desc.fdes
                          /\ \A d \in RxDescs : rxOwner[d] = "cpu" => rxDesc[d].id < second'
                          /\ taken < second',
           taken < desc.id \/ (taken = desc.id /\ ~desc.fdes /\ Between),
           p.id < desc.id \/ (p.id = desc.id /\ ~desc.fdes)
    PROVE  RxOrder'
  <1> DEFINE N == ENET_RXBUF_NUM
  <1>1. /\ rxOwner \in [RxDescs -> {"dma", "cpu"}] /\ rxDesc \in [RxDescs -> Statuses]
        /\ rxCpu \in 0 .. N - 1 /\ rxDma \in 0 .. N - 1 /\ N \in Nat \ {0, 1}
        /\ Window(rxOwner, "cpu", rxCpu, rxDma, N)
    BY RingAssumption DEF RingInv, RxInv, RxDescs
  <1>2. /\ rxOwner' = [rxOwner EXCEPT ![rxDma] = "cpu"]
        /\ rxDesc' = [rxDesc EXCEPT ![rxDma] = desc]
        /\ UNCHANGED <<rxCpu, pc, p, taken>>
    BY DEF Fill, mainVars
  <1>3. /\ rxOwner'[rxDma] = "cpu" /\ rxDesc'[rxDma] = desc
        /\ \A d \in RxDescs \ {rxDma} : rxOwner'[d] = rxOwner[d] /\ rxDesc'[d] = rxDesc[d]
    BY <1>1, <1>2 DEF RxDescs
  <1>4. \A d \in RxDescs : rxOwner[d] = "cpu" =>
            /\ d # rxDma
            /\ Ahead(rxCpu, d, N) < Ahead(rxCpu, rxDma, N)
    BY <1>1, AheadEnd DEF RxDescs
  <1>5. \A d \in RxDescs : Ahead(rxCpu, d, N) \in Nat
    BY <1>1 DEF RxDescs, Ahead
  <1>6. Between' = Between
    BY <1>2 DEF Between
  <1>7. ASSUME NEW d \in RxDescs, NEW e \in RxDescs,
               rxOwner'[d] = "cpu", rxOwner'[e] = "cpu",
               Ahead(rxCpu, d, N) < Ahead(rxCpu, e, N)
        PROVE  \/ rxDesc'[d].id < rxDesc'[e].id
               \/ rxDesc'[d].id = rxDesc'[e].id /\ rxDesc'[d].fdes /\ ~rxDesc'[e].fdes
    <2>1. CASE d # rxDma /\ e # rxDma
      BY <1>3, <1>7, <2>1 DEF RxOrder
    <2>2. CASE d # rxDma /\ e = rxDma
      BY <1>3, <1>7, <2>2
    <2>3. CASE d = rxDma
      <3>1. e # rxDma
        BY <1>5, <1>7, <2>3
      <3>2. Ahead(rxCpu, e, N) < Ahead(rxCpu, d, N)
        BY <1>3, <1>4, <1>7, <2>3, <3>1
      <3>3. QED
        BY <1>5, <1>7, <3>2
    <2>4. QED
      BY <2>1, <2>2, <2>3
  <1>8. second' # 0 => \A d \in RxDescs :
            rxOwner'[d] = "cpu" /\ rxDesc'[d].id = second' => rxDesc'[d].fdes
    <2> SUFFICES ASSUME second' # 0, NEW d \in RxDescs,
                        rxOwner'[d] = "cpu", rxDesc'[d].id = second'
                 PROVE  rxDesc'[d].fdes
      OBVIOUS
    <2>1. CASE d = rxDma
      BY <1>3, <2>1
    <2>2. CASE d # rxDma
      BY <1>1, <1>3, <2>2 DEF Statuses, Numbers
    <2>3. QED
      BY <2>1, <2>2
  <1>9. ASSUME NEW d \in RxDescs, rxOwner'[d] = "cpu"
        PROVE  \/ taken < rxDesc'[d].id
               \/ taken = rxDesc'[d].id /\ ~rxDesc'[d].fdes /\ Between
    <2>1. CASE d = rxDma
      BY <1>3, <2>1
    <2>2. CASE d # rxDma
      BY <1>3, <1>9, <2>2 DEF RxOrder
    <2>3. QED
      BY <2>1, <2>2
  <1>10. ASSUME pc \in {"resume", "input"}, p.id # 0
         PROVE  /\ taken < p.id
                /\ \A d \in RxDescs : rxOwner'[d] = "cpu" =>
                       p.id < rxDesc'[d].id \/ (p.id = rxDesc'[d].id /\ ~rxDesc'[d].fdes)
    <2>1. taken < p.id
      BY <1>10 DEF RxOrder
    <2>2. ASSUME NEW d \in RxDescs, rxOwner'[d] = "cpu"
          PROVE  p.id < rxDesc'[d].id \/ (p.id = rxDesc'[d].id /\ ~rxDesc'[d].fdes)
      <3>1. CASE d = rxDma
        BY <1>3, <3>1
      <3>2. CASE d # rxDma
        BY <1>3, <1>10, <2>2, <3>2 DEF RxOrder
      <3>3. QED
        BY <3>1, <3>2
    <2>3. QED
      BY <2>1, <2>2
  <1>11. \A d : Ahead(rxCpu', d, N) = Ahead(rxCpu, d, N)
    BY <1>2
  <1>12. QED
    BY <1>2, <1>6, <1>7, <1>8, <1>9, <1>10, <1>11 DEF RxOrder

\* Every arrival of a frame or of its second part keeps the order.
LEMMA ArrivalOrder ==
    ASSUME RingInv, RxOrder, RxStore \/ RxStoreFirst \/ RxStoreSecond
    PROVE  RxOrder'
  <1>1. /\ arrived \in Nat /\ taken \in Nat /\ p.id \in Nat /\ arrived \in Numbers
        /\ taken <= arrived /\ p.id <= arrived
        /\ \A d \in RxDescs : rxOwner[d] = "cpu" => rxDesc[d].id \in 1 .. arrived
    BY DEF RingInv, RxInv, MainInv, Numbers
  <1>2. CASE RxStore
    <2>1. PICK e \in BOOLEAN :
              Fill([id |-> arrived', errs |-> e, fdes |-> TRUE, ldes |-> TRUE])
      BY <1>2 DEF RxStore
    <2>2. arrived' = arrived + 1 /\ arrived' \in Numbers /\ second' = 0
          /\ rxOwner[rxDma] = "dma"
      BY <1>1, <1>2, RingAssumption DEF RxStore, Numbers
    <2> DEFINE desc == [id |-> arrived', errs |-> e, fdes |-> TRUE, ldes |-> TRUE]
    <2>3. desc \in Statuses /\ desc.id = arrived + 1 /\ desc.fdes
      BY <2>2 DEF Statuses
    <2>4. /\ \A d \in RxDescs : rxOwner[d] = "cpu" => rxDesc[d].id < desc.id
          /\ taken < desc.id /\ p.id < desc.id
      BY <1>1, <2>3
    <2> HIDE DEF desc
    <2>5. Fill(desc)
      BY <2>1 DEF desc
    <2>6. QED
      BY <2>2, <2>3, <2>4, <2>5, FillOrder
  <1>3. CASE RxStoreFirst
    <2> DEFINE desc == [id |-> arrived', errs |-> FALSE, fdes |-> TRUE, ldes |-> FALSE]
    <2>1. Fill(desc)
      BY <1>3 DEF RxStoreFirst
    <2>2. arrived' = arrived + 1 /\ arrived' \in Numbers /\ second' = arrived'
          /\ rxOwner[rxDma] = "dma"
      BY <1>1, <1>3, RingAssumption DEF RxStoreFirst, Numbers
    <2>3. desc \in Statuses /\ desc.id = arrived + 1 /\ desc.fdes
      BY <2>2 DEF Statuses
    <2> HIDE DEF desc
    <2>4. /\ \A d \in RxDescs : rxOwner[d] = "cpu" => rxDesc[d].id < desc.id
          /\ taken < desc.id /\ p.id < desc.id /\ second' = desc.id
      BY <1>1, <2>2, <2>3
    <2>5. QED
      BY <2>1, <2>2, <2>3, <2>4, FillOrder
  <1>4. CASE RxStoreSecond
    <2> DEFINE desc == [id |-> second, errs |-> FALSE, fdes |-> FALSE, ldes |-> TRUE]
    <2>1. Fill(desc)
      BY <1>4 DEF RxStoreSecond
    <2>2. second # 0 /\ second = arrived /\ second' = 0 /\ rxOwner[rxDma] = "dma"
      BY <1>4 DEF RxStoreSecond, RingInv, RxInv
    <2>3. desc \in Statuses /\ desc.id = second /\ ~desc.fdes
      BY <1>1, <2>2 DEF Statuses
    <2> HIDE DEF desc
    <2>4. \A d \in RxDescs : rxOwner[d] = "cpu" =>
              \/ rxDesc[d].id < desc.id
              \/ rxDesc[d].id = desc.id /\ rxDesc[d].fdes
      BY <1>1, <2>2, <2>3 DEF RxOrder
    <2>5. taken < desc.id \/ (taken = desc.id /\ Between)
      BY <2>2, <2>3 DEF RxOrder
    <2>6. p.id < desc.id \/ p.id = desc.id
      BY <1>1, <2>2, <2>3
    <2>7. QED
      BY <2>1, <2>2, <2>3, <2>4, <2>5, <2>6, FillOrder
  <1>5. QED
    BY <1>2, <1>3, <1>4

\* What is behind the current descriptor of the program is not older than it; so, when
\* a descriptor is looked at, nothing of what lwIP was given is left behind it.
LEMMA BehindHead ==
    ASSUME RingInv, RxOrder, rxOwner[rxCpu] = "cpu",
           NEW d \in RxDescs \ {rxCpu}, rxOwner[d] = "cpu"
    PROVE  /\ \/ rxDesc[rxCpu].id < rxDesc[d].id
              \/ rxDesc[rxCpu].id = rxDesc[d].id /\ ~rxDesc[d].fdes
           /\ taken < rxDesc[d].id
  <1>1. rxCpu \in RxDescs /\ taken \in Nat
        /\ rxDesc[rxCpu].id \in Nat /\ rxDesc[d].id \in Nat
    BY DEF RingInv, RxInv, MainInv, Statuses, Numbers
  <1>2. Ahead(rxCpu, rxCpu, ENET_RXBUF_NUM) < Ahead(rxCpu, d, ENET_RXBUF_NUM)
    BY <1>1, RingAssumption DEF Ahead, RxDescs
  <1>3. \/ rxDesc[rxCpu].id < rxDesc[d].id
        \/ rxDesc[rxCpu].id = rxDesc[d].id /\ rxDesc[rxCpu].fdes /\ ~rxDesc[d].fdes
    BY <1>1, <1>2 DEF RxOrder
  <1>4. taken < rxDesc[rxCpu].id \/ (taken = rxDesc[rxCpu].id /\ ~rxDesc[rxCpu].fdes)
    BY <1>1 DEF RxOrder
  <1>5. QED
    BY <1>1, <1>3, <1>4

\* A second part that is still to come is newer than what lwIP was given, if there is
\* a descriptor to look at.
LEMMA SecondAhead ==
    ASSUME RingInv, RxOrder, rxOwner[rxCpu] = "cpu", second # 0
    PROVE  taken < second
  <1>1. /\ rxCpu \in RxDescs /\ second = arrived /\ taken \in Nat /\ second \in Nat
        /\ rxDesc[rxCpu].id \in 1 .. arrived
    BY DEF RingInv, RxInv, MainInv, Numbers
  <1>2. rxDesc[rxCpu].id = second => rxDesc[rxCpu].fdes
    BY <1>1 DEF RxOrder
  <1>3. taken < rxDesc[rxCpu].id \/ (taken = rxDesc[rxCpu].id /\ ~rxDesc[rxCpu].fdes)
    BY <1>1 DEF RxOrder
  <1>4. QED
    BY <1>1, <1>2, <1>3

\* Giving a descriptor back keeps the order.
LEMMA ReleaseOrder ==
    ASSUME RingInv, RxOrder, PollDrop \/ Release
    PROVE  RxOrder'
  <1> DEFINE N == ENET_RXBUF_NUM
  <1>1. /\ rxOwner \in [RxDescs -> {"dma", "cpu"}] /\ rxDesc \in [RxDescs -> Statuses]
        /\ rxCpu \in RxDescs /\ N \in Nat \ {0, 1} /\ rxOwner[rxCpu] = "cpu"
    BY RingAssumption DEF RingInv, RxInv, PollDrop, Release
  <1>2. /\ rxOwner' = [rxOwner EXCEPT ![rxCpu] = "dma"]
        /\ rxDesc' = [rxDesc EXCEPT ![rxCpu] = Blank]
        /\ rxCpu' = NextOf(rxCpu, N) /\ UNCHANGED <<second, p, taken>>
        /\ pc' \in {"length", "resume"} /\ (pc' = "resume" => Release)
    BY DEF PollDrop, Release, GiveBack
  <1>3. \A d \in RxDescs : rxOwner'[d] = "cpu" =>
            d # rxCpu /\ rxOwner[d] = "cpu" /\ rxDesc'[d] = rxDesc[d]
    BY <1>1, <1>2
  <1>4. \A d \in RxDescs \ {rxCpu} : /\ Ahead(rxCpu', d, N) = Ahead(rxCpu, d, N) - 1
                                     /\ Ahead(rxCpu, d, N) \in Nat
    BY <1>1, <1>2, AheadNext DEF RxDescs
  <1>5. ASSUME NEW d \in RxDescs, NEW e \in RxDescs,
               rxOwner'[d] = "cpu", rxOwner'[e] = "cpu",
               Ahead(rxCpu', d, N) < Ahead(rxCpu', e, N)
        PROVE  \/ rxDesc'[d].id < rxDesc'[e].id
               \/ rxDesc'[d].id = rxDesc'[e].id /\ rxDesc'[d].fdes /\ ~rxDesc'[e].fdes
    <2>1. /\ rxOwner[d] = "cpu" /\ rxOwner[e] = "cpu"
          /\ rxDesc'[d] = rxDesc[d] /\ rxDesc'[e] = rxDesc[e]
      BY <1>3, <1>5
    <2>2. Ahead(rxCpu, d, N) < Ahead(rxCpu, e, N)
      BY <1>3, <1>4, <1>5
    <2>3. QED
      BY <2>1, <2>2 DEF RxOrder
  <1>6. second' # 0 => \A d \in RxDescs :
            rxOwner'[d] = "cpu" /\ rxDesc'[d].id = second' => rxDesc'[d].fdes
    BY <1>2, <1>3 DEF RxOrder
  <1>7. \A d \in RxDescs : rxOwner'[d] = "cpu" => taken' < rxDesc'[d].id
    BY <1>1, <1>2, <1>3, BehindHead
  <1>8. second' # 0 => taken' < second'
    BY <1>1, <1>2, SecondAhead
  <1>9. ASSUME pc' \in {"resume", "input"}, p'.id # 0
        PROVE  /\ taken' < p'.id
               /\ \A d \in RxDescs : rxOwner'[d] = "cpu" =>
                      \/ p'.id < rxDesc'[d].id
                      \/ p'.id = rxDesc'[d].id /\ ~rxDesc'[d].fdes
    <2>1. pc = "release" /\ p.id # 0
      BY <1>2, <1>9 DEF Release
    <2>2. p.id = rxDesc[rxCpu].id
      BY <2>1 DEF RingInv, MainInv, Null, Empty
    <2>3. taken < rxDesc[rxCpu].id
      BY <1>1, <2>1 DEF RxOrder, Between
    <2>4. QED
      BY <1>1, <1>2, <1>3, <2>2, <2>3, BehindHead
  <1>10. QED
    BY <1>5, <1>6, <1>7, <1>8, <1>9 DEF RxOrder

\* So do the other steps, each of which leaves the ring alone.
LEMMA MainOrder ==
    ASSUME RingInv, RxOrder,
           PollNone \/ PollFrame \/ ReadLength \/ CopyFrame \/ ReleaseBusy \/ Resume
             \/ NextTurn \/ Send \/ LowLevelOutput \/ Demand
    PROVE  RxOrder'
  <1> USE DEF PollNone, PollFrame, ReadLength, CopyFrame, ReleaseBusy, Resume, NextTurn,
              Send, LowLevelOutput, Demand
  <1>1. UNCHANGED <<rxOwner, rxDesc, rxCpu, second, taken>>
    BY DEF rxRing
  <1>2. pc' \in {"resume", "input"} =>
            p' = p /\ (pc \in {"resume", "input"} \/ p.id = 0)
    BY DEF RingInv, RxInv, MainInv, Null, Empty
  <1>3. CASE PollFrame
    <2>1. rxCpu \in RxDescs /\ taken \in Nat /\ rxOwner[rxCpu] = "cpu" /\ rxDesc[rxCpu].fdes
      BY <1>3 DEF RingInv, RxInv, MainInv, Valid
    <2>2. taken < rxDesc[rxCpu].id
      BY <2>1 DEF RxOrder
    <2>3. \A d \in RxDescs : rxOwner[d] = "cpu" => taken < rxDesc[d].id
      BY <2>1, <2>2, BehindHead
    <2>4. second # 0 => taken < second
      BY <2>1, SecondAhead
    <2>5. pc' = "length"
      BY <1>3
    <2>6. QED
      BY <1>1, <2>3, <2>4, <2>5 DEF RxOrder, Ahead
  <1>4. CASE ~PollFrame
    <2>1. Between => Between'
      BY <1>4 DEF Between
    <2>2. QED
      BY <1>1, <1>2, <2>1 DEF RxOrder, Ahead
  <1>5. QED
    BY <1>3, <1>4

LEMMA InputOrder == ASSUME RingInv, RxOrder, Input PROVE RxOrder'
  <1>1. /\ UNCHANGED <<rxOwner, rxDesc, rxCpu, second, p>>
        /\ pc = "input" /\ pc' = "stack" /\ taken' = IF p.id = 0 THEN taken ELSE p.id
    BY DEF Input, rxRing
  <1>2. Between' /\ ~Between
    BY <1>1 DEF Between
  <1>3. CASE p.id = 0
    BY <1>1, <1>2, <1>3 DEF RxOrder, Ahead
  <1>4. CASE p.id # 0
    <2>1. second # 0 => p.id < second \/ p.id = second
      BY DEF RingInv, RxInv, MainInv, Numbers
    <2>2. QED
      BY <1>1, <1>2, <1>4, <2>1 DEF RxOrder, Ahead
  <1>5. QED
    BY <1>3, <1>4

LEMMA NextRxOrder == RingInv /\ RxOrder /\ [RingNext]_ringVars => RxOrder'
  <1> SUFFICES ASSUME RingInv, RxOrder, [RingNext]_ringVars PROVE RxOrder'
    OBVIOUS
  <1>1. CASE UNCHANGED <<rxOwner, rxDesc, rxCpu, second, taken, pc, p>>
    BY <1>1 DEF RxOrder, Ahead, Between
  <1>2. CASE RxSuspend \/ RxFlush \/ TxSend \/ TxSuspend \/ UNCHANGED ringVars
    BY <1>1, <1>2 DEF RxSuspend, RxFlush, TxSend, TxSuspend, ringVars, rxRing, mainVars
  <1>3. QED
    BY <1>2, ArrivalOrder, ReleaseOrder, MainOrder, InputOrder
    DEF RingNext, Dma, Main, RxMain, TxMain

\* Reception implements a queue that may lose frames: lwIP is given frames in the
\* order of their arrival, none twice, although it may be given the parts of one
\* unchecked.
THEOREM ReceiveImplementsQueue == RingSpec => RxQueueSpec
  <1>1. RingInit => RxQueue!QueueInit
    BY DEF RingInit, RxQueue!QueueInit
  <1>2. RingInit => RxOrder
    BY DEF RingInit, RxOrder
  <1>3. RingInv /\ RxOrder /\ [RingNext]_ringVars => [RxQueue!QueueNext]_<<arrived, taken>>
    <2> SUFFICES ASSUME RingInv, RxOrder, [RingNext]_ringVars
                 PROVE  RxQueue!QueueNext \/ UNCHANGED <<arrived, taken>>
      OBVIOUS
    <2>1. CASE Input
      <3>1. /\ UNCHANGED arrived /\ pc = "input"
            /\ taken' = IF p.id = 0 THEN taken ELSE p.id
        BY <2>1 DEF Input, rxRing
      <3>2. CASE p.id = 0
        BY <3>1, <3>2
      <3>3. CASE p.id # 0
        <4>1. taken < p.id /\ p.id <= arrived /\ p.id \in Nat /\ taken \in Nat
              /\ arrived \in Nat
          BY <3>1, <3>3 DEF RxOrder, RingInv, RxInv, MainInv, Numbers
        <4>2. taken' \in taken + 1 .. arrived
          BY <3>1, <3>3, <4>1
        <4>3. QED
          BY <3>1, <4>1, <4>2 DEF RxQueue!QueueNext, RxQueue!Take
      <3>4. QED
        BY <3>2, <3>3
    <2>2. CASE RxStore \/ RxStoreFirst \/ RxFlush
      BY <2>2 DEF RxStore, RxStoreFirst, RxFlush, Fill, mainVars, RxQueue!QueueNext,
                  RxQueue!Offer
    <2>3. CASE UNCHANGED <<arrived, taken>>
      BY <2>3
    <2>4. QED
      BY <2>1, <2>2, <2>3
      DEF RingNext, Dma, Main, RxMain, TxMain, RxStoreSecond, Fill, RxSuspend, TxSend,
          TxSuspend, PollNone, PollDrop, PollFrame, ReadLength, CopyFrame, ReleaseBusy,
          Release, Resume, Send, LowLevelOutput, Demand, NextTurn, ringVars, rxRing, mainVars
  <1>4. QED
    BY <1>1, <1>2, <1>3, NextRxOrder, RingInvariant, PTL DEF RingSpec, RxQueueSpec,
       RxQueue!QueueSpec, RxQueue!queueVars

-----------------------------------------------------------------------------
\* A valid frame is lost only for want of a pbuf or after a drop, and lwIP is given
\* an invalid one only after a drop.
THEOREM LossesExplained == RingSpec => Explained
  <1>1. RingInv /\ [RingNext]_ringVars => [ExplainedStep]_ringVars
    <2> SUFFICES ASSUME RingInv, RingNext PROVE ExplainedStep
      OBVIOUS
    <2>1. GivesBackUnread => p = Null \/ (p = Empty /\ dropped)
      <3> SUFFICES ASSUME GivesBackUnread PROVE p = Null \/ (p = Empty /\ dropped)
        OBVIOUS
      <3>1. CASE Release
        BY <3>1 DEF Release, GivesBackUnread, RingInv, MainInv
      <3>2. CASE PollDrop
        BY <3>2 DEF PollDrop, GivesBackUnread
      <3>3. CASE RxStore \/ RxStoreFirst \/ RxStoreSecond
        BY <3>3 DEF RxStore, RxStoreFirst, RxStoreSecond, Fill, GivesBackUnread, RingInv,
                    RxInv
      <3>4. CASE UNCHANGED rxOwner
        BY <3>4 DEF GivesBackUnread
      <3>5. QED
        BY <3>1, <3>2, <3>3, <3>4
        DEF RingNext, Dma, Main, RxMain, TxMain, RxSuspend, RxFlush, TxSend, TxSuspend,
            PollNone, PollFrame, ReadLength, CopyFrame, ReleaseBusy, Resume, Input, Send,
            LowLevelOutput, Demand, NextTurn, rxRing
    <2>2. taken' # taken /\ ~p.ok => dropped
      <3>1. CASE Input
        BY <3>1 DEF Input, RingInv, MainInv
      <3>2. CASE UNCHANGED taken
        BY <3>2
      <3>3. QED
        BY <3>1, <3>2
        DEF RingNext, Dma, Main, RxMain, TxMain, RxStore, RxStoreFirst, RxStoreSecond, Fill,
            RxSuspend, RxFlush, TxSend, TxSuspend, PollNone, PollDrop, PollFrame, ReadLength,
            CopyFrame, ReleaseBusy, Release, Resume, Send, LowLevelOutput, Demand, NextTurn,
            mainVars
    <2>3. QED
      BY <2>1, <2>2 DEF ExplainedStep
  <1>2. QED
    BY <1>1, RingInvariant, PTL DEF RingSpec, Explained
=============================================================================
