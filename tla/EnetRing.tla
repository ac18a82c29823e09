------------------------------ MODULE EnetRing ------------------------------
(***************************************************************************)
(* The way of a frame between the Ethernet DMA and lwIP: the chained rings *)
(* of receive and transmit descriptors (gd32f4xx_enet.c), the port layer   *)
(* that copies frames in and out of them (ethernetif.c) and the loop of    *)
(* main.c that polls them.  The DMA and the program run concurrently and   *)
(* hand descriptors to each other through one bit of the status word, DAV. *)
(*                                                                         *)
(* A frame is known by its number.  A frame that does not fit the buffer   *)
(* of one descriptor takes two.  The DMA is as the driver uses it: it      *)
(* fills or sends its descriptors in the order of the chain, suspends when *)
(* the next one is not its own, flushes frames that arrive meanwhile       *)
(* (ENET_FLUSH_RXFRAME_ENABLE) and goes on after a poll demand.            *)
(***************************************************************************)
EXTENDS Integers

CONSTANTS
    ENET_RXBUF_NUM,  \* receive descriptors (5)
    ENET_TXBUF_NUM,  \* transmit descriptors (5)
    MaxFrames,       \* bound on the frames that arrive
    MaxReplies       \* bound on the frames that lwIP sends

ASSUME RingAssumption ==
    /\ ENET_RXBUF_NUM \in Nat \ {0, 1} /\ ENET_TXBUF_NUM \in Nat \ {0, 1}
    /\ MaxFrames \in Nat /\ MaxReplies \in Nat

RxDescs == 0 .. ENET_RXBUF_NUM - 1
TxDescs == 0 .. ENET_TXBUF_NUM - 1

VARIABLES
    rxOwner, rxDesc,    \* DAV and the rest of the status of rxdesc_tab[d]
    rxCpu,              \* dma_current_rxdesc
    rxDma, rbu, second, \* the DMA: its descriptor, the RBU flag, and the frame
                        \* whose second part it has yet to write (0: none)
    arrived, taken,     \* frames received so far; the last one given to lwIP
    txOwner, txFrame,   \* the same for txdesc_tab[d]
    txCpu, txDma, tbu,
    replies, sent,      \* frames lwIP has sent so far; the last one on the line
    pc,                 \* where main is
    dropped,            \* enet_rxframe_size_get has returned 1 in this turn
    len,                \* the frame whose length low_level_input has read, or 0
    p                   \* its pbuf

rxRing   == <<rxOwner, rxDesc, rxCpu, rxDma, rbu, second, arrived>>
txRing   == <<txOwner, txFrame, txCpu, txDma, tbu, replies, sent>>
mainVars == <<pc, dropped, len, p, taken>>
ringVars == <<rxRing, txRing, mainVars>>

-----------------------------------------------------------------------------
\* Mutant of NextOf: the chain is closed one descriptor too late.
NextOfLate(d, n) == IF d = n THEN 0 ELSE d + 1

\* Chained mode: the last descriptor is followed by the first one.
NextOf(d, n) == IF d = n - 1 THEN 0 ELSE d + 1

\* A descriptor that has no frame: enet_descriptors_chain_init, and what the
\* status word is after the program has written ENET_RDES0_DAV into it.
Blank == [id |-> 0, errs |-> FALSE, fdes |-> FALSE, ldes |-> FALSE]

\* ERRS (or FRMT and PCERR), FDES, LDES: the frame is whole and undamaged.
Valid(desc) == ~desc.errs /\ desc.fdes /\ desc.ldes

Null  == [id |-> 0, ok |-> FALSE]   \* pbuf_alloc has failed
Empty == [id |-> 0, ok |-> TRUE]    \* a pbuf of length 0

RingInit ==
    /\ rxOwner = [d \in RxDescs |-> "dma"] /\ rxDesc = [d \in RxDescs |-> Blank]
    /\ rxCpu = 0 /\ rxDma = 0 /\ rbu = FALSE /\ second = 0
    /\ arrived = 0 /\ taken = 0
    /\ txOwner = [d \in TxDescs |-> "cpu"] /\ txFrame = [d \in TxDescs |-> 0]
    /\ txCpu = 0 /\ txDma = 0 /\ tbu = FALSE
    /\ replies = 0 /\ sent = 0
    /\ pc = "poll" /\ dropped = FALSE /\ len = 0 /\ p = Empty

-----------------------------------------------------------------------------
\* The DMA.

Fill(desc) ==
    /\ rxOwner' = [rxOwner EXCEPT ![rxDma] = "cpu"]
    /\ rxDesc' = [rxDesc EXCEPT ![rxDma] = desc]
    /\ rxDma' = NextOf(rxDma, ENET_RXBUF_NUM)
    /\ UNCHANGED <<rxCpu, rbu, txRing, mainVars>>

\* A frame arrives and fills one descriptor; it may be damaged.
RxStore ==
    /\ ~rbu /\ second = 0 /\ rxOwner[rxDma] = "dma" /\ arrived < MaxFrames
    /\ arrived' = arrived + 1
    /\ \E e \in BOOLEAN :
           Fill([id |-> arrived', errs |-> e, fdes |-> TRUE, ldes |-> TRUE])
    /\ UNCHANGED second

\* A frame arrives that takes two descriptors, which are released one by one.
RxStoreFirst ==
    /\ ~rbu /\ second = 0 /\ rxOwner[rxDma] = "dma" /\ arrived < MaxFrames
    /\ rxOwner[NextOf(rxDma, ENET_RXBUF_NUM)] = "dma"
    /\ arrived' = arrived + 1
    /\ second' = arrived'
    /\ Fill([id |-> arrived', errs |-> FALSE, fdes |-> TRUE, ldes |-> FALSE])

RxStoreSecond ==
    /\ second # 0
    /\ Fill([id |-> second, errs |-> FALSE, fdes |-> FALSE, ldes |-> TRUE])
    /\ second' = 0
    /\ UNCHANGED arrived

\* The next descriptor is not the DMA's: it sets RBU and suspends ...
RxSuspend ==
    /\ ~rbu /\ second = 0 /\ rxOwner[rxDma] = "cpu"
    /\ rbu' = TRUE
    /\ UNCHANGED <<rxOwner, rxDesc, rxCpu, rxDma, second, arrived, txRing, mainVars>>

\* ... and what arrives is flushed.
RxFlush ==
    /\ rbu /\ arrived < MaxFrames
    /\ arrived' = arrived + 1
    /\ UNCHANGED <<rxOwner, rxDesc, rxCpu, rxDma, rbu, second, txRing, mainVars>>

\* A frame goes out on the line.
TxSend ==
    /\ ~tbu /\ txOwner[txDma] = "dma"
    /\ sent' = txFrame[txDma]
    /\ txOwner' = [txOwner EXCEPT ![txDma] = "cpu"]
    /\ txDma' = NextOf(txDma, ENET_TXBUF_NUM)
    /\ UNCHANGED <<rxRing, txFrame, txCpu, tbu, replies, mainVars>>

TxSuspend ==
    /\ ~tbu /\ txOwner[txDma] = "cpu"
    /\ tbu' = TRUE
    /\ UNCHANGED <<rxRing, txOwner, txFrame, txCpu, txDma, replies, sent, mainVars>>

Dma == RxStore \/ RxStoreFirst \/ RxStoreSecond \/ RxSuspend \/ RxFlush
       \/ TxSend \/ TxSuspend

-----------------------------------------------------------------------------
\* The loop of main: enet_rxframe_size_get.

\* The descriptor is the DMA's: there is no frame.
PollNone ==
    /\ pc = "poll" /\ rxOwner[rxCpu] = "dma"
    /\ pc' = "stack"
    /\ UNCHANGED <<rxRing, txRing, dropped, len, p, taken>>

\* The program has done with the descriptor and gives it to the DMA.
GiveBack ==
    /\ rxOwner' = [rxOwner EXCEPT ![rxCpu] = "dma"]
    /\ rxDesc' = [rxDesc EXCEPT ![rxCpu] = Blank]

\* Mutant of PollDrop: enet_rxframe_drop leaves the current descriptor alone.
PollDropStays ==
    /\ pc = "poll" /\ rxOwner[rxCpu] = "cpu" /\ ~Valid(rxDesc[rxCpu])
    /\ GiveBack
    /\ dropped' = TRUE
    /\ pc' = "length"
    /\ UNCHANGED <<rxCpu, rxDma, rbu, second, arrived, txRing, len, p, taken>>

\* A frame that is damaged or in parts: enet_rxframe_drop gives its descriptor
\* back, without a poll demand, and moves on.  The result is 1, which is not 0,
\* so main goes on to take the next descriptor, whatever that is.
PollDrop ==
    /\ pc = "poll" /\ rxOwner[rxCpu] = "cpu" /\ ~Valid(rxDesc[rxCpu])
    /\ GiveBack
    /\ rxCpu' = NextOf(rxCpu, ENET_RXBUF_NUM)
    /\ dropped' = TRUE
    /\ pc' = "length"
    /\ UNCHANGED <<rxDma, rbu, second, arrived, txRing, len, p, taken>>

\* Mutant of PollFrame: whether the frame is in parts is not looked at.
PollFrameParts ==
    /\ pc = "poll" /\ rxOwner[rxCpu] = "cpu" /\ ~rxDesc[rxCpu].errs
    /\ pc' = "length"
    /\ UNCHANGED <<rxRing, txRing, dropped, len, p, taken>>

\* The result is the size of the frame.
PollFrame ==
    /\ pc = "poll" /\ rxOwner[rxCpu] = "cpu" /\ Valid(rxDesc[rxCpu])
    /\ pc' = "length"
    /\ UNCHANGED <<rxRing, txRing, dropped, len, p, taken>>

-----------------------------------------------------------------------------
\* lwip_frame_recv: low_level_input.

\* Mutant of ReadLength: the descriptor is given back before it is copied.
ReadLengthReleases ==
    /\ pc = "length"
    /\ len' = IF rxOwner[rxCpu] = "cpu" THEN rxDesc[rxCpu].id ELSE 0
    /\ rxOwner' = [rxOwner EXCEPT ![rxCpu] = "dma"]
    /\ pc' = "copy"
    /\ UNCHANGED <<rxDesc, rxCpu, rxDma, rbu, second, arrived, txRing, dropped, p, taken>>

\* The length of the frame in the current descriptor, which is 0 for one that is
\* the DMA's.
ReadLength ==
    /\ pc = "length"
    /\ len' = IF rxOwner[rxCpu] = "cpu" THEN rxDesc[rxCpu].id ELSE 0
    /\ pc' = "copy"
    /\ UNCHANGED <<rxRing, txRing, dropped, p, taken>>

\* pbuf_alloc, and the copy out of the descriptor's buffer.
CopyFrame ==
    /\ pc = "copy"
    /\ p' \in {Null, IF len = 0 THEN Empty
                     ELSE [id |-> rxDesc[rxCpu].id, ok |-> Valid(rxDesc[rxCpu])]}
    /\ pc' = "release"
    /\ UNCHANGED <<rxRing, txRing, dropped, len, taken>>

\* enet_frame_receive: nothing happens to a descriptor that is the DMA's.
ReleaseBusy ==
    /\ pc = "release" /\ rxOwner[rxCpu] = "dma"
    /\ pc' = "input"
    /\ UNCHANGED <<rxRing, txRing, dropped, len, p, taken>>

\* Mutant of Release: DAV is not set.
ReleaseKeeps ==
    /\ pc = "release" /\ rxOwner[rxCpu] = "cpu"
    /\ rxCpu' = NextOf(rxCpu, ENET_RXBUF_NUM)
    /\ pc' = "resume"
    /\ UNCHANGED <<rxOwner, rxDesc, rxDma, rbu, second, arrived, txRing, dropped, len,
                   p, taken>>

\* It gives back any other, whoever filled it when, and moves on ...
Release ==
    /\ pc = "release" /\ rxOwner[rxCpu] = "cpu"
    /\ GiveBack
    /\ rxCpu' = NextOf(rxCpu, ENET_RXBUF_NUM)
    /\ pc' = "resume"
    /\ UNCHANGED <<rxDma, rbu, second, arrived, txRing, dropped, len, p, taken>>

\* Mutant of Resume: the poll demand is forgotten.
ResumeNot ==
    /\ pc = "resume"
    /\ pc' = "input"
    /\ UNCHANGED <<rxRing, txRing, dropped, len, p, taken>>

\* ... and lets a suspended DMA go on.
Resume ==
    /\ pc = "resume"
    /\ rbu' = FALSE
    /\ pc' = "input"
    /\ UNCHANGED <<rxOwner, rxDesc, rxCpu, rxDma, second, arrived, txRing, dropped, len,
                   p, taken>>

\* ethernetif_input: without a pbuf there is no input; ethernet_input drops an
\* empty one and takes any other.
Input ==
    /\ pc = "input"
    /\ taken' = IF p.id = 0 THEN taken ELSE p.id
    /\ pc' = "stack"
    /\ UNCHANGED <<rxRing, txRing, dropped, len, p>>

-----------------------------------------------------------------------------
\* lwIP runs, called by ethernetif_input or by lwip_timeouts_check; it may send.

Send ==
    /\ pc = "stack" /\ replies < MaxReplies
    /\ pc' = "output"
    /\ UNCHANGED <<rxRing, txRing, dropped, len, p, taken>>

\* Mutant of LowLevelOutput: the wait for the descriptor is left out.
OutputNoWait ==
    /\ pc = "output"
    /\ txFrame' = [txFrame EXCEPT ![txCpu] = replies + 1]
    /\ txOwner' = [txOwner EXCEPT ![txCpu] = "dma"]
    /\ replies' = replies + 1
    /\ pc' = "demand"
    /\ UNCHANGED <<rxRing, txCpu, txDma, tbu, sent, dropped, len, p, taken>>

\* low_level_output waits for its descriptor, copies the frame into its buffer,
\* and enet_frame_transmit gives it to the DMA ...
LowLevelOutput ==
    /\ pc = "output" /\ txOwner[txCpu] = "cpu"
    /\ txFrame' = [txFrame EXCEPT ![txCpu] = replies + 1]
    /\ txOwner' = [txOwner EXCEPT ![txCpu] = "dma"]
    /\ replies' = replies + 1
    /\ pc' = "demand"
    /\ UNCHANGED <<rxRing, txCpu, txDma, tbu, sent, dropped, len, p, taken>>

\* Mutant of Demand: TPEN is written only when the frame is the first one.
DemandOnce ==
    /\ pc = "demand"
    /\ tbu' = IF replies = 1 THEN FALSE ELSE tbu
    /\ txCpu' = NextOf(txCpu, ENET_TXBUF_NUM)
    /\ pc' = "stack"
    /\ UNCHANGED <<rxRing, txOwner, txFrame, txDma, replies, sent, dropped, len, p, taken>>

\* ... and, if TBU or TU is set, writes TPEN; then it moves on.
Demand ==
    /\ pc = "demand"
    /\ tbu' = FALSE
    /\ txCpu' = NextOf(txCpu, ENET_TXBUF_NUM)
    /\ pc' = "stack"
    /\ UNCHANGED <<rxRing, txOwner, txFrame, txDma, replies, sent, dropped, len, p, taken>>

\* The end of a turn of the loop.
NextTurn ==
    /\ pc = "stack"
    /\ pc' = "poll" /\ dropped' = FALSE /\ len' = 0 /\ p' = Empty
    /\ UNCHANGED <<rxRing, txRing, taken>>

RxMain == PollNone \/ PollDrop \/ PollFrame \/ ReadLength \/ CopyFrame \/ ReleaseBusy
          \/ Release \/ Resume \/ Input
TxMain == LowLevelOutput \/ Demand
Main   == RxMain \/ Send \/ TxMain \/ NextTurn

RingNext == Dma \/ Main

RingSpec == RingInit /\ [][RingNext]_ringVars

\* Main runs, the DMA writes the second part of a frame, and the MAC sends what
\* it is given.  No frame need arrive, and lwIP need not send.
RingFairSpec ==
    /\ RingSpec
    /\ WF_ringVars(RxMain) /\ WF_ringVars(TxMain) /\ WF_ringVars(NextTurn)
    /\ WF_ringVars(RxStoreSecond) /\ WF_ringVars(TxSend)

-----------------------------------------------------------------------------
Numbers  == 0 .. MaxFrames
Statuses == [id : Numbers, errs : BOOLEAN, fdes : BOOLEAN, ldes : BOOLEAN]

\* Type correctness of the rings and of main.
RingTypeOK ==
    /\ rxOwner \in [RxDescs -> {"dma", "cpu"}] /\ rxDesc \in [RxDescs -> Statuses]
    /\ rxCpu \in RxDescs /\ rxDma \in RxDescs /\ rbu \in BOOLEAN
    /\ arrived \in Numbers /\ second \in {0, arrived} /\ taken \in 0 .. arrived
    /\ txOwner \in [TxDescs -> {"dma", "cpu"}]
    /\ txFrame \in [TxDescs -> 0 .. MaxReplies]
    /\ txCpu \in TxDescs /\ txDma \in TxDescs /\ tbu \in BOOLEAN
    /\ replies \in 0 .. MaxReplies /\ sent \in 0 .. replies
    /\ pc \in {"poll", "length", "copy", "release", "resume", "input", "stack",
               "output", "demand"}
    /\ dropped \in BOOLEAN /\ len \in Numbers
    /\ p \in [id : Numbers, ok : BOOLEAN]

\* d lies in the part of a ring of descriptors that begins with a and ends
\* before b; the whole ring or nothing when the two meet.
Within(a, d, b, full) ==
    IF a < b THEN a <= d /\ d < b ELSE IF a > b THEN a <= d \/ d < b ELSE full

\* How far d is from a.
Ahead(a, d, n) == IF d >= a THEN d - a ELSE d + n - a

\* The descriptors of the program are those between its own current one and that
\* of the DMA, in both rings, however they wrapped and whoever was interrupted
\* where.  (Between LowLevelOutput and Demand the current one is still to move.)
TxNext == IF pc = "demand" THEN NextOf(txCpu, ENET_TXBUF_NUM) ELSE txCpu
Window(owner, side, a, b, n) ==
    \A d \in 0 .. n - 1 : owner[d] = side <=> Within(a, d, b, owner[a] = side)
Windows ==
    /\ Window(rxOwner, "cpu", rxCpu, rxDma, ENET_RXBUF_NUM)
    /\ Window(txOwner, "dma", txDma, TxNext, ENET_TXBUF_NUM)

\* What lwIP is given is the frame whose length was read, although the buffer is
\* copied later: the DMA has not reused it.
CopiedBeforeReuse == p.id \in {0, len}

\* lwIP is given frames in the order of their arrival, each at most once.
RxQueue == INSTANCE FrameQueue WITH
    Lossy <- TRUE, Direct <- FALSE, Capacity <- 0,
    offered <- arrived, taken <- taken
RxQueueSpec == RxQueue!QueueSpec

\* What lwIP sends goes out in order, complete, and never more than the ring
\* holds is under way: no descriptor is written over before it was sent.
TxQueue == INSTANCE FrameQueue WITH
    Lossy <- FALSE, Direct <- FALSE, Capacity <- ENET_TXBUF_NUM,
    offered <- replies, taken <- sent
TxQueueSpec == TxQueue!QueueSpec

\* The result 1 of enet_rxframe_size_get, which main takes for a frame, is the
\* only way in which a frame gets lost or gets by unchecked: a valid frame is
\* given back uncopied for want of a pbuf or when it came after a drop, into a
\* descriptor that was empty when its length was read; lwIP is given an invalid
\* frame only after a drop.
GivesBackUnread ==
    /\ rxOwner[rxCpu] = "cpu" /\ rxOwner'[rxCpu] = "dma"
    /\ Valid(rxDesc[rxCpu]) /\ p.id # rxDesc[rxCpu].id
ExplainedStep ==
    /\ GivesBackUnread => p = Null \/ (p = Empty /\ dropped)
    /\ taken' # taken /\ ~p.ok => dropped
Explained == [][ExplainedStep]_ringVars

\* A suspended reception is always resumed, although enet_rxframe_drop makes no
\* poll demand: main takes the descriptor after the one that was dropped at once.
RxResumed == rbu ~> ~rbu

\* Every frame that lwIP sends gets out, the last one before a pause too, and
\* low_level_output, which waits without a limit for its descriptor, comes back.
SendCompletes ==
    /\ \A n \in 1 .. MaxReplies : (replies = n) ~> (sent >= n)
    /\ pc = "output" ~> pc = "poll"
=============================================================================
