-------------------------------- MODULE Nic --------------------------------
(***************************************************************************)
(* The network card drivers of lwip/port/netif/{rtl8139,virtio}.h and the  *)
(* part of drivers/net/network.h that starts and polls them.  The kernel   *)
(* has one thread, which polls the card for frames and waits for each      *)
(* frame it sends with a count of polls as time-out; the card is a second  *)
(* actor that reads and writes the same memory at any moment.              *)
(*                                                                         *)
(* A frame is a number.  The receive ring of the RTL8139 is an array of    *)
(* cells; a frame takes one or more of them, the header in the first.      *)
(***************************************************************************)
EXTENDS Naturals, Sequences, SequencesExt

CONSTANTS
  RX_CELLS,    \* RTL_RX_SZ: cells of the receive ring
  TX_SLOTS,    \* transmit buffers of the RTL8139 (4)
  QUEUE_SIZE,  \* receive buffers of the virtio card
  Batch,       \* frames one call of rtl_input takes (16)
  Timeout,     \* polls before a transmission is given up (1000000)
  Sizes,       \* cells a frame may take
  MaxEvents    \* bound: frames sent, frames received and bring-ups together

ASSUME NicAssumption ==
  /\ RX_CELLS \in Nat \ {0} /\ TX_SLOTS \in Nat \ {0}
  /\ QUEUE_SIZE \in Nat \ {0} /\ Batch \in Nat \ {0}
  /\ Timeout \in Nat \ {0}
  /\ Sizes \subseteq 1..(RX_CELLS - 1)
  /\ MaxEvents \in Nat

VARIABLES
  nic,      \* detected_nic: "rtl" or "virtio"
  dev,      \* the card: "off", "open" (running, memory not yet set up), "on"
  ups,      \* bring-ups so far
  pc,       \* where the kernel's thread is
  back,     \* where it goes when the driver's output function returns
  \* sending
  cur,      \* rtl_tx_cur
  buf,      \* the frame in each transmit buffer, 0 for none
  owed,     \* per buffer: transmissions asked for and not completed
  dma,      \* the buffer the card is reading, and the frame in it at first
  used,     \* tx_used->idx
  old_used,
  left,     \* polls left before the time-out
  result,   \* what the output function returned, call by call
  wire,     \* what the card sent
  before,   \* frames sent before the last bring-up was over
  spoilt,   \* frames put in a buffer that was still in the card's hands
  \* receiving
  ring,     \* rtl_rx_buf()
  dev_at,   \* where the card writes next
  capr,     \* the read pointer the driver last told the card
  rx_ptr,   \* rtl_rx_ptr
  pkt,      \* frames taken by the current call
  taken,    \* cells or buffer of the frame that is being passed to lwIP
  rx_avail, \* virtio: buffers the card may fill
  rx_used,  \* virtio: filled buffers the driver has not looked at
  first,    \* frames received before the last bring-up
  arrived,  \* frames the card has stored
  early,    \* a frame was stored between the card's start and the clearing
  seen      \* frames the driver took since the last bring-up, in order; no
            \* more are recorded than the card can have stored, and one

txVars == <<cur, buf, owed, dma, used, old_used, left, result, wire,
            before, spoilt>>
rxVars == <<ring, dev_at, capr, rx_ptr, pkt, taken, rx_avail, rx_used,
            first, arrived, early, seen>>
vars == <<nic, dev, ups, pc, back, txVars, rxVars>>

Slots == 0..(TX_SLOTS - 1)
Cells == 0..(RX_CELLS - 1)
Torn    == 0  \* a frame overwritten while the card read it
Garbage == 0  \* old bytes taken for a frame

Blank        == [kind |-> "blank", frame |-> 0, size |-> 0]
Header(f, n) == [kind |-> "head", frame |-> f, size |-> n]
Body(f)      == [kind |-> "body", frame |-> f, size |-> 0]
Cell(p) == p % RX_CELLS

Sending == pc \in {"posted", "rtl_poll", "virtio_poll"}
EventLeft ==
  Len(result) + (IF Sending THEN 1 ELSE 0) + arrived + ups < MaxEvents
-----------------------------------------------------------------------------
(* Starting the card.  rtl_hw_init and eth0_up reset it, start it, and     *)
(* only then clear the receive ring and their own pointers.  At first      *)
(* rtl_hw_init has started the RTL8139 and is about to clear.              *)
Init ==
  /\ \/ nic = "rtl" /\ dev = "open" /\ pc = "clear"
     \/ nic = "virtio" /\ dev = "on" /\ pc = "idle"
  /\ ups = 0 /\ back = "idle"
  /\ cur = 0 /\ buf = [s \in Slots |-> 0] /\ owed = [s \in Slots |-> 0]
  /\ dma = <<>> /\ used = 0 /\ old_used = 0 /\ left = 0
  /\ result = <<>> /\ wire = <<>> /\ before = 0 /\ spoilt = {}
  /\ ring = [c \in Cells |-> Blank]
  /\ dev_at = 0 /\ capr = 0 /\ rx_ptr = 0 /\ pkt = 0 /\ taken = 0
  /\ rx_avail = [k \in 1..QUEUE_SIZE |-> k] /\ rx_used = <<>>
  /\ first = 0 /\ arrived = 0 /\ early = FALSE /\ seen = <<>>

\* The reset bit does not clear in time: the card stays in reset.
eth0_up_fails ==
  /\ nic = "rtl" /\ pc = "idle" /\ EventLeft
  /\ ups' = ups + 1
  /\ dev' = "off"
  /\ owed' = [s \in Slots |-> 0] /\ dma' = <<>>
  /\ dev_at' = 0 /\ capr' = 0
  /\ before' = Len(result)
  /\ UNCHANGED <<nic, pc, back, cur, buf, used, old_used, left, result, wire,
                 spoilt>>
  /\ UNCHANGED <<ring, rx_ptr, pkt, taken, rx_avail, rx_used, first, arrived,
                 early, seen>>

\* The card runs from here on.  netif_set_ipaddr, netif_set_up or
\* netif_set_link_up may send one gratuitous ARP before the clearing.
eth0_up ==
  /\ nic = "rtl" /\ pc = "idle" /\ EventLeft
  /\ ups' = ups + 1
  /\ dev' = "open"
  /\ pc' = "up"
  /\ owed' = [s \in Slots |-> 0] /\ dma' = <<>>
  /\ dev_at' = 0 /\ capr' = 0
  /\ before' = Len(result)
  /\ first' = arrived /\ early' = FALSE /\ seen' = <<>>
  /\ UNCHANGED <<nic, back, cur, buf, used, old_used, left, result, wire,
                 spoilt>>
  /\ UNCHANGED <<ring, rx_ptr, pkt, taken, rx_avail, rx_used, arrived>>

(* Mutant of eth0_clear: the driver's receive pointer is not reset. *)
MutClearKeepsPtr ==
  /\ pc \in {"up", "clear"}
  /\ dev' = "on"
  /\ pc' = "idle"
  /\ ring' = [c \in Cells |-> Blank]
  /\ cur' = 0 /\ before' = Len(result)
  /\ UNCHANGED <<nic, ups, back, buf, owed, dma, used, old_used, left, result,
                 wire, spoilt, dev_at, capr, rx_ptr, pkt, taken, rx_avail, rx_used,
                 first, arrived, early, seen>>

eth0_clear ==
  /\ pc \in {"up", "clear"}
  /\ dev' = "on"
  /\ pc' = "idle"
  /\ ring' = [c \in Cells |-> Blank]
  /\ rx_ptr' = 0 /\ cur' = 0 /\ before' = Len(result)
  /\ UNCHANGED <<nic, ups, back, buf, owed, dma, used, old_used, left, result,
                 wire, spoilt, dev_at, capr, pkt, taken, rx_avail, rx_used, first,
                 arrived, early, seen>>
-----------------------------------------------------------------------------
(* Sending: linkoutput is called by lwIP, from a command, from within      *)
(* netif->input, and once by eth0_up.                                      *)
MayOutput == pc \in {"idle", "input", "up"} /\ EventLeft
Frame == Len(result) + 1

rtl_output ==
  /\ nic = "rtl" /\ MayOutput
  /\ buf' = [buf EXCEPT ![cur] = Frame]
  /\ owed' = [owed EXCEPT ![cur] = 1]
  /\ spoilt' = IF owed[cur] = 0 THEN spoilt ELSE spoilt \cup {Frame}
  /\ left' = Timeout
  /\ pc' = "rtl_poll" /\ back' = IF pc = "up" THEN "clear" ELSE pc
  /\ UNCHANGED <<nic, dev, ups, cur, dma, used, old_used, result, wire, before,
                 rxVars>>

\* One buffer and one descriptor serve every frame.
virtio_output ==
  /\ nic = "virtio" /\ MayOutput
  /\ buf' = [buf EXCEPT ![0] = Frame]
  /\ owed' = [owed EXCEPT ![0] = @ + 1]
  /\ pc' = "posted" /\ back' = pc
  /\ UNCHANGED <<nic, dev, ups, cur, dma, used, old_used, left, result, wire,
                 before, spoilt, rxVars>>

virtio_sample ==
  /\ pc = "posted"
  /\ old_used' = used
  /\ left' = Timeout
  /\ pc' = "virtio_poll"
  /\ UNCHANGED <<nic, dev, ups, back, cur, buf, owed, dma, used, result, wire,
                 before, spoilt, rxVars>>

Return(err) ==
  /\ result' = Append(result, err)
  /\ pc' = back /\ back' = "idle"
  /\ old_used' = 0 /\ left' = 0
  /\ UNCHANGED <<nic, dev, ups, buf, owed, dma, used, wire, before, spoilt,
                 rxVars>>

\* After the loop: its counter is not positive when it ran out, and also
\* when the very last poll found the bit clear.
RtlDone(t) ==
  /\ cur' = IF t > 0 THEN (cur + 1) % TX_SLOTS ELSE cur
  /\ Return(IF t > 0 THEN "ERR_OK" ELSE "ERR_BUF")

\* The loop waits for bit 31 of the status to be clear.  That is not the bit
\* by which the card gives the buffer back (0x2000, the one rtl_send asks), so
\* the poll may find it set or clear whatever the card is doing.
rtl_poll ==
  /\ pc = "rtl_poll"
  /\ \/ /\ left > 0
        /\ left' = left - 1
        /\ UNCHANGED <<nic, dev, ups, pc, back, cur, buf, owed, dma, used,
                       old_used, result, wire, before, spoilt, rxVars>>
     \/ /\ left > 0
        /\ RtlDone(left - 1)
     \/ /\ left = 0
        /\ RtlDone(0)

(* Mutant of VirtioDone: a time-out is taken for success. *)
MutDoneAlways ==
  /\ UNCHANGED cur
  /\ Return("ERR_OK")

VirtioDone ==
  /\ UNCHANGED cur
  /\ Return(IF left = 0 THEN "ERR_BUF" ELSE "ERR_OK")

virtio_poll ==
  /\ pc = "virtio_poll"
  /\ \/ /\ used = old_used /\ left > 0
        /\ left' = left - 1
        /\ UNCHANGED <<nic, dev, ups, pc, back, cur, buf, owed, dma, used,
                       old_used, result, wire, before, spoilt, rxVars>>
     \/ /\ used # old_used \/ left = 0
        /\ VirtioDone

\* The card reads a buffer it was given ...
CardReads ==
  /\ dev # "off" /\ dma = <<>>
  /\ \E s \in Slots :
       /\ owed[s] > 0
       /\ dma' = <<s, buf[s]>>
  /\ UNCHANGED <<nic, dev, ups, pc, back, cur, buf, owed, used, old_used, left,
                 result, wire, before, spoilt, rxVars>>

\* ... and says that it is done.
CardSent ==
  /\ dma # <<>>
  /\ wire' = Append(wire, IF buf[dma[1]] = dma[2] THEN dma[2] ELSE Torn)
  /\ owed' = [owed EXCEPT ![dma[1]] = @ - 1]
  /\ used' = IF nic = "virtio" THEN used + 1 ELSE used
  /\ dma' = <<>>
  /\ UNCHANGED <<nic, dev, ups, pc, back, cur, buf, old_used, left, result,
                 before, spoilt, rxVars>>
-----------------------------------------------------------------------------
(* Receiving. *)
RtlRoom(n) ==
  LET free == Cell(RX_CELLS + capr - dev_at)
  IN free = 0 \/ n < free

\* The card stores a frame; one it has no room for is lost.
RtlStores(n) ==
  /\ nic = "rtl" /\ dev # "off" /\ EventLeft
  /\ RtlRoom(n)
  /\ arrived' = arrived + 1
  /\ ring' = [c \in Cells |->
                IF c = dev_at THEN Header(arrived + 1, n)
                ELSE IF \E k \in 1..(n - 1) : c = Cell(dev_at + k)
                  THEN Body(arrived + 1)
                ELSE ring[c]]
  /\ dev_at' = Cell(dev_at + n)
  /\ early' = (early \/ dev = "open")
  /\ UNCHANGED <<nic, dev, ups, pc, back, txVars, capr, rx_ptr, pkt, taken,
                 rx_avail, rx_used, first, seen>>

VirtioStores ==
  /\ nic = "virtio" /\ EventLeft
  /\ rx_avail # <<>>
  /\ arrived' = arrived + 1
  /\ rx_used' = Append(rx_used, <<rx_avail[1], arrived + 1>>)
  /\ rx_avail' = Tail(rx_avail)
  /\ UNCHANGED <<nic, dev, ups, pc, back, txVars, ring, dev_at, capr, rx_ptr,
                 pkt, taken, first, early, seen>>

net_poll ==
  /\ pc = "idle"
  /\ pc' = "rx"
  /\ UNCHANGED <<nic, dev, ups, back, txVars, rxVars>>

\* What the driver may make of the cell at its pointer.  Only the status word
\* is asked, so the header of a frame of the last lap is one; the middle of
\* a frame may look like anything.
Whole(p, f, n) ==
  \A k \in 1..(n - 1) : ring[Cell(p + k)] = Body(f)
Readings(p) ==
  LET c == ring[p]
  IN CASE c.kind = "blank" -> {}
       [] c.kind = "head" ->
            {<<IF Whole(p, c.frame, c.size) THEN c.frame ELSE Garbage, c.size>>}
       [] OTHER -> {<<Garbage, n>> : n \in Sizes}

Noted(f) == IF Len(seen) <= MaxEvents THEN Append(seen, f) ELSE seen

\* A frame is copied out and passed to lwIP; when there is no pbuf for it, it
\* is passed over.
RtlTakes ==
  /\ nic = "rtl" /\ pc = "rx" /\ pkt < Batch
  /\ \E r \in Readings(rx_ptr) :
       /\ seen' = Noted(r[1])
       /\ taken' = r[2]
  /\ pc' = "input"
  /\ pkt' = pkt + 1
  /\ UNCHANGED <<nic, dev, ups, back, txVars, ring, dev_at, capr, rx_ptr,
                 rx_avail, rx_used, first, arrived, early>>

VirtioTakes ==
  /\ nic = "virtio" /\ pc = "rx" /\ pkt = 0 /\ rx_used # <<>>
  /\ seen' = Noted(rx_used[1][2])
  /\ taken' = rx_used[1][1]
  /\ rx_used' = Tail(rx_used)
  /\ pc' = "input"
  /\ pkt' = 1
  /\ UNCHANGED <<nic, dev, ups, back, txVars, ring, dev_at, capr, rx_ptr,
                 rx_avail, first, arrived, early>>

(* Mutants of InputReturns: the frame's size does not count its header; the *)
(* buffer is not given back.                                               *)
MutReturnShort ==
  /\ pc = "input"
  /\ pc' = "rx"
  /\ rx_ptr' = IF nic = "rtl" THEN Cell(rx_ptr + taken - 1) ELSE rx_ptr
  /\ capr' = rx_ptr'
  /\ rx_avail' = IF nic = "rtl" THEN rx_avail ELSE Append(rx_avail, taken)
  /\ taken' = 0
  /\ UNCHANGED <<nic, dev, ups, back, txVars, ring, dev_at, pkt, rx_used, first,
                 arrived, early, seen>>
MutReturnKeeps ==
  /\ pc = "input"
  /\ pc' = "rx"
  /\ rx_ptr' = IF nic = "rtl" THEN Cell(rx_ptr + taken) ELSE rx_ptr
  /\ capr' = rx_ptr'
  /\ taken' = 0
  /\ UNCHANGED <<nic, dev, ups, back, txVars, ring, dev_at, pkt, rx_avail,
                 rx_used, first, arrived, early, seen>>

\* netif->input has returned: the cells or the buffer go back to the card.
InputReturns ==
  /\ pc = "input"
  /\ pc' = "rx"
  /\ IF nic = "rtl"
       THEN /\ rx_ptr' = Cell(rx_ptr + taken)
            /\ capr' = rx_ptr'
            /\ UNCHANGED rx_avail
       ELSE /\ rx_avail' = Append(rx_avail, taken)
            /\ UNCHANGED <<rx_ptr, capr>>
  /\ taken' = 0
  /\ UNCHANGED <<nic, dev, ups, back, txVars, ring, dev_at, pkt, rx_used, first,
                 arrived, early, seen>>

\* The poll ends: nothing there, a bad length, or enough for one call.
PollEnds ==
  /\ pc = "rx"
  /\ \/ nic = "rtl" /\ (pkt = Batch \/ ring[rx_ptr].kind # "head")
     \/ nic = "virtio" /\ (pkt = 1 \/ rx_used = <<>>)
  /\ pc' = "idle"
  /\ pkt' = 0
  /\ UNCHANGED <<nic, dev, ups, back, txVars, ring, dev_at, capr, rx_ptr, taken,
                 rx_avail, rx_used, first, arrived, early, seen>>
-----------------------------------------------------------------------------
Output == rtl_output \/ virtio_output
TxStep == virtio_sample \/ rtl_poll \/ virtio_poll
RxStep == RtlTakes \/ VirtioTakes \/ InputReturns \/ PollEnds
Card == CardReads \/ CardSent \/ VirtioStores \/ \E n \in Sizes : RtlStores(n)

Next ==
  \/ eth0_up \/ eth0_up_fails \/ eth0_clear
  \/ Output \/ TxStep
  \/ net_poll \/ RxStep
  \/ Card

Spec == Init /\ [][Next]_vars

\* The thread runs and the commands that wait for the network keep polling;
\* nothing is assumed of the card.
FairSpec ==
  /\ Spec
  /\ WF_vars(eth0_clear) /\ WF_vars(TxStep)
  /\ WF_vars(net_poll) /\ WF_vars(RxStep)
-----------------------------------------------------------------------------
\* The pointers stay inside the ring, and no poll takes more than its share.
TypeOK ==
  /\ nic \in {"rtl", "virtio"} /\ dev \in {"off", "open", "on"}
  /\ pc \in {"idle", "up", "clear", "posted", "rtl_poll", "virtio_poll", "rx", "input"}
  /\ back \in {"idle", "input", "clear"}
  /\ cur \in Slots /\ left \in 0..Timeout
  /\ buf \in [Slots -> 0..MaxEvents]
  /\ owed \in [Slots -> 0..MaxEvents]
  /\ nic = "rtl" => owed \in [Slots -> 0..1]
  /\ ToSet(result) \subseteq {"ERR_OK", "ERR_BUF"}
  /\ ToSet(wire) \subseteq 0..MaxEvents
  /\ {dev_at, capr, rx_ptr} \subseteq Cells
  /\ pkt \in 0..Batch
  /\ ToSet(seen) \subseteq 0..MaxEvents

TimedOut(k) == result[k] = "ERR_BUF"

Sent == IF Sending THEN Frame ELSE Len(result)  \* frames handed over so far
Waiting(k) == \E s \in Slots : buf[s] = k /\ owed[s] > 0

\* ERR_OK means, on the virtio card, that the frame went out whole, unless a
\* call before it timed out: the late completion is then counted for the next
\* frame, and so on.  On the RTL8139 it means no more than that the card was
\* given the frame: it went out, or waits in its buffer, or its buffer was
\* taken for the frame TX_SLOTS calls later, or was still the card's when the
\* frame was put there, or eth0_up reset the card or the rotation since.
OkMeansSent ==
  \A k \in DOMAIN result :
    result[k] = "ERR_OK" =>
      \/ k \in ToSet(wire)
      \/ nic = "rtl" /\ (Waiting(k) \/ k \in spoilt \/ k <= before \/ k + TX_SLOTS <= Sent)
      \/ nic = "virtio" /\ \E j \in 1..(k - 1) : TimedOut(j)

\* A frame of the RTL8139 is put in a buffer the card may still read only
\* when the last call timed out, TX_SLOTS calls after the frame that is in it,
\* or when that one is from before the end of the last bring-up.
ReuseIsLate ==
  nic = "rtl" /\ ~Sending /\ owed[cur] # 0 =>
    \/ buf[cur] <= before
    \/ buf[cur] = Len(result) /\ TimedOut(Len(result))
    \/ buf[cur] + TX_SLOTS <= Frame

\* As long as no call timed out, the virtio card sends the frames one by one,
\* in the order of the calls, each once.
WireInOrder ==
  nic = "virtio" /\ "ERR_BUF" \notin ToSet(result) =>
    IsPrefix(wire, [k \in 1..Frame |-> k])

\* The RTL8139 never sends a frame twice, whatever the polls see and however
\* often it is brought up.
RtlNeverTwice ==
  nic = "rtl" =>
    \A j, k \in DOMAIN wire : j # k /\ wire[j] = wire[k] => wire[j] = Torn

\* What a result says of the frames on the wire, with time-outs and without.
ResultsTrue == OkMeansSent /\ ReuseIsLate /\ WireInOrder /\ RtlNeverTwice

\* The output functions return, whatever the card does.
OutputReturns == Sending ~> ~Sending

\* The ring has been filled once: the cell the card writes next holds old
\* bytes, which the driver cannot tell from a new frame.
Lapped == ring[dev_at] # Blank
InStep == nic = "virtio" \/ (~early /\ ~Lapped)

\* The driver takes the frames as they arrived, none twice, none left out:
\* on the virtio card always, on the RTL8139 until the ring has been filled
\* once, if no frame came between the card's start and the clearing.
FramesInOrder ==
  InStep => IsPrefix(seen, [k \in 1..(arrived - first) |-> first + k])

\* A frame the card has stored is taken, or erased by the next bring-up.
FramesTaken ==
  \A f \in 1..MaxEvents :
    (arrived >= f /\ first < f)
      ~> (f \in ToSet(seen) \/ first >= f \/ ~InStep)

\* Neither direction stops: each call returns and each frame is taken.
Flows == OutputReturns /\ FramesTaken

\* No receive buffer of the virtio card is lost or given out twice, also
\* while lwIP sends from within netif->input.
BuffersKept ==
  LET held == rx_avail \o [k \in DOMAIN rx_used |-> rx_used[k][1]]
              \o (IF nic = "virtio" /\ taken # 0 THEN <<taken>> ELSE <<>>)
  IN ToSet(held) = 1..QUEUE_SIZE /\ Len(held) = QUEUE_SIZE

\* Pointers and counters in range, and every receive buffer in one place.
BuffersSound == TypeOK /\ BuffersKept
=============================================================================
