----------------------------- MODULE NicProofs -----------------------------
(***************************************************************************)
(* The network card drivers for any number of transmit buffers, receive    *)
(* cells and buffers, any batch, any time-out and any sizes of frames: no  *)
(* receive buffer is lost or given out twice, ERR_OK is told of a frame    *)
(* that went out, and the frames are taken in the order they arrived.      *)
(***************************************************************************)
EXTENDS Nic, SequenceTheorems, TLAPS

(* The types TypeOK leaves open. *)
RingCell == [kind: {"blank", "head", "body"}, frame: 0..MaxEvents, size: 0..(RX_CELLS - 1)]

CtlTypes ==
  /\ nic \in {"rtl", "virtio"} /\ dev \in {"off", "open", "on"}
  /\ pc \in {"idle", "up", "clear", "posted", "rtl_poll", "virtio_poll", "rx", "input"}
  /\ back \in {"idle", "input", "clear"}
TxTypes ==
  /\ cur \in Slots /\ left \in 0..Timeout
  /\ buf \in [Slots -> 0..MaxEvents] /\ owed \in [Slots -> 0..MaxEvents]
  /\ nic = "rtl" => owed \in [Slots -> 0..1]
  /\ result \in Seq({"ERR_OK", "ERR_BUF"}) /\ wire \in Seq(0..MaxEvents)
  /\ dma = <<>> \/ dma \in Slots \X (0..MaxEvents)
  /\ used \in Nat /\ old_used \in Nat /\ before \in Nat
RxTypes ==
  /\ ring \in [Cells -> RingCell]
  /\ \A c \in Cells : ring[c].kind = "head" => ring[c].size # 0
  /\ dev_at \in Cells /\ capr \in Cells /\ rx_ptr \in Cells
  /\ pkt \in 0..Batch /\ taken \in Nat
  /\ rx_avail \in Seq(1..QUEUE_SIZE) /\ rx_used \in Seq((1..QUEUE_SIZE) \X (1..MaxEvents))
  /\ seen \in Seq(0..MaxEvents)
Shapes == CtlTypes /\ TxTypes /\ RxTypes

(* Every event is counted, so none takes a number above MaxEvents. *)
Sends == Len(result) + (IF Sending THEN 1 ELSE 0)
Counts ==
  /\ ups \in Nat /\ arrived \in Nat /\ first \in 0..arrived
  /\ Sends + arrived + ups <= MaxEvents

(* Where the thread can be. *)
Busy == pc = "input" \/ (Sending /\ back = "input")
Opening == pc \in {"up", "clear"} \/ (Sending /\ back = "clear")
Places ==
  /\ pc \in {"rtl_poll", "up", "clear"} => nic = "rtl"
  /\ pc \in {"posted", "virtio_poll"} => nic = "virtio"
  /\ ~Sending => back = "idle"
  /\ dev = "open" <=> Opening
  /\ nic = "virtio" => cur = 0 /\ dev = "on" /\ (taken # 0 <=> Busy)
-----------------------------------------------------------------------------
(* Sending, on either card: no frame is in a buffer or on the wire before  *)
(* it was sent, and the card reads only what it was given.                 *)
Bounds ==
  /\ \A s \in Slots : buf[s] <= Sends /\ owed[s] <= Sends /\ (owed[s] # 0 => buf[s] # Torn)
  /\ dma # <<>> => owed[dma[1]] # 0 /\ dma[2] # Torn
  /\ \A k \in DOMAIN wire : wire[k] <= Sends
  /\ Sending => buf[cur] = Frame
  /\ before <= Len(result)

(* Sending on the virtio card: one buffer serves every frame.  As long as  *)
(* no call timed out, the card has the frame that is being sent, or has    *)
(* sent it; after a time-out the count of completions stays one behind.    *)
NoTimeouts == "ERR_BUF" \notin ToSet(result)

CleanTx ==
  NoTimeouts =>
    /\ owed[cur] <= 1
    /\ ~Sending => owed[cur] = 0
    /\ Sending /\ dma # <<>> => dma[2] = buf[cur]
    /\ Sending /\ owed[cur] = 0 => Frame \in ToSet(wire)
    /\ pc = "virtio_poll" /\ owed[cur] = 1 => used = old_used

InOrderTx ==
  NoTimeouts =>
    /\ \A k \in DOMAIN wire : wire[k] = k
    /\ Len(wire) + owed[cur] = Sends

VirtioTx ==
  nic = "virtio" =>
    /\ \A s \in Slots \ {cur} : owed[s] = 0
    /\ CleanTx /\ InOrderTx
    /\ \A k \in DOMAIN result :
         result[k] = "ERR_OK" => k \in ToSet(wire) \/ \E j \in 1..(k - 1) : TimedOut(j)

(* Sending on the RTL8139: the buffers are used in turn, and the card may  *)
(* still have any of them.                                                 *)
Unsent == \A s \in Slots : owed[s] # 0 => buf[s] \notin ToSet(wire)
Apart == \A s, t \in Slots : s # t /\ buf[s] # Torn => buf[s] # buf[t]
Marked == dma # <<>> /\ dma[2] # buf[dma[1]] => buf[dma[1]] \in spoilt

(* How many frames ago a buffer was last used, at least. *)
Gap(s) == IF s < cur THEN cur - s ELSE cur + TX_SLOTS - s
JustTimedOut(s) == s = cur /\ Len(result) # 0 /\ TimedOut(Len(result)) /\ buf[s] = Len(result)
Late(s) ==
  buf[s] <= before \/ buf[s] + Gap(s) <= Frame \/ (s = cur /\ Sending) \/ JustTimedOut(s)

Accounted(k) ==
  k \in ToSet(wire) \/ Waiting(k) \/ k \in spoilt \/ k <= before \/ k + TX_SLOTS <= Sends
Handed ==
  \A k \in 1..Sends : (k \in DOMAIN result => result[k] = "ERR_OK") => Accounted(k)

RtlTx ==
  nic = "rtl" =>
    Unsent /\ Apart /\ Marked /\ (\A s \in Slots : Late(s)) /\ Handed /\ RtlNeverTwice

TxInv == Bounds /\ VirtioTx /\ RtlTx
-----------------------------------------------------------------------------
(* Receiving on the virtio card: what the driver has taken and the used    *)
(* ring together are the frames that arrived, in order.                    *)
VirtioRx ==
  nic = "virtio" =>
    /\ first = 0 /\ Len(seen) + Len(rx_used) = arrived
    /\ \A k \in DOMAIN seen : seen[k] = k
    /\ \A k \in DOMAIN rx_used : rx_used[k][2] = Len(seen) + k

(* Receiving on the RTL8139, until the ring has been filled once: the      *)
(* frames lie one behind the other from cell 0 to where the card writes    *)
(* next, and the driver stands at the first it has not taken.              *)
AtFrame(c, f) == c < dev_at /\ ring[c].kind = "head" /\ ring[c].frame = f

Chained(c) ==
  LET h == ring[c] IN
  /\ c + h.size <= dev_at /\ h.frame <= arrived
  /\ \A k \in 1..(h.size - 1) : ring[c + k] = Body(h.frame)
  /\ (c + h.size = dev_at /\ h.frame = arrived) \/ AtFrame(c + h.size, h.frame + 1)

Pointed ==
  LET n == first + Len(seen) IN
  IF Busy THEN AtFrame(rx_ptr, n) /\ taken = ring[rx_ptr].size
  ELSE (rx_ptr = dev_at /\ n = arrived) \/ AtFrame(rx_ptr, n + 1)

Linear ==
  /\ \A c \in Cells : c < dev_at <=> ring[c] # Blank
  /\ \A c \in Cells : ring[c].kind = "head" => Chained(c)
  /\ \A k \in DOMAIN seen : seen[k] = first + k
  /\ first + Len(seen) <= arrived
  /\ rx_ptr <= dev_at
  /\ Pointed

Filled == \A c \in Cells : ring[c] # Blank
Dead == dev = "off" /\ dev_at = 0 /\ ring[0] # Blank

RtlRx ==
  nic = "rtl" /\ ~early =>
    IF dev = "open" THEN dev_at = 0 /\ first = arrived /\ seen = <<>>
    ELSE Linear \/ Filled \/ Dead

NicInv == Shapes /\ Counts /\ Places /\ TxInv /\ VirtioRx /\ RtlRx /\ BuffersKept
-----------------------------------------------------------------------------
(* What the operators compute. *)

(* Cell wraps an offset into the receive ring, and leaves one inside it as it is. *)
LEMMA CellIs ==
  /\ \A x \in Nat : Cell(x) \in Cells
  /\ \A x \in Cells : Cell(x) = x
  /\ \A x \in Cells : x \in Nat /\ x < RX_CELLS
  /\ \A x \in Nat : RX_CELLS <= x /\ x < 2 * RX_CELLS => Cell(x) = x - RX_CELLS
  /\ 0 \in Cells
BY NicAssumption DEF Cell, Cells

(* The successor of a transmit slot, around the end, is a transmit slot. *)
LEMMA SlotsAre ==
  /\ 0 \in Slots
  /\ \A s \in Slots : s \in Nat /\ (s + 1) % TX_SLOTS \in Slots
BY NicAssumption DEF Slots

(* The number of transmissions is a natural, and the frame under way is the next. *)
LEMMA SendsIs ==
  ASSUME Shapes
  PROVE  /\ Len(result) \in Nat /\ Sends \in Nat /\ Frame = Len(result) + 1
         /\ Sending => Sends = Frame
         /\ ~Sending => Sends = Len(result)
BY DEF Shapes, TxTypes, Sends, Frame

(* An element of a sequence over S is in S, and its index within the length. *)
LEMMA SeqElem ==
  ASSUME NEW S, NEW s \in Seq(S), NEW k \in DOMAIN s
  PROVE  s[k] \in S /\ k \in Nat /\ 1 <= k /\ k <= Len(s)
OBVIOUS

(* The elements of a sequence over S are in S. *)
LEMMA ToSetType ==
  ASSUME NEW S, NEW s \in Seq(S)
  PROVE  ToSet(s) \subseteq S
BY DEF ToSet

(* The types of the proof imply those the run checks. *)
LEMMA ShapesTypeOK ==
  ASSUME Shapes
  PROVE  TypeOK
<1>1. /\ result \in Seq({"ERR_OK", "ERR_BUF"}) /\ wire \in Seq(0..MaxEvents)
      /\ seen \in Seq(0..MaxEvents)
  BY DEF Shapes, TxTypes, RxTypes
<1>2. /\ ToSet(result) \subseteq {"ERR_OK", "ERR_BUF"} /\ ToSet(wire) \subseteq 0..MaxEvents
      /\ ToSet(seen) \subseteq 0..MaxEvents
  BY <1>1, ToSetType
<1>3. QED
  BY <1>2 DEF Shapes, CtlTypes, TxTypes, RxTypes, TypeOK

(* A sequence that agrees with a longer one at each of its places is a prefix of it. *)
LEMMA PrefixOf ==
  ASSUME NEW S, NEW s \in Seq(S), NEW t \in Seq(S), Len(s) <= Len(t),
         \A k \in DOMAIN s : s[k] = t[k]
  PROVE  IsPrefix(s, t)
<1>1. Len(s) \in Nat /\ Len(t) \in Nat /\ DOMAIN s = 1..Len(s)
  OBVIOUS
<1>2. /\ SubSeq(s, 1, Len(s)) = [k \in 1..Len(s) |-> s[k]]
      /\ SubSeq(t, 1, Len(s)) = [k \in 1..Len(s) |-> t[k]]
  BY <1>1
<1>3. SubSeq(s, 1, Len(s)) = SubSeq(t, 1, Len(s))
  BY <1>1, <1>2
<1>4. QED
  BY <1>3 DEF IsPrefix

(* The set of a sequence that grew or shrank. *)
LEMMA ToSetAppend ==
  ASSUME NEW S, NEW s \in Seq(S), NEW e \in S
  PROVE  /\ Append(s, e) \in Seq(S) /\ Len(Append(s, e)) = Len(s) + 1
         /\ ToSet(Append(s, e)) = ToSet(s) \cup {e}
         /\ DOMAIN Append(s, e) = 1..(Len(s) + 1)
         /\ \A k \in DOMAIN s : Append(s, e)[k] = s[k]
         /\ Append(s, e)[Len(s) + 1] = e
<1>1. /\ Append(s, e) \in Seq(S) /\ Len(Append(s, e)) = Len(s) + 1
      /\ DOMAIN Append(s, e) = 1..(Len(s) + 1) /\ DOMAIN s = 1..Len(s) /\ Len(s) \in Nat
      /\ \A k \in DOMAIN s : Append(s, e)[k] = s[k]
      /\ Append(s, e)[Len(s) + 1] = e
  OBVIOUS
<1>2. ToSet(Append(s, e)) = ToSet(s) \cup {e}
  BY <1>1 DEF ToSet
<1>3. QED
  BY <1>1, <1>2

(* Head and tail of a sequence, as sets and lengths. *)
LEMMA ToSetTail ==
  ASSUME NEW S, NEW s \in Seq(S), s # <<>>
  PROVE  /\ s[1] \in S /\ Tail(s) \in Seq(S) /\ Len(Tail(s)) = Len(s) - 1 /\ Len(s) > 0
         /\ ToSet(s) = {s[1]} \cup ToSet(Tail(s))
         /\ \A k \in DOMAIN Tail(s) : k \in Nat /\ k + 1 \in DOMAIN s /\ Tail(s)[k] = s[k + 1]
<1>1. /\ s[1] \in S /\ Tail(s) \in Seq(S) /\ Len(Tail(s)) = Len(s) - 1
      /\ Len(s) \in Nat /\ Len(s) > 0 /\ DOMAIN s = 1..Len(s)
      /\ DOMAIN Tail(s) = 1..(Len(s) - 1)
      /\ \A k \in DOMAIN Tail(s) : Tail(s)[k] = s[k + 1]
  OBVIOUS
<1>2. ASSUME NEW k \in DOMAIN s PROVE s[k] = s[1] \/ \E j \in DOMAIN Tail(s) : Tail(s)[j] = s[k]
  <2>1. CASE k = 1
    BY <2>1
  <2>2. CASE k # 1
    <3>1. k - 1 \in DOMAIN Tail(s) /\ Tail(s)[k - 1] = s[k]
      BY <1>1, <2>2
    <3>2. QED
      BY <3>1
  <2>3. QED
    BY <2>1, <2>2
<1>3. 1 \in DOMAIN s /\ \A k \in DOMAIN Tail(s) : k \in Nat /\ k + 1 \in DOMAIN s
  BY <1>1
<1>4. ToSet(s) = {s[1]} \cup ToSet(Tail(s))
  BY <1>1, <1>2, <1>3 DEF ToSet
<1>5. QED
  BY <1>1, <1>3, <1>4
-----------------------------------------------------------------------------
(* Sending. *)

(* The facts the proofs about sending start from. *)
LEMMA TxFacts ==
  ASSUME NicInv
  PROVE  /\ nic \in {"rtl", "virtio"} /\ cur \in Slots /\ TX_SLOTS \in Nat
         /\ buf \in [Slots -> 0..MaxEvents] /\ owed \in [Slots -> 0..MaxEvents]
         /\ result \in Seq({"ERR_OK", "ERR_BUF"}) /\ wire \in Seq(0..MaxEvents)
         /\ dma = <<>> \/ dma \in Slots \X (0..MaxEvents)
         /\ used \in Nat /\ old_used \in Nat /\ left \in 0..Timeout /\ before \in Nat
         /\ Len(result) \in Nat /\ Sends \in Nat /\ Frame = Len(result) + 1
         /\ (Sending => Sends = Frame) /\ (~Sending => Sends = Len(result))
         /\ Sends <= MaxEvents
         /\ \A s \in Slots : buf[s] \in Nat /\ owed[s] \in Nat /\ s \in Nat
         /\ nic = "rtl" => \A s \in Slots : owed[s] \in {0, 1}
         /\ nic = "virtio" => cur = 0
         /\ DOMAIN result = 1..Len(result)
         /\ \A k \in DOMAIN wire : wire[k] \in Nat
<1>1. /\ nic \in {"rtl", "virtio"} /\ cur \in Slots
      /\ buf \in [Slots -> 0..MaxEvents] /\ owed \in [Slots -> 0..MaxEvents]
      /\ result \in Seq({"ERR_OK", "ERR_BUF"}) /\ wire \in Seq(0..MaxEvents)
      /\ dma = <<>> \/ dma \in Slots \X (0..MaxEvents)
      /\ used \in Nat /\ old_used \in Nat /\ left \in 0..Timeout /\ before \in Nat
      /\ nic = "rtl" => owed \in [Slots -> 0..1]
  BY DEF NicInv, Shapes, CtlTypes, TxTypes
<1>2. /\ Len(result) \in Nat /\ Sends \in Nat /\ Frame = Len(result) + 1
      /\ (Sending => Sends = Frame) /\ (~Sending => Sends = Len(result))
  BY SendsIs DEF NicInv
<1>3. /\ Sends <= MaxEvents /\ TX_SLOTS \in Nat
  BY <1>2, NicAssumption DEF NicInv, Counts
<1>4. \A s \in Slots : buf[s] \in Nat /\ owed[s] \in Nat /\ s \in Nat
  BY <1>1, SlotsAre, NicAssumption
<1>5. nic = "rtl" => \A s \in Slots : owed[s] \in {0, 1}
  BY <1>1
<1>6. DOMAIN result = 1..Len(result)
  BY <1>1
<1>7. \A k \in DOMAIN wire : wire[k] \in Nat
  <2>1. \A k \in DOMAIN wire : wire[k] \in 0..MaxEvents
    BY <1>1, SeqElem
  <2>2. QED
    BY <2>1
<1>8. QED
  BY <1>1, <1>2, <1>3, <1>4, <1>5, <1>6, <1>7 DEF NicInv, Places

(* A step that has nothing to do with sending. *)
LEMMA TxFrame ==
  ASSUME NicInv, UNCHANGED <<nic, txVars>>, pc' = pc \/ (~Sending /\ ~Sending')
  PROVE  /\ TxTypes' /\ TxInv' /\ Sends' = Sends
<1>1. UNCHANGED <<nic, cur, buf, owed, dma, used, old_used, left, result, wire, before, spoilt>>
  BY DEF txVars
<1>2. (Sending' <=> Sending) /\ (pc' = "virtio_poll" <=> pc = "virtio_poll")
  BY DEF Sending
<1>3. TxTypes'
  BY <1>1 DEF NicInv, Shapes, TxTypes
<1>4. Sends' = Sends /\ Frame' = Frame
  BY <1>1, <1>2 DEF Sends, Frame
<1>5. Bounds'
  BY <1>1, <1>2, <1>4 DEF NicInv, TxInv, Bounds
<1>6. VirtioTx'
  BY <1>1, <1>2, <1>4 DEF NicInv, TxInv, VirtioTx, CleanTx, InOrderTx, NoTimeouts, TimedOut
<1>7. RtlTx'
  <2>1. \A s : Late(s)' <=> Late(s)
    BY <1>1, <1>2, <1>4 DEF Late, Gap, JustTimedOut, TimedOut
  <2>2. \A k : Accounted(k)' <=> Accounted(k)
    BY <1>1, <1>4 DEF Accounted, Waiting
  <2>3. QED
    BY <1>1, <1>4, <2>1, <2>2 DEF NicInv, TxInv, RtlTx, Unsent, Apart, Marked, Handed, RtlNeverTwice
<1>8. QED
  BY <1>3, <1>4, <1>5, <1>6, <1>7 DEF TxInv

(* A frame is put into the buffer and the card is told. *)
LEMMA OutputTx ==
  ASSUME NicInv, MayOutput, buf' = [buf EXCEPT ![cur] = Frame],
         NEW n, n = IF nic = "rtl" THEN 1 ELSE owed[cur] + 1,
         owed' = [owed EXCEPT ![cur] = n], left' \in 0..Timeout,
         pc' \in {"rtl_poll", "posted"},
         spoilt' = IF nic = "rtl" /\ owed[cur] # 0 THEN spoilt \cup {Frame} ELSE spoilt,
         UNCHANGED <<nic, cur, dma, used, old_used, result, wire, before>>
  PROVE  /\ TxTypes' /\ TxInv' /\ Sends' = Sends + 1
<1>1. /\ nic \in {"rtl", "virtio"} /\ cur \in Slots /\ TX_SLOTS \in Nat
      /\ buf \in [Slots -> 0..MaxEvents] /\ owed \in [Slots -> 0..MaxEvents]
      /\ result \in Seq({"ERR_OK", "ERR_BUF"}) /\ wire \in Seq(0..MaxEvents)
      /\ dma = <<>> \/ dma \in Slots \X (0..MaxEvents)
      /\ used \in Nat /\ old_used \in Nat /\ before \in Nat
      /\ Len(result) \in Nat /\ Sends \in Nat /\ Frame = Len(result) + 1
      /\ DOMAIN result = 1..Len(result)
  BY TxFacts
<1>2. /\ \A s \in Slots : buf[s] \in Nat /\ owed[s] \in Nat /\ s \in Nat
      /\ nic = "rtl" => \A s \in Slots : owed[s] \in {0, 1}
      /\ \A k \in DOMAIN wire : wire[k] \in Nat
  BY TxFacts
<1>3. ~Sending /\ Sending' /\ pc' # "virtio_poll"
  BY DEF MayOutput, Sending
<1>4. /\ Sends = Len(result) /\ Frame' = Frame /\ Sends' = Frame /\ Sends' = Sends + 1
  BY <1>1, <1>3, TxFacts DEF Sends, Frame
<1>5. Frame \in 1..MaxEvents
  BY <1>1, <1>3, <1>4, NicAssumption DEF MayOutput, EventLeft, NicInv, Counts
<1>6. /\ \A s \in Slots : buf[s] <= Sends /\ owed[s] <= Sends /\ (owed[s] # 0 => buf[s] # Torn)
      /\ dma # <<>> => owed[dma[1]] # 0 /\ dma[2] # Torn
      /\ \A k \in DOMAIN wire : wire[k] <= Sends
      /\ before <= Len(result)
  BY DEF NicInv, TxInv, Bounds
<1>7. n \in 1..MaxEvents /\ n <= Frame
  <2>1. CASE nic = "rtl"
    <3>1. n = 1
      BY <2>1
    <3>2. QED
      BY <1>5, <3>1, NicAssumption
  <2>2. CASE nic # "rtl"
    <3>1. n = owed[cur] + 1
      BY <2>2
    <3>2. QED
      BY <1>1, <1>2, <1>4, <1>5, <1>6, <3>1, NicAssumption
  <2>3. QED
    BY <2>1, <2>2
<1>8. /\ buf' \in [Slots -> 0..MaxEvents] /\ owed' \in [Slots -> 0..MaxEvents]
      /\ buf'[cur] = Frame /\ owed'[cur] = n
      /\ \A s \in Slots \ {cur} : buf'[s] = buf[s] /\ owed'[s] = owed[s]
  BY <1>1, <1>5, <1>7
<1>9. nic = "rtl" => owed' \in [Slots -> 0..1]
  <2>1. SUFFICES ASSUME nic = "rtl", NEW s \in Slots PROVE owed'[s] \in 0..1
    BY <1>8
  <2>2. QED
    BY <1>2, <1>8, <2>1
<1>10. TxTypes'
  BY <1>1, <1>8, <1>9 DEF TxTypes
<1>11. Bounds'
  <2>1. ASSUME NEW s \in Slots
        PROVE  buf'[s] <= Frame /\ owed'[s] <= Frame /\ (owed'[s] # 0 => buf'[s] # Torn)
    <3>1. CASE s = cur
      BY <1>1, <1>5, <1>7, <1>8, <3>1 DEF Torn
    <3>2. CASE s # cur
      BY <1>1, <1>2, <1>4, <1>6, <1>8, <3>2
    <3>3. QED
      BY <3>1, <3>2
  <2>2. dma # <<>> => owed'[dma[1]] # 0 /\ dma[2] # Torn
    BY <1>1, <1>6, <1>7, <1>8
  <2>3. \A k \in DOMAIN wire : wire[k] <= Frame
    BY <1>1, <1>2, <1>4, <1>6
  <2>4. QED
    BY <1>4, <1>6, <1>8, <2>1, <2>2, <2>3 DEF Bounds
<1>12. VirtioTx'
  <2>1. SUFFICES ASSUME nic = "virtio" PROVE VirtioTx'
    BY DEF VirtioTx
  <2>2. n = owed[cur] + 1 /\ \A s \in Slots \ {cur} : owed'[s] = 0
    BY <1>8, <2>1 DEF NicInv, TxInv, VirtioTx
  <2>3. NoTimeouts => owed[cur] = 0 /\ dma = <<>>
    BY <1>1, <1>3, <1>6, <1>8, <2>1, <2>2 DEF NicInv, TxInv, VirtioTx, CleanTx
  <2>4. CleanTx'
    BY <1>3, <1>8, <2>2, <2>3 DEF CleanTx, NoTimeouts
  <2>5. InOrderTx'
    <3>1. SUFFICES ASSUME NoTimeouts
                   PROVE  (\A k \in DOMAIN wire : wire[k] = k) /\ Len(wire) + n = Frame
      BY <1>4, <1>8 DEF InOrderTx, NoTimeouts
    <3>2. (\A k \in DOMAIN wire : wire[k] = k) /\ Len(wire) + owed[cur] = Sends
      BY <2>1, <3>1 DEF NicInv, TxInv, VirtioTx, InOrderTx
    <3>3. Len(wire) \in Nat
      BY <1>1
    <3>4. QED
      BY <1>1, <1>4, <2>2, <2>3, <3>1, <3>2, <3>3
  <2>6. QED
    BY <2>1, <2>2, <2>4, <2>5 DEF NicInv, TxInv, VirtioTx, TimedOut
<1>13. RtlTx'
  <2>1. SUFFICES ASSUME nic = "rtl" PROVE RtlTx'
    BY DEF RtlTx
  <2>2. /\ Unsent /\ Apart /\ Marked /\ (\A s \in Slots : Late(s)) /\ Handed /\ RtlNeverTwice
        /\ n = 1
    BY <2>1 DEF NicInv, TxInv, RtlTx
  <2>3. Frame \notin ToSet(wire) /\ \A s \in Slots : buf[s] < Frame
    BY <1>1, <1>2, <1>4, <1>6 DEF ToSet
  <2>4. Unsent'
    BY <1>8, <2>2, <2>3 DEF Unsent
  <2>5. Apart'
    BY <1>1, <1>2, <1>8, <2>2, <2>3 DEF Apart
  <2>6. Marked'
    <3>1. CASE dma = <<>>
      BY <3>1 DEF Marked
    <3>2. CASE dma # <<>> /\ dma[1] = cur
      BY <1>6, <1>8, <2>1, <3>2 DEF Marked
    <3>3. CASE dma # <<>> /\ dma[1] # cur
      BY <1>1, <1>8, <2>2, <3>3 DEF Marked
    <3>4. QED
      BY <3>1, <3>2, <3>3
  <2>7. \A s \in Slots : Late(s)'
    <3>1. SUFFICES ASSUME NEW s \in Slots, s # cur PROVE Late(s)'
      BY <1>3 DEF Late
    <3>2. Late(s)
      BY <2>2
    <3>3. QED
      BY <1>4, <1>8, <3>1, <3>2 DEF Late, Gap, JustTimedOut
  <2>8. Handed'
    <3>1. SUFFICES ASSUME NEW k \in 1..Frame, k \in DOMAIN result => result[k] = "ERR_OK"
                   PROVE  Accounted(k)'
      BY <1>4 DEF Handed
    <3>2. CASE k = Frame
      <4>1. owed'[cur] > 0 /\ buf'[cur] = Frame
        BY <1>8, <2>2
      <4>2. QED
        BY <1>1, <3>2, <4>1 DEF Accounted, Waiting
    <3>3. CASE k # Frame
      <4>1. k \in 1..Sends /\ k \in Nat
        BY <1>1, <1>4, <3>3
      <4>2. Accounted(k)
        BY <2>2, <3>1, <4>1 DEF Handed
      <4>3. CASE ~Waiting(k)
        BY <1>1, <1>4, <4>1, <4>2, <4>3 DEF Accounted
      <4>4. CASE Waiting(k)
        <5>1. PICK s \in Slots : buf[s] = k /\ owed[s] > 0
          BY <4>4 DEF Waiting
        <5>2. CASE s # cur
          <6>1. buf'[s] = k /\ owed'[s] > 0
            BY <1>8, <5>1, <5>2
          <6>2. QED
            BY <6>1 DEF Accounted, Waiting
        <5>3. CASE s = cur
          <6>1. Late(cur) /\ Gap(cur) = TX_SLOTS
            BY <1>1, <1>2, <2>2 DEF Gap
          <6>2. ~JustTimedOut(cur)
            <7>1. SUFFICES ASSUME JustTimedOut(cur) PROVE FALSE
              OBVIOUS
            <7>2. k = Len(result) /\ Len(result) # 0 /\ result[Len(result)] = "ERR_BUF"
              BY <5>1, <5>3, <7>1 DEF JustTimedOut, TimedOut
            <7>3. k \in DOMAIN result
              BY <1>1, <7>2
            <7>4. QED
              BY <3>1, <7>2, <7>3
          <6>3. k <= before \/ k + TX_SLOTS <= Frame
            BY <1>3, <5>1, <5>3, <6>1, <6>2 DEF Late
          <6>4. QED
            BY <1>4, <6>3 DEF Accounted
        <5>4. QED
          BY <5>2, <5>3
      <4>5. QED
        BY <4>3, <4>4
    <3>4. QED
      BY <3>2, <3>3
  <2>9. QED
    BY <2>2, <2>4, <2>5, <2>6, <2>7, <2>8 DEF RtlTx, RtlNeverTwice
<1>14. QED
  BY <1>4, <1>10, <1>11, <1>12, <1>13 DEF TxInv

(* The thread looks and goes on waiting, or takes the card's count. *)
LEMMA PollingTx ==
  ASSUME NicInv, Sending, Sending', left' \in 0..Timeout, old_used' \in Nat,
         pc' = "virtio_poll" /\ owed[cur] = 1 /\ NoTimeouts => used = old_used',
         UNCHANGED <<nic, cur, buf, owed, dma, used, result, wire, before, spoilt>>
  PROVE  TxTypes' /\ TxInv' /\ Sends' = Sends
<1>1. TxTypes'
  BY DEF NicInv, Shapes, TxTypes
<1>2. Sends' = Sends /\ Frame' = Frame
  BY DEF Sends, Frame
<1>3. Bounds'
  BY <1>2 DEF NicInv, TxInv, Bounds
<1>4. VirtioTx'
  BY <1>2 DEF NicInv, TxInv, VirtioTx, CleanTx, InOrderTx, NoTimeouts, TimedOut
<1>5. RtlTx'
  <2>1. \A s : Late(s)' <=> Late(s)
    BY <1>2 DEF Late, Gap, JustTimedOut, TimedOut
  <2>2. \A k : Accounted(k)' <=> Accounted(k)
    BY <1>2 DEF Accounted, Waiting
  <2>3. QED
    BY <1>2, <2>1, <2>2 DEF NicInv, TxInv, RtlTx, Unsent, Apart, Marked, Handed, RtlNeverTwice
<1>6. QED
  BY <1>1, <1>2, <1>3, <1>4, <1>5 DEF TxInv

(* The card reading a transmit buffer keeps the invariant of transmission. *)
LEMMA CardReadsTx ==
  ASSUME NicInv, CardReads
  PROVE  TxTypes' /\ TxInv' /\ Sends' = Sends
<1>1. /\ cur \in Slots /\ owed \in [Slots -> 0..MaxEvents] /\ buf \in [Slots -> 0..MaxEvents]
      /\ \A s \in Slots : buf[s] \in Nat /\ owed[s] \in Nat
  BY TxFacts
<1>2. UNCHANGED <<nic, pc, cur, buf, owed, used, old_used, left, result, wire, before, spoilt>>
  BY DEF CardReads
<1>3. PICK s \in Slots : owed[s] > 0 /\ dma' = <<s, buf[s]>>
  BY DEF CardReads
<1>4. /\ dma' # <<>> /\ owed[s] # 0 /\ dma'[1] = s /\ dma'[2] = buf[s]
      /\ dma' \in Slots \X (0..MaxEvents)
  BY <1>1, <1>3
<1>5. TxTypes'
  BY <1>2, <1>4 DEF NicInv, Shapes, TxTypes
<1>6. (Sending' <=> Sending) /\ Sends' = Sends /\ Frame' = Frame
  BY <1>2 DEF Sending, Sends, Frame
<1>7. Bounds'
  BY <1>2, <1>4, <1>6 DEF NicInv, TxInv, Bounds
<1>8. VirtioTx'
  <2>1. SUFFICES ASSUME nic = "virtio" PROVE VirtioTx'
    BY <1>2 DEF VirtioTx
  <2>2. s = cur /\ dma'[2] = buf[cur]
    BY <1>3, <1>4, <2>1 DEF NicInv, TxInv, VirtioTx
  <2>3. QED
    BY <1>2, <1>6, <2>1, <2>2 DEF NicInv, TxInv, VirtioTx, CleanTx, InOrderTx, NoTimeouts, TimedOut
<1>9. RtlTx'
  <2>1. \A t : Late(t)' <=> Late(t)
    BY <1>2, <1>6 DEF Late, Gap, JustTimedOut, TimedOut
  <2>2. \A k : Accounted(k)' <=> Accounted(k)
    BY <1>2, <1>6 DEF Accounted, Waiting
  <2>3. Marked'
    BY <1>2, <1>4 DEF Marked
  <2>4. QED
    BY <1>2, <1>6, <2>1, <2>2, <2>3 DEF NicInv, TxInv, RtlTx, Unsent, Apart, Handed, RtlNeverTwice
<1>10. QED
  BY <1>5, <1>6, <1>7, <1>8, <1>9 DEF TxInv

(* The card completing a frame keeps the invariant of transmission. *)
LEMMA CardSentTx ==
  ASSUME NicInv, CardSent
  PROVE  TxTypes' /\ TxInv' /\ Sends' = Sends
<1>a. PICK v : v = IF buf[dma[1]] = dma[2] THEN dma[2] ELSE Torn
  OBVIOUS
<1>b. PICK s : s = dma[1]
  OBVIOUS
<1>1. /\ nic \in {"rtl", "virtio"} /\ cur \in Slots /\ s \in Slots
      /\ owed \in [Slots -> 0..MaxEvents]
      /\ wire \in Seq(0..MaxEvents)
      /\ dma \in Slots \X (0..MaxEvents)
      /\ Len(result) \in Nat /\ Sends \in Nat /\ Frame = Len(result) + 1
      /\ (Sending => Sends = Frame) /\ (~Sending => Sends = Len(result))
      /\ used \in Nat /\ Sends <= MaxEvents
  BY <1>b, TxFacts DEF CardSent
<1>2. /\ \A t \in Slots : buf[t] \in Nat /\ owed[t] \in Nat
      /\ nic = "rtl" => owed[s] \in {0, 1}
  BY <1>1, TxFacts
<1>3. /\ UNCHANGED <<nic, pc, cur, buf, old_used, left, result, before, spoilt>>
      /\ dma # <<>> /\ dma' = <<>> /\ wire' = Append(wire, v)
      /\ owed' = [owed EXCEPT ![s] = @ - 1]
      /\ used' = IF nic = "virtio" THEN used + 1 ELSE used
  BY <1>a, <1>b DEF CardSent
<1>4. /\ \A t \in Slots : buf[t] <= Sends /\ owed[t] <= Sends /\ (owed[t] # 0 => buf[t] # Torn)
      /\ owed[s] # 0 /\ dma[2] # Torn
      /\ Sending => buf[cur] = Frame
      /\ \A k \in DOMAIN wire : wire[k] <= Sends
      /\ before <= Len(result)
  BY <1>b, <1>3 DEF NicInv, TxInv, Bounds
<1>5. /\ v \in 0..MaxEvents /\ v <= Sends /\ v \in {Torn, buf[s]}
      /\ (dma[2] = buf[s] => v = buf[s])
  BY <1>a, <1>b, <1>1, <1>2, <1>4, NicAssumption DEF Torn
<1>6. /\ wire' \in Seq(0..MaxEvents) /\ Len(wire') = Len(wire) + 1
      /\ ToSet(wire') = ToSet(wire) \cup {v}
      /\ DOMAIN wire' = 1..(Len(wire) + 1) /\ DOMAIN wire = 1..Len(wire) /\ Len(wire) \in Nat
      /\ \A k \in DOMAIN wire : wire'[k] = wire[k]
      /\ wire'[Len(wire) + 1] = v
  <2>1. wire \in Seq(0..MaxEvents) /\ v \in 0..MaxEvents /\ wire' = Append(wire, v)
    BY <1>1, <1>3, <1>5
  <2>2. DOMAIN wire = 1..Len(wire) /\ Len(wire) \in Nat
    BY <2>1
  <2>3. PICK S : S = 0..MaxEvents
    OBVIOUS
  <2>4. wire \in Seq(S) /\ v \in S
    BY <2>1, <2>3
  <2>5. /\ Append(wire, v) \in Seq(S) /\ Len(Append(wire, v)) = Len(wire) + 1
        /\ ToSet(Append(wire, v)) = ToSet(wire) \cup {v}
        /\ DOMAIN Append(wire, v) = 1..(Len(wire) + 1)
        /\ \A k \in DOMAIN wire : Append(wire, v)[k] = wire[k]
        /\ Append(wire, v)[Len(wire) + 1] = v
    BY <2>4, ToSetAppend
  <2>6. QED
    BY <2>1, <2>2, <2>3, <2>5
<1>7. /\ owed' \in [Slots -> 0..MaxEvents] /\ owed'[s] = owed[s] - 1
      /\ \A t \in Slots \ {s} : owed'[t] = owed[t]
  <2>1. owed[s] - 1 \in 0..MaxEvents
    BY <1>1, <1>2, <1>4, NicAssumption
  <2>2. QED
    BY <1>1, <1>3, <2>1
<1>8. nic = "rtl" => owed'[s] = 0 /\ owed' \in [Slots -> 0..1]
  <2>1. SUFFICES ASSUME nic = "rtl" PROVE owed'[s] = 0 /\ \A t \in Slots : owed'[t] \in 0..1
    BY <1>7
  <2>2. owed'[s] = 0
    BY <1>2, <1>4, <1>7, <2>1
  <2>3. \A t \in Slots : owed[t] \in {0, 1}
    BY <2>1, TxFacts
  <2>4. \A t \in Slots \ {s} : owed'[t] \in 0..1
    BY <1>7, <2>3
  <2>5. QED
    BY <2>2, <2>4
<1>9. used' \in Nat
  BY <1>1, <1>3
<1>10. TxTypes'
  BY <1>3, <1>6, <1>7, <1>8, <1>9 DEF NicInv, Shapes, TxTypes
<1>11. (Sending' <=> Sending) /\ Sends' = Sends /\ Frame' = Frame
  BY <1>3 DEF Sending, Sends, Frame
<1>12. \A k \in DOMAIN wire' : k \in DOMAIN wire \/ k = Len(wire) + 1
  BY <1>6
<1>13. Bounds'
  <2>1. \A k \in DOMAIN wire' : wire'[k] <= Sends
    BY <1>4, <1>5, <1>6, <1>12
  <2>2. \A t \in Slots : owed'[t] <= Sends /\ (owed'[t] # 0 => owed[t] # 0)
    BY <1>1, <1>2, <1>4, <1>7
  <2>3. QED
    BY <1>3, <1>4, <1>11, <2>1, <2>2 DEF Bounds
<1>14. VirtioTx'
  <2>1. SUFFICES ASSUME nic = "virtio" PROVE VirtioTx'
    BY <1>3 DEF VirtioTx
  <2>2. s = cur
    BY <1>1, <1>4, <2>1 DEF NicInv, TxInv, VirtioTx
  <2>3. \A t \in Slots \ {cur} : owed'[t] = 0
    BY <1>7, <2>1, <2>2 DEF NicInv, TxInv, VirtioTx
  <2>4. (NoTimeouts' <=> NoTimeouts) /\ CleanTx /\ InOrderTx
    BY <1>3, <2>1 DEF NicInv, TxInv, VirtioTx, NoTimeouts
  <2>5. NoTimeouts => Sending /\ owed[cur] = 1 /\ v = Frame
    BY <1>1, <1>2, <1>3, <1>4, <1>5, <2>2, <2>4 DEF CleanTx
  <2>6. CleanTx'
    <3>1. NoTimeouts => owed'[cur] = 0 /\ Frame \in ToSet(wire')
      BY <1>6, <1>7, <2>2, <2>5
    <3>2. QED
      BY <1>3, <1>11, <2>4, <3>1 DEF CleanTx
  <2>7. InOrderTx'
    <3>1. SUFFICES ASSUME NoTimeouts
                   PROVE  (\A k \in DOMAIN wire' : wire'[k] = k) /\ Len(wire') + owed'[cur] = Sends
      BY <1>3, <1>11, <2>4 DEF InOrderTx
    <3>2. v = Frame /\ owed[cur] = 1 /\ Sends = Frame
      BY <1>1, <2>5, <3>1
    <3>3. (\A k \in DOMAIN wire : wire[k] = k) /\ Len(wire) + owed[cur] = Sends
      BY <2>4, <3>1 DEF InOrderTx
    <3>4. Len(wire) + 1 = v
      BY <3>2, <3>3
    <3>5. QED
      BY <1>6, <1>7, <1>12, <2>2, <3>2, <3>3, <3>4
  <2>8. QED
    BY <1>3, <1>6, <2>1, <2>3, <2>6, <2>7 DEF NicInv, TxInv, VirtioTx, TimedOut
<1>15. RtlTx'
  <2>1. SUFFICES ASSUME nic = "rtl" PROVE RtlTx'
    BY <1>3 DEF RtlTx
  <2>2. Unsent /\ Apart /\ Marked /\ (\A t \in Slots : Late(t)) /\ Handed /\ RtlNeverTwice
    BY <2>1 DEF NicInv, TxInv, RtlTx
  <2>3. buf[s] # Torn /\ buf[s] \notin ToSet(wire)
    BY <1>1, <1>4, <2>2 DEF Unsent
  <2>4. Unsent'
    <3>1. SUFFICES ASSUME NEW t \in Slots, owed'[t] # 0 PROVE buf[t] \notin ToSet(wire')
      BY <1>3 DEF Unsent
    <3>2. t # s /\ owed[t] # 0
      BY <1>7, <1>8, <2>1, <3>1
    <3>3. buf[t] \notin ToSet(wire) /\ buf[t] # Torn /\ buf[t] # buf[s]
      BY <1>1, <1>4, <2>2, <2>3, <3>2 DEF Unsent, Apart
    <3>4. QED
      BY <1>5, <1>6, <3>3
  <2>5. Apart' /\ Marked'
    BY <1>3, <2>2 DEF Apart, Marked
  <2>6. \A t \in Slots : Late(t)'
    BY <1>3, <1>11, <2>2 DEF Late, Gap, JustTimedOut, TimedOut
  <2>7. Handed'
    <3>1. SUFFICES ASSUME NEW k \in 1..Sends, k \in DOMAIN result => result[k] = "ERR_OK"
                   PROVE  Accounted(k)'
      BY <1>3, <1>11 DEF Handed
    <3>2. Accounted(k)
      BY <2>2, <3>1 DEF Handed
    <3>3. CASE ~Waiting(k)
      BY <1>3, <1>6, <1>11, <3>2, <3>3 DEF Accounted
    <3>4. CASE Waiting(k)
      <4>1. PICK t \in Slots : buf[t] = k /\ owed[t] > 0
        BY <3>4 DEF Waiting
      <4>2. CASE t # s
        <5>1. buf'[t] = k /\ owed'[t] > 0
          BY <1>3, <1>7, <4>1, <4>2
        <5>2. QED
          BY <5>1 DEF Accounted, Waiting
      <4>3. CASE t = s /\ dma[2] = buf[s]
        BY <1>5, <1>6, <4>1, <4>3 DEF Accounted
      <4>4. CASE t = s /\ dma[2] # buf[s]
        BY <1>b, <1>3, <2>2, <4>1, <4>4 DEF Accounted, Marked
      <4>5. QED
        BY <4>2, <4>3, <4>4
    <3>5. QED
      BY <3>3, <3>4
  <2>8. RtlNeverTwice'
    <3>1. SUFFICES ASSUME NEW j \in DOMAIN wire', NEW k \in DOMAIN wire', j # k,
                          wire'[j] = wire'[k]
                   PROVE  wire'[j] = Torn
      BY DEF RtlNeverTwice
    <3>2. CASE j \in DOMAIN wire /\ k \in DOMAIN wire
      BY <1>6, <2>1, <2>2, <3>1, <3>2 DEF RtlNeverTwice
    <3>3. \A i \in DOMAIN wire : wire'[i] = v => v = Torn
      BY <1>5, <1>6, <2>3 DEF ToSet
    <3>4. CASE j = Len(wire) + 1 \/ k = Len(wire) + 1
      BY <1>6, <1>12, <3>1, <3>3, <3>4
    <3>5. QED
      BY <1>12, <3>2, <3>4
  <2>9. QED
    BY <2>4, <2>5, <2>6, <2>7, <2>8 DEF RtlTx
<1>16. QED
  BY <1>10, <1>11, <1>13, <1>14, <1>15 DEF TxInv

(* The successor of a buffer in the rotation, and how far each is behind it. *)
LEMMA NextSlot ==
  ASSUME NEW c \in Slots, NEW d, d = (c + 1) % TX_SLOTS
  PROVE  /\ d \in Slots /\ c \in Nat /\ TX_SLOTS \in Nat
         /\ d = IF c + 1 = TX_SLOTS THEN 0 ELSE c + 1
<1>1. c \in Nat /\ c < TX_SLOTS /\ TX_SLOTS \in Nat
  BY NicAssumption DEF Slots
<1>2. CASE c + 1 = TX_SLOTS
  BY <1>1, <1>2, NicAssumption DEF Slots
<1>3. CASE c + 1 # TX_SLOTS
  BY <1>1, <1>3, NicAssumption DEF Slots
<1>4. QED
  BY <1>1, <1>2, <1>3

(* The output function returns. *)
LEMMA ReturnTx ==
  ASSUME NicInv, pc \in {"rtl_poll", "virtio_poll"}, NEW err \in {"ERR_OK", "ERR_BUF"}, Return(err),
         cur' = IF nic = "rtl" /\ err = "ERR_OK" THEN (cur + 1) % TX_SLOTS ELSE cur,
         nic = "virtio" /\ err = "ERR_OK" => used # old_used
  PROVE  TxTypes' /\ TxInv' /\ Sends' = Sends
<1> Sending
  BY DEF Sending
<1>1. /\ nic \in {"rtl", "virtio"} /\ cur \in Slots /\ result \in Seq({"ERR_OK", "ERR_BUF"})
      /\ owed \in [Slots -> 0..MaxEvents] /\ wire \in Seq(0..MaxEvents)
      /\ Len(result) \in Nat /\ Sends \in Nat /\ Frame = Len(result) + 1 /\ Sends = Frame
      /\ before \in Nat /\ TX_SLOTS \in Nat
      /\ \A s \in Slots : buf[s] \in Nat /\ owed[s] \in Nat /\ s \in Nat
  BY TxFacts
<1>2. /\ result' = Append(result, err) /\ pc' = back /\ back \in {"idle", "input", "clear"}
      /\ old_used' = 0 /\ left' = 0
      /\ UNCHANGED <<nic, buf, owed, dma, used, wire, before, spoilt>>
  BY DEF Return, NicInv, Shapes, CtlTypes
<1>3. /\ result' \in Seq({"ERR_OK", "ERR_BUF"}) /\ Len(result') = Len(result) + 1
      /\ ToSet(result') = ToSet(result) \cup {err}
      /\ DOMAIN result' = 1..(Len(result) + 1) /\ DOMAIN result = 1..Len(result)
      /\ \A k \in DOMAIN result : result'[k] = result[k]
      /\ result'[Len(result) + 1] = err
  <2>1. PICK S : S = {"ERR_OK", "ERR_BUF"}
    OBVIOUS
  <2>2. result \in Seq(S) /\ err \in S
    BY <1>1, <2>1, Zenon
  <2>3. /\ result' \in Seq(S) /\ Len(result') = Len(result) + 1
        /\ ToSet(result') = ToSet(result) \cup {err}
        /\ DOMAIN result' = 1..(Len(result) + 1)
        /\ \A k \in DOMAIN result : result'[k] = result[k]
        /\ result'[Len(result) + 1] = err
    BY <1>2, <2>2, ToSetAppend, SMT
  <2>4. DOMAIN result = 1..Len(result)
    BY <1>1
  <2>5. QED
    BY <2>1, <2>3, <2>4, Zenon
<1>4. ~Sending' /\ pc' # "virtio_poll"
  BY <1>2 DEF Sending
<1>5. Sends' = Len(result') /\ Sends' = Sends /\ Frame' = Frame + 1
  BY <1>1, <1>3, <1>4 DEF Sends, Frame
<1>6. cur' \in Slots
  BY <1>1, NextSlot
<1>7. TxTypes'
  BY <1>2, <1>3, <1>6, NicAssumption DEF NicInv, Shapes, TxTypes
<1>8. Bounds'
  BY <1>1, <1>2, <1>3, <1>4, <1>5 DEF NicInv, TxInv, Bounds
<1>9. VirtioTx'
  <2>1. SUFFICES ASSUME nic = "virtio" PROVE VirtioTx'
    BY <1>2 DEF VirtioTx
  <2>2. /\ cur' = cur /\ pc = "virtio_poll" /\ (err = "ERR_OK" => used # old_used)
        /\ CleanTx /\ InOrderTx
    BY <2>1 DEF NicInv, TxInv, VirtioTx, Places
  <2>3. NoTimeouts' => NoTimeouts /\ err = "ERR_OK"
    BY <1>3 DEF NoTimeouts
  <2>4. NoTimeouts /\ err = "ERR_OK" => owed[cur] = 0 /\ Frame \in ToSet(wire)
    BY <1>1, <2>2 DEF CleanTx
  <2>5. CleanTx'
    BY <1>2, <1>4, <2>2, <2>3, <2>4 DEF CleanTx
  <2>6. InOrderTx'
    BY <1>2, <1>5, <2>2, <2>3 DEF InOrderTx
  <2>7. ASSUME NEW k \in DOMAIN result', result'[k] = "ERR_OK"
        PROVE  k \in ToSet(wire) \/ \E j \in 1..(k - 1) : result'[j] = "ERR_BUF"
    <3>1. CASE k \in DOMAIN result
      <4>1. \A j \in 1..(k - 1) : j \in DOMAIN result /\ result'[j] = result[j]
        BY <1>3, <3>1
      <4>2. k \in ToSet(wire) \/ \E j \in 1..(k - 1) : result[j] = "ERR_BUF"
        BY <1>3, <2>1, <2>7, <3>1 DEF NicInv, TxInv, VirtioTx, TimedOut
      <4>3. QED
        BY <4>1, <4>2
    <3>2. CASE k = Len(result) + 1 /\ NoTimeouts
      BY <1>1, <1>3, <2>4, <2>7, <3>2
    <3>3. CASE k = Len(result) + 1 /\ ~NoTimeouts
      <4>1. PICK j \in DOMAIN result : result[j] = "ERR_BUF"
        BY <3>3 DEF NoTimeouts, ToSet
      <4>2. j \in 1..(k - 1) /\ result'[j] = "ERR_BUF"
        BY <1>1, <1>3, <3>3, <4>1
      <4>3. QED
        BY <4>2
    <3>4. QED
      BY <1>1, <1>3, <2>7, <3>1, <3>2, <3>3
  <2>8. \A s \in Slots \ {cur} : owed[s] = 0
    BY <2>1 DEF NicInv, TxInv, VirtioTx
  <2>9. QED
    BY <1>2, <2>2, <2>5, <2>6, <2>7, <2>8 DEF VirtioTx, TimedOut
<1>10. RtlTx'
  <2>1. SUFFICES ASSUME nic = "rtl" PROVE RtlTx'
    BY <1>2 DEF RtlTx
  <2>2. /\ Unsent /\ Apart /\ Marked /\ (\A s \in Slots : Late(s)) /\ Handed /\ RtlNeverTwice
        /\ buf[cur] = Frame
    BY <2>1 DEF NicInv, TxInv, RtlTx, Bounds
  <2>3. Unsent' /\ Apart' /\ Marked' /\ RtlNeverTwice'
    BY <1>2, <2>2 DEF Unsent, Apart, Marked, RtlNeverTwice
  <2>4. ASSUME NEW s \in Slots PROVE Late(s)'
    <3>1. CASE err = "ERR_OK"
      <4>1. cur' = IF cur + 1 = TX_SLOTS THEN 0 ELSE cur + 1
        <5>1. cur \in Slots /\ cur' = (cur + 1) % TX_SLOTS
          BY <1>1, <2>1, <3>1
        <5>2. QED
          BY <5>1, NextSlot
      <4>2. s < TX_SLOTS /\ cur < TX_SLOTS /\ cur \in Nat /\ s \in Nat
        BY <1>1, NicAssumption DEF Slots
      <4>3. CASE s = cur
        <5>1. Gap(s)' = 1
          BY <1>1, <4>1, <4>2, <4>3 DEF Gap
        <5>2. QED
          BY <1>2, <1>5, <2>2, <4>3, <5>1 DEF Late
      <4>4. CASE s # cur
        <5>1. Gap(s)' = Gap(s) + 1 /\ Gap(s) \in Nat
          <6>1. /\ Gap(s) = IF s < cur THEN cur - s ELSE cur + TX_SLOTS - s
                /\ Gap(s)' = IF s < cur' THEN cur' - s ELSE cur' + TX_SLOTS - s
            BY DEF Gap
          <6>2. CASE cur + 1 = TX_SLOTS
            BY <1>1, <4>1, <4>2, <4>4, <6>1, <6>2
          <6>3. CASE cur + 1 # TX_SLOTS
            BY <1>1, <4>1, <4>2, <4>4, <6>1, <6>3
          <6>4. QED
            BY <6>2, <6>3
        <5>2. buf[s] <= before \/ buf[s] + Gap(s) <= Frame
          BY <2>2, <4>4 DEF Late, JustTimedOut
        <5>3. QED
          BY <1>1, <1>2, <1>5, <5>1, <5>2 DEF Late
      <4>5. QED
        BY <4>3, <4>4
    <3>2. CASE err = "ERR_BUF"
      <4>1. cur' = cur
        BY <3>2
      <4>2. CASE s = cur
        <5>1. JustTimedOut(s)'
          BY <1>1, <1>2, <1>3, <2>2, <3>2, <4>1, <4>2 DEF JustTimedOut, TimedOut
        <5>2. QED
          BY <5>1 DEF Late
      <4>3. CASE s # cur
        <5>1. buf[s] <= before \/ buf[s] + Gap(s) <= Frame
          BY <2>2, <4>3 DEF Late, JustTimedOut
        <5>2. Gap(s)' = Gap(s) /\ Gap(s) \in Nat
          <6>1. s < TX_SLOTS /\ cur < TX_SLOTS /\ cur \in Nat /\ s \in Nat
            BY <1>1, NicAssumption DEF Slots
          <6>2. Gap(s)' = Gap(s) /\ Gap(s) = IF s < cur THEN cur - s ELSE cur + TX_SLOTS - s
            BY <4>1 DEF Gap
          <6>3. QED
            BY <1>1, <6>1, <6>2
        <5>3. QED
          BY <1>1, <1>2, <1>5, <5>1, <5>2 DEF Late
      <4>4. QED
        BY <4>2, <4>3
    <3>3. QED
      BY <3>1, <3>2
  <2>5. Handed'
    <3>1. SUFFICES ASSUME NEW k \in 1..Sends, k \in DOMAIN result' => result'[k] = "ERR_OK"
                   PROVE  Accounted(k)'
      BY <1>5 DEF Handed
    <3>2. k \in DOMAIN result => result[k] = "ERR_OK"
      BY <1>1, <1>3, <3>1
    <3>3. Accounted(k)
      BY <2>2, <3>1, <3>2 DEF Handed
    <3>4. QED
      BY <1>2, <1>5, <3>3 DEF Accounted, Waiting
  <2>6. QED
    BY <2>3, <2>4, <2>5 DEF RtlTx
<1>11. QED
  BY <1>5, <1>7, <1>8, <1>9, <1>10 DEF TxInv

(* The card is reset, or its driver's pointer after it. *)
LEMMA ResetTx ==
  ASSUME NicInv, nic = "rtl", ~Sending, ~Sending', cur' \in Slots, before' = Len(result),
         \/ dma' = <<>> /\ owed' = [s \in Slots |-> 0]
         \/ UNCHANGED <<dma, owed>>,
         UNCHANGED <<nic, buf, used, old_used, left, result, wire, spoilt>>
  PROVE  TxTypes' /\ TxInv' /\ Sends' = Sends
<1>1. /\ Sends \in Nat /\ Sends = Len(result) /\ owed \in [Slots -> 0..1]
      /\ owed \in [Slots -> 0..MaxEvents] /\ 0 \in 0..MaxEvents
      /\ \A s \in Slots : buf[s] \in Nat /\ owed[s] \in Nat
      /\ dma = <<>> \/ dma \in Slots \X (0..MaxEvents)
  BY TxFacts, NicAssumption DEF NicInv, Shapes, TxTypes
<1>2. /\ owed' \in [Slots -> 0..MaxEvents] /\ owed' \in [Slots -> 0..1]
      /\ \A s \in Slots : owed'[s] = 0 \/ owed'[s] = owed[s]
      /\ dma' # <<>> => dma' = dma /\ owed' = owed
  BY <1>1
<1>3. Sends' = Sends /\ Frame' = Frame
  BY DEF Sends, Frame
<1>4. TxTypes'
  BY <1>1, <1>2 DEF NicInv, Shapes, TxTypes
<1>5. Bounds'
  BY <1>1, <1>2, <1>3 DEF NicInv, TxInv, Bounds
<1>6. VirtioTx'
  BY DEF VirtioTx
<1>7. \A s \in Slots : buf[s] <= before'
  BY <1>1 DEF NicInv, TxInv, Bounds
<1>8. Unsent' /\ Apart' /\ Marked' /\ RtlNeverTwice'
  BY <1>2 DEF NicInv, TxInv, RtlTx, Unsent, Apart, Marked, RtlNeverTwice
<1>9. \A s \in Slots : Late(s)'
  BY <1>7 DEF Late
<1>10. Handed'
  BY <1>1, <1>3 DEF Handed, Accounted
<1>11. QED
  BY <1>3, <1>4, <1>5, <1>6, <1>8, <1>9, <1>10 DEF TxInv, RtlTx
-----------------------------------------------------------------------------
(* Receiving. *)

(* What the invariant says about reception, in one place. *)
LEMMA RxFacts ==
  ASSUME NicInv
  PROVE  /\ nic \in {"rtl", "virtio"} /\ ring \in [Cells -> RingCell]
         /\ \A c \in Cells : ring[c].kind = "head" => ring[c].size # 0
         /\ dev_at \in Cells /\ capr \in Cells /\ rx_ptr \in Cells
         /\ pkt \in 0..Batch /\ taken \in Nat
         /\ rx_avail \in Seq(1..QUEUE_SIZE)
         /\ rx_used \in Seq((1..QUEUE_SIZE) \X (1..MaxEvents))
         /\ seen \in Seq(0..MaxEvents) /\ Len(seen) \in Nat
         /\ arrived \in Nat /\ first \in Nat /\ first <= arrived /\ arrived <= MaxEvents
         /\ ups \in Nat
<1>1. arrived \in Nat /\ first \in Nat /\ first <= arrived /\ ups \in Nat
  BY DEF NicInv, Counts
<1>2. arrived <= MaxEvents
  BY <1>1, TxFacts, NicAssumption DEF NicInv, Counts
<1>3. /\ nic \in {"rtl", "virtio"} /\ ring \in [Cells -> RingCell]
      /\ \A c \in Cells : ring[c].kind = "head" => ring[c].size # 0
      /\ dev_at \in Cells /\ capr \in Cells /\ rx_ptr \in Cells
      /\ pkt \in 0..Batch /\ taken \in Nat
      /\ rx_avail \in Seq(1..QUEUE_SIZE)
      /\ rx_used \in Seq((1..QUEUE_SIZE) \X (1..MaxEvents))
      /\ seen \in Seq(0..MaxEvents)
  BY DEF NicInv, Shapes, CtlTypes, RxTypes
<1>4. Len(seen) \in Nat
  BY <1>3
<1>5. QED
  BY <1>1, <1>2, <1>3, <1>4

(* Outside eth0_up and rtl_hw_init the card's memory is set up. *)
LEMMA NotOpen ==
  ASSUME NicInv, pc \in {"idle", "rx", "input"}
  PROVE  dev # "open"
BY DEF NicInv, Places, Opening, Sending

(* A step that has nothing to do with receiving. *)
LEMMA RxFrame ==
  ASSUME NicInv, UNCHANGED <<nic, dev, rxVars>>, Busy' <=> Busy
  PROVE  RxTypes' /\ VirtioRx' /\ RtlRx' /\ BuffersKept'
<1>1. UNCHANGED <<nic, dev, ring, dev_at, capr, rx_ptr, pkt, taken, rx_avail, rx_used,
                  first, arrived, early, seen>>
  BY DEF rxVars
<1>2. RxTypes'
  BY <1>1 DEF NicInv, Shapes, RxTypes
<1>3. VirtioRx'
  BY <1>1 DEF NicInv, VirtioRx
<1>4. BuffersKept'
  BY <1>1 DEF NicInv, BuffersKept
<1>5. Linear => Linear'
  <2>1. \A c, f : AtFrame(c, f)' <=> AtFrame(c, f)
    BY <1>1 DEF AtFrame
  <2>2. Pointed' <=> Pointed
    BY <1>1 DEF Pointed, AtFrame
  <2>3. \A c : Chained(c)' <=> Chained(c)
    BY <1>1 DEF Chained, AtFrame
  <2>4. QED
    BY <1>1, <2>2, <2>3 DEF Linear
<1>6. (Filled => Filled') /\ (Dead => Dead')
  BY <1>1 DEF Filled, Dead
<1>7. RtlRx'
  BY <1>1, <1>5, <1>6 DEF NicInv, RtlRx
<1>8. QED
  BY <1>2, <1>3, <1>4, <1>7

(* Where the receive buffers of the virtio card are, without their order. *)
UsedIds(u) == {u[k][1] : k \in DOMAIN u}
Kept(avail, u, t) ==
  /\ Len(avail) + Len(u) + (IF t = 0 THEN 0 ELSE 1) = QUEUE_SIZE
  /\ (ToSet(avail) \cup UsedIds(u)) \cup (IF t = 0 THEN {} ELSE {t}) = 1..QUEUE_SIZE

(* The elements and the length of a concatenation. *)
LEMMA ToSetConcat ==
  ASSUME NEW S, NEW s \in Seq(S), NEW t \in Seq(S)
  PROVE  /\ s \o t \in Seq(S) /\ Len(s \o t) = Len(s) + Len(t)
         /\ ToSet(s \o t) = ToSet(s) \cup ToSet(t)
<1>1. /\ s \o t \in Seq(S) /\ Len(s \o t) = Len(s) + Len(t) /\ Len(s) \in Nat /\ Len(t) \in Nat
      /\ DOMAIN (s \o t) = 1..(Len(s) + Len(t)) /\ DOMAIN s = 1..Len(s) /\ DOMAIN t = 1..Len(t)
      /\ \A k \in 1..(Len(s) + Len(t)) : (s \o t)[k] = IF k <= Len(s) THEN s[k] ELSE t[k - Len(s)]
  OBVIOUS
<1>2. ASSUME NEW k \in DOMAIN (s \o t)
      PROVE  (s \o t)[k] \in ToSet(s) \cup ToSet(t)
  <2>1. CASE k <= Len(s)
    BY <1>1, <2>1 DEF ToSet
  <2>2. CASE ~(k <= Len(s))
    <3>1. k - Len(s) \in DOMAIN t /\ (s \o t)[k] = t[k - Len(s)]
      BY <1>1, <2>2
    <3>2. QED
      BY <3>1 DEF ToSet
  <2>3. QED
    BY <2>1, <2>2
<1>3. ASSUME NEW k \in DOMAIN s PROVE s[k] \in ToSet(s \o t)
  <2>1. k \in DOMAIN (s \o t) /\ (s \o t)[k] = s[k]
    BY <1>1
  <2>2. QED
    BY <2>1 DEF ToSet
<1>4. ASSUME NEW k \in DOMAIN t PROVE t[k] \in ToSet(s \o t)
  <2>1. k + Len(s) \in DOMAIN (s \o t) /\ (s \o t)[k + Len(s)] = t[k]
    BY <1>1
  <2>2. QED
    BY <2>1 DEF ToSet
<1>5. ToSet(s \o t) = ToSet(s) \cup ToSet(t)
  <2>1. ToSet(s \o t) \subseteq ToSet(s) \cup ToSet(t)
    BY <1>2 DEF ToSet
  <2>2. ToSet(s) \subseteq ToSet(s \o t) /\ ToSet(t) \subseteq ToSet(s \o t)
    BY <1>3, <1>4 DEF ToSet
  <2>3. QED
    BY <2>1, <2>2
<1>6. QED
  BY <1>1, <1>5

(* A sequence over S is a sequence over a larger set. *)
LEMMA SeqWider ==
  ASSUME NEW S, NEW T, S \subseteq T, NEW s \in Seq(S)
  PROVE  s \in Seq(T)
OBVIOUS

(* The buffers of the used ring, taken out of its entries. *)
LEMMA UsedIs ==
  ASSUME NEW u \in Seq((1..QUEUE_SIZE) \X (1..MaxEvents)),
         NEW mid, mid = [k \in DOMAIN u |-> u[k][1]]
  PROVE  mid \in Seq(Nat) /\ Len(mid) = Len(u) /\ ToSet(mid) = UsedIds(u)
<1>1. \A k \in DOMAIN u : u[k][1] \in Nat
  <2>1. \A k \in DOMAIN u : u[k] \in (1..QUEUE_SIZE) \X (1..MaxEvents)
    OBVIOUS
  <2>2. QED
    BY <2>1
<1>2. DOMAIN u = 1..Len(u) /\ Len(u) \in Nat
  OBVIOUS
<1>3. mid \in Seq(Nat) /\ Len(mid) = Len(u)
  BY <1>1, <1>2
<1>4. ToSet(mid) = UsedIds(u)
  BY DEF ToSet, UsedIds
<1>5. QED
  BY <1>3, <1>4

(* Elements and length of a concatenation of three. *)
LEMMA HeldIs ==
  ASSUME NEW avail \in Seq(Nat), NEW mid \in Seq(Nat), NEW last \in Seq(Nat)
  PROVE  /\ ToSet((avail \o mid) \o last) = (ToSet(avail) \cup ToSet(mid)) \cup ToSet(last)
         /\ Len((avail \o mid) \o last) = Len(avail) + Len(mid) + Len(last)
<1>1. PICK two : two = avail \o mid
  OBVIOUS
<1>2. /\ two \in Seq(Nat) /\ Len(two) = Len(avail) + Len(mid)
      /\ ToSet(two) = ToSet(avail) \cup ToSet(mid)
  BY <1>1, ToSetConcat
<1>3. ToSet(two \o last) = ToSet(two) \cup ToSet(last) /\ Len(two \o last) = Len(two) + Len(last)
  BY <1>2, ToSetConcat
<1>4. QED
  BY <1>1, <1>2, <1>3

(* BuffersKept as a formula about values, so that it can be used before and *)
(* after a step.                                                           *)
HeldOk(avail, u, card, tk) ==
  LET held == avail \o [k \in DOMAIN u |-> u[k][1]]
              \o (IF card = "virtio" /\ tk # 0 THEN <<tk>> ELSE <<>>)
  IN ToSet(held) = 1..QUEUE_SIZE /\ Len(held) = QUEUE_SIZE

(* Buffers are kept exactly when card, used ring and driver hold each of them once. *)
LEMMA KeptIs ==
  ASSUME NEW avail \in Seq(1..QUEUE_SIZE),
         NEW u \in Seq((1..QUEUE_SIZE) \X (1..MaxEvents)), NEW card, NEW tk \in Nat
  PROVE  HeldOk(avail, u, card, tk) <=> Kept(avail, u, IF card = "virtio" THEN tk ELSE 0)
<1>1. PICK t : t = IF card = "virtio" THEN tk ELSE 0
  OBVIOUS
<1>2. t \in Nat /\ (t # 0 <=> card = "virtio" /\ tk # 0) /\ (t # 0 => t = tk)
  BY <1>1
<1>3. PICK last : last = (IF card = "virtio" /\ tk # 0 THEN <<tk>> ELSE <<>>)
  OBVIOUS
<1>4. /\ last \in Seq(Nat) /\ Len(last) = (IF t = 0 THEN 0 ELSE 1)
      /\ ToSet(last) = (IF t = 0 THEN {} ELSE {t})
  <2>1. CASE t = 0
    <3>1. last = <<>>
      BY <1>2, <1>3, <2>1
    <3>2. QED
      BY <2>1, <3>1 DEF ToSet
  <2>2. CASE t # 0
    <3>1. last = <<t>>
      BY <1>2, <1>3, <2>2
    <3>2. QED
      BY <1>2, <2>2, <3>1 DEF ToSet
  <2>3. QED
    BY <2>1, <2>2
<1>5. PICK mid : mid = [k \in DOMAIN u |-> u[k][1]]
  OBVIOUS
<1>6. mid \in Seq(Nat) /\ Len(mid) = Len(u) /\ ToSet(mid) = UsedIds(u)
  BY <1>5, UsedIs
<1>7. avail \in Seq(Nat)
  <2>1. 1..QUEUE_SIZE \subseteq Nat /\ avail \in Seq(1..QUEUE_SIZE)
    OBVIOUS
  <2>2. QED
    BY <2>1, SeqWider
<1>8. PICK held : held = (avail \o mid) \o last
  OBVIOUS
<1>9. last \in Seq(Nat)
  BY <1>4
<1>10. /\ ToSet(held) = (ToSet(avail) \cup ToSet(mid)) \cup ToSet(last)
       /\ Len(held) = Len(avail) + Len(mid) + Len(last)
  <2>1. mid \in Seq(Nat)
    BY <1>6
  <2>2. /\ ToSet((avail \o mid) \o last) = (ToSet(avail) \cup ToSet(mid)) \cup ToSet(last)
        /\ Len((avail \o mid) \o last) = Len(avail) + Len(mid) + Len(last)
    BY <1>7, <1>9, <2>1, HeldIs
  <2>3. QED
    BY <1>8, <2>2, Zenon
<1>11. HeldOk(avail, u, card, tk) <=> ToSet(held) = 1..QUEUE_SIZE /\ Len(held) = QUEUE_SIZE
  BY <1>3, <1>5, <1>8 DEF HeldOk
<1>12. Kept(avail, u, t) <=> ToSet(held) = 1..QUEUE_SIZE /\ Len(held) = QUEUE_SIZE
  BY <1>4, <1>6, <1>10 DEF Kept
<1>13. QED
  BY <1>1, <1>11, <1>12

(* The three moves of a buffer: the card fills it, the driver takes it, the *)
(* driver gives it back.                                                   *)
LEMMA KeptStore ==
  ASSUME NEW avail \in Seq(1..QUEUE_SIZE), avail # <<>>,
         NEW u \in Seq((1..QUEUE_SIZE) \X (1..MaxEvents)), NEW f \in 1..MaxEvents,
         NEW t \in Nat, Kept(avail, u, t)
  PROVE  Kept(Tail(avail), Append(u, <<avail[1], f>>), t)
<1>1. PICK S : S = 1..QUEUE_SIZE
  OBVIOUS
<1>2. /\ avail[1] \in 1..QUEUE_SIZE /\ Len(Tail(avail)) = Len(avail) - 1
      /\ ToSet(avail) = {avail[1]} \cup ToSet(Tail(avail))
  <2>1. avail \in Seq(S)
    BY <1>1
  <2>2. QED
    BY <1>1, <2>1, ToSetTail
<1>3. PICK e : e = <<avail[1], f>>
  OBVIOUS
<1>4. e \in (1..QUEUE_SIZE) \X (1..MaxEvents) /\ e[1] = avail[1]
  BY <1>2, <1>3
<1>5. /\ Len(Append(u, e)) = Len(u) + 1 /\ DOMAIN Append(u, e) = 1..(Len(u) + 1)
      /\ DOMAIN u = 1..Len(u) /\ Len(u) \in Nat /\ Len(avail) \in Nat
      /\ \A k \in DOMAIN u : Append(u, e)[k] = u[k]
      /\ Append(u, e)[Len(u) + 1] = e
  BY <1>4
<1>6. UsedIds(Append(u, e)) = UsedIds(u) \cup {avail[1]}
  <2>1. \A k \in DOMAIN Append(u, e) : k \in DOMAIN u \/ k = Len(u) + 1
    BY <1>5
  <2>2. \A k \in DOMAIN u : k \in DOMAIN Append(u, e)
    BY <1>5
  <2>3. Len(u) + 1 \in DOMAIN Append(u, e)
    BY <1>5
  <2>4. QED
    BY <1>4, <1>5, <2>1, <2>2, <2>3 DEF UsedIds
<1>7. Len(avail) + Len(u) = Len(Tail(avail)) + Len(Append(u, e))
  BY <1>2, <1>5
<1>8. ToSet(avail) \cup UsedIds(u) = ToSet(Tail(avail)) \cup UsedIds(Append(u, e))
  BY <1>2, <1>6
<1>9. QED
  BY <1>3, <1>7, <1>8 DEF Kept

(* virtio_poll takes the first used buffer: it moves and none is lost. *)
LEMMA KeptTake ==
  ASSUME NEW avail \in Seq(1..QUEUE_SIZE),
         NEW u \in Seq((1..QUEUE_SIZE) \X (1..MaxEvents)), u # <<>>, Kept(avail, u, 0)
  PROVE  Kept(avail, Tail(u), u[1][1]) /\ u[1][1] \in 1..QUEUE_SIZE
<1>1. PICK S : S = (1..QUEUE_SIZE) \X (1..MaxEvents)
  OBVIOUS
<1>2. /\ u[1] \in S /\ Len(Tail(u)) = Len(u) - 1 /\ Len(u) > 0
      /\ ToSet(u) = {u[1]} \cup ToSet(Tail(u))
  <2>1. u \in Seq(S)
    BY <1>1
  <2>2. QED
    BY <2>1, ToSetTail
<1>3. u[1][1] \in 1..QUEUE_SIZE /\ u[1][1] # 0
  BY <1>1, <1>2
<1>4. \A v : UsedIds(v) = {e[1] : e \in ToSet(v)}
  BY DEF UsedIds, ToSet
<1>5. UsedIds(u) = UsedIds(Tail(u)) \cup {u[1][1]}
  BY <1>2, <1>4
<1>6. Len(avail) + Len(u) + 0 = Len(avail) + Len(Tail(u)) + 1
  <2>1. Len(u) \in Nat /\ Len(avail) \in Nat
    OBVIOUS
  <2>2. QED
    BY <1>2, <2>1
<1>7. (ToSet(avail) \cup UsedIds(u)) \cup {} = (ToSet(avail) \cup UsedIds(Tail(u))) \cup {u[1][1]}
  BY <1>5
<1>8. QED
  BY <1>3, <1>6, <1>7 DEF Kept

(* The driver gives the buffer in its hands back to the card: it moves and none is lost. *)
LEMMA KeptGive ==
  ASSUME NEW avail \in Seq(1..QUEUE_SIZE),
         NEW u \in Seq((1..QUEUE_SIZE) \X (1..MaxEvents)),
         NEW t \in 1..QUEUE_SIZE, Kept(avail, u, t)
  PROVE  Kept(Append(avail, t), u, 0)
<1>1. PICK S : S = 1..QUEUE_SIZE
  OBVIOUS
<1>2. Len(Append(avail, t)) = Len(avail) + 1 /\ ToSet(Append(avail, t)) = ToSet(avail) \cup {t}
  <2>1. avail \in Seq(S) /\ t \in S
    BY <1>1
  <2>2. QED
    BY <2>1, ToSetAppend
<1>3. Len(avail) \in Nat /\ Len(u) \in Nat /\ t # 0
  OBVIOUS
<1>4. Len(avail) + Len(u) + 1 = Len(Append(avail, t)) + Len(u) + 0
  BY <1>2, <1>3
<1>5. (ToSet(avail) \cup UsedIds(u)) \cup {t} = (ToSet(Append(avail, t)) \cup UsedIds(u)) \cup {}
  BY <1>2
<1>6. QED
  BY <1>3, <1>4, <1>5 DEF Kept

(* BuffersKept as Kept, before and after a step. *)
LEMMA KeptNow ==
  ASSUME NicInv
  PROVE  nic = "virtio" => Kept(rx_avail, rx_used, taken)
<1>1. /\ rx_avail \in Seq(1..QUEUE_SIZE) /\ taken \in Nat
      /\ rx_used \in Seq((1..QUEUE_SIZE) \X (1..MaxEvents))
  BY RxFacts
<1>2. HeldOk(rx_avail, rx_used, nic, taken)
  BY DEF NicInv, BuffersKept, HeldOk
<1>3. PICK t : t = IF nic = "virtio" THEN taken ELSE 0
  OBVIOUS
<1>4. Kept(rx_avail, rx_used, t)
  BY <1>1, <1>2, <1>3, KeptIs
<1>5. QED
  BY <1>3, <1>4

(* Kept of the next state, unfolded into the property of the run. *)
LEMMA KeptNext ==
  ASSUME RxTypes', nic' = "virtio", Kept(rx_avail', rx_used', taken')
  PROVE  BuffersKept'
<1>1. /\ rx_avail' \in Seq(1..QUEUE_SIZE) /\ taken' \in Nat
      /\ rx_used' \in Seq((1..QUEUE_SIZE) \X (1..MaxEvents))
  BY DEF RxTypes
<1>2. PICK t : t = IF nic' = "virtio" THEN taken' ELSE 0
  OBVIOUS
<1>3. Kept(rx_avail', rx_used', t)
  BY <1>2
<1>4. HeldOk(rx_avail', rx_used', nic', taken')
  BY <1>1, <1>2, <1>3, KeptIs
<1>5. QED
  BY <1>4 DEF BuffersKept, HeldOk

(* The virtio card storing a frame keeps the invariant of reception. *)
LEMMA VirtioStoresRx ==
  ASSUME NicInv, VirtioStores
  PROVE  RxTypes' /\ VirtioRx' /\ RtlRx' /\ BuffersKept'
<1>1. /\ rx_avail \in Seq(1..QUEUE_SIZE) /\ taken \in Nat /\ seen \in Seq(0..MaxEvents)
      /\ rx_used \in Seq((1..QUEUE_SIZE) \X (1..MaxEvents)) /\ Len(seen) \in Nat
      /\ arrived \in Nat /\ rx_avail # <<>> /\ nic = "virtio"
  BY RxFacts DEF VirtioStores
<1>2. /\ arrived' = arrived + 1 /\ rx_avail' = Tail(rx_avail)
      /\ rx_used' = Append(rx_used, <<rx_avail[1], arrived + 1>>)
      /\ UNCHANGED <<nic, ring, dev_at, capr, rx_ptr, pkt, taken, first, seen>>
  BY DEF VirtioStores
<1>3. arrived + 1 \in 1..MaxEvents
  <2>1. Len(result) \in Nat /\ ups \in Nat
    BY TxFacts, RxFacts
  <2>2. QED
    BY <1>1, <2>1, NicAssumption DEF VirtioStores, EventLeft
<1>4. PICK e : e = <<rx_avail[1], arrived + 1>>
  OBVIOUS
<1>5. rx_avail[1] \in 1..QUEUE_SIZE /\ rx_avail' \in Seq(1..QUEUE_SIZE)
  <2>1. PICK S : S = 1..QUEUE_SIZE
    OBVIOUS
  <2>2. rx_avail \in Seq(S) /\ rx_avail # <<>>
    BY <1>1, <2>1
  <2>3. rx_avail[1] \in S /\ Tail(rx_avail) \in Seq(S)
    BY <2>2
  <2>4. QED
    BY <1>2, <2>1, <2>3
<1>6. e \in (1..QUEUE_SIZE) \X (1..MaxEvents) /\ e[2] = arrived + 1
  BY <1>3, <1>4, <1>5
<1>7. /\ rx_used' \in Seq((1..QUEUE_SIZE) \X (1..MaxEvents))
      /\ Len(rx_used') = Len(rx_used) + 1 /\ DOMAIN rx_used' = 1..(Len(rx_used) + 1)
      /\ DOMAIN rx_used = 1..Len(rx_used) /\ Len(rx_used) \in Nat
      /\ \A k \in DOMAIN rx_used : rx_used'[k] = rx_used[k]
      /\ rx_used'[Len(rx_used) + 1] = e
  BY <1>1, <1>2, <1>4, <1>6
<1>8. RxTypes'
  BY <1>2, <1>5, <1>7 DEF NicInv, Shapes, RxTypes
<1>9. VirtioRx'
  <2>1. /\ first = 0 /\ Len(seen) + Len(rx_used) = arrived
        /\ \A k \in DOMAIN seen : seen[k] = k
        /\ \A k \in DOMAIN rx_used : rx_used[k][2] = Len(seen) + k
    BY <1>1 DEF NicInv, VirtioRx
  <2>2. \A k \in DOMAIN rx_used' : k \in DOMAIN rx_used \/ k = Len(rx_used) + 1
    BY <1>7
  <2>3. \A k \in DOMAIN rx_used' : rx_used'[k][2] = Len(seen) + k
    <3>1. \A k \in DOMAIN rx_used : rx_used'[k][2] = Len(seen) + k
      BY <1>7, <2>1
    <3>2. rx_used'[Len(rx_used) + 1][2] = Len(seen) + (Len(rx_used) + 1)
      BY <1>1, <1>6, <1>7, <2>1
    <3>3. QED
      BY <2>2, <3>1, <3>2
  <2>4. Len(seen) + Len(rx_used') = arrived + 1
    BY <1>1, <1>7, <2>1
  <2>5. QED
    BY <1>2, <2>1, <2>3, <2>4 DEF VirtioRx
<1>10. RtlRx'
  BY <1>1, <1>2 DEF RtlRx
<1>11. BuffersKept'
  <2>1. Kept(rx_avail, rx_used, taken)
    BY <1>1, KeptNow
  <2>2. Kept(Tail(rx_avail), Append(rx_used, <<rx_avail[1], arrived + 1>>), taken)
    BY <1>1, <1>3, <2>1, KeptStore
  <2>3. QED
    BY <1>1, <1>2, <1>8, <2>2, KeptNext
<1>12. QED
  BY <1>8, <1>9, <1>10, <1>11

(* virtio_poll taking a frame keeps the invariant of reception. *)
LEMMA VirtioTakesRx ==
  ASSUME NicInv, VirtioTakes
  PROVE  /\ RxTypes' /\ VirtioRx' /\ RtlRx' /\ BuffersKept' /\ taken' # 0
<1>1. /\ rx_avail \in Seq(1..QUEUE_SIZE) /\ seen \in Seq(0..MaxEvents)
      /\ rx_used \in Seq((1..QUEUE_SIZE) \X (1..MaxEvents)) /\ Len(seen) \in Nat
      /\ arrived \in Nat /\ arrived <= MaxEvents /\ rx_used # <<>> /\ nic = "virtio" /\ pc = "rx"
  BY RxFacts DEF VirtioTakes
<1>2. /\ seen' = Noted(rx_used[1][2]) /\ taken' = rx_used[1][1] /\ rx_used' = Tail(rx_used)
      /\ pkt' = 1
      /\ UNCHANGED <<nic, ring, dev_at, capr, rx_ptr, rx_avail, first, arrived>>
  BY DEF VirtioTakes
<1>3. /\ first = 0 /\ Len(seen) + Len(rx_used) = arrived
      /\ \A k \in DOMAIN seen : seen[k] = k
      /\ \A k \in DOMAIN rx_used : rx_used[k][2] = Len(seen) + k
  BY <1>1 DEF NicInv, VirtioRx
<1>4. /\ rx_used' \in Seq((1..QUEUE_SIZE) \X (1..MaxEvents)) /\ Len(rx_used) \in Nat
      /\ Len(rx_used') = Len(rx_used) - 1 /\ Len(rx_used) > 0 /\ 1 \in DOMAIN rx_used
      /\ \A k \in DOMAIN rx_used' : k \in Nat /\ k + 1 \in DOMAIN rx_used
                                    /\ rx_used'[k] = rx_used[k + 1]
  <2>1. PICK S : S = (1..QUEUE_SIZE) \X (1..MaxEvents)
    OBVIOUS
  <2>2. rx_used \in Seq(S) /\ rx_used # <<>>
    BY <1>1, <2>1
  <2>3. /\ Tail(rx_used) \in Seq(S) /\ Len(Tail(rx_used)) = Len(rx_used) - 1 /\ Len(rx_used) > 0
        /\ \A k \in DOMAIN Tail(rx_used) : k \in Nat /\ k + 1 \in DOMAIN rx_used
                                           /\ Tail(rx_used)[k] = rx_used[k + 1]
    BY <2>2, ToSetTail
  <2>4. Len(rx_used) \in Nat /\ 1 \in DOMAIN rx_used
    BY <2>2
  <2>5. QED
    BY <1>2, <2>1, <2>3, <2>4
<1>5. rx_used[1][2] = Len(seen) + 1 /\ Len(seen) + 1 \in 0..MaxEvents /\ Len(seen) <= MaxEvents
  <2>1. rx_used[1][2] = Len(seen) + 1
    BY <1>3, <1>4
  <2>2. Len(seen) + 1 <= arrived
    BY <1>1, <1>3, <1>4
  <2>3. QED
    BY <1>1, <2>1, <2>2, NicAssumption
<1>6. seen' = Append(seen, Len(seen) + 1)
  BY <1>2, <1>5 DEF Noted
<1>7. /\ seen' \in Seq(0..MaxEvents) /\ Len(seen') = Len(seen) + 1
      /\ DOMAIN seen' = 1..(Len(seen) + 1) /\ DOMAIN seen = 1..Len(seen)
      /\ \A k \in DOMAIN seen : seen'[k] = seen[k]
      /\ seen'[Len(seen) + 1] = Len(seen) + 1
  BY <1>1, <1>5, <1>6
<1>8. taken = 0
  BY <1>1 DEF NicInv, Places, Busy, Sending
<1>9. Kept(rx_avail, rx_used, 0)
  BY <1>1, <1>8, KeptNow
<1>10. Kept(rx_avail, Tail(rx_used), rx_used[1][1]) /\ rx_used[1][1] \in 1..QUEUE_SIZE
  BY <1>1, <1>9, KeptTake
<1>11. RxTypes' /\ taken' # 0
  <2>1. pkt' \in 0..Batch /\ taken' \in Nat /\ taken' # 0
    BY <1>2, <1>10, NicAssumption
  <2>2. QED
    BY <1>2, <1>4, <1>7, <2>1 DEF NicInv, Shapes, RxTypes
<1>12. VirtioRx'
  <2>1. \A k \in DOMAIN seen' : k \in DOMAIN seen \/ k = Len(seen) + 1
    BY <1>1, <1>7
  <2>2. \A k \in DOMAIN seen' : seen'[k] = k
    BY <1>3, <1>7, <2>1
  <2>3. \A k \in DOMAIN rx_used' : rx_used'[k][2] = Len(seen') + k
    <3>1. SUFFICES ASSUME NEW k \in DOMAIN rx_used' PROVE rx_used'[k][2] = Len(seen') + k
      OBVIOUS
    <3>2. k \in Nat /\ rx_used'[k][2] = Len(seen) + (k + 1)
      BY <1>3, <1>4
    <3>3. QED
      BY <1>1, <1>7, <3>2
  <2>4. Len(seen') + Len(rx_used') = arrived
    BY <1>1, <1>3, <1>4, <1>7
  <2>5. QED
    BY <1>2, <1>3, <2>2, <2>3, <2>4 DEF VirtioRx
<1>13. RtlRx'
  BY <1>1, <1>2 DEF RtlRx
<1>14. BuffersKept'
  BY <1>1, <1>2, <1>10, <1>11, KeptNext
<1>15. QED
  BY <1>11, <1>12, <1>13, <1>14

(* The ring of the RTL8139. *)
LEMMA LinearKept ==
  ASSUME Linear, UNCHANGED <<ring, dev_at, arrived, first>>,
         \A k \in DOMAIN seen' : seen'[k] = first + k, first + Len(seen') <= arrived,
         rx_ptr' <= dev_at, Pointed'
  PROVE  Linear'
<1>1. \A c : Chained(c)' <=> Chained(c)
  BY DEF Chained, AtFrame
<1>2. QED
  BY <1>1 DEF Linear

(* What Readings finds at the pointer while the ring is linear. *)
LEMMA ReadsNext ==
  ASSUME NicInv, Linear, pc = "rx", NEW r \in Readings(rx_ptr)
  PROVE  /\ AtFrame(rx_ptr, first + Len(seen) + 1) /\ first + Len(seen) < arrived
         /\ r[1] = first + Len(seen) + 1 /\ r[2] = ring[rx_ptr].size
<1>1. /\ ring \in [Cells -> RingCell] /\ dev_at \in Cells /\ rx_ptr \in Cells
      /\ first \in Nat /\ Len(seen) \in Nat /\ arrived \in Nat
  BY RxFacts
<1>2. ~Busy
  BY DEF Busy, Sending
<1>3. rx_ptr # dev_at
  <2>1. SUFFICES ASSUME rx_ptr = dev_at PROVE FALSE
    OBVIOUS
  <2>2. ring[rx_ptr] = Blank
    BY <1>1, <2>1, CellIs DEF Linear
  <2>3. Readings(rx_ptr) = {}
    BY <2>2 DEF Readings, Blank
  <2>4. QED
    BY <2>3
<1>4. AtFrame(rx_ptr, first + Len(seen) + 1)
  BY <1>2, <1>3 DEF Linear, Pointed
<1>5. PICK h : h = ring[rx_ptr]
  OBVIOUS
<1>6. h \in RingCell /\ h.kind = "head" /\ h.frame = first + Len(seen) + 1
  BY <1>1, <1>4, <1>5 DEF AtFrame
<1>7. h.size \in Nat /\ h.frame \in Nat
  BY <1>6, NicAssumption DEF RingCell
<1>8. /\ rx_ptr + h.size <= dev_at /\ h.frame <= arrived
      /\ \A k \in 1..(h.size - 1) : ring[rx_ptr + k] = Body(h.frame)
  BY <1>1, <1>5, <1>6 DEF Linear, Chained
<1>9. Whole(rx_ptr, h.frame, h.size)
  <2>1. SUFFICES ASSUME NEW k \in 1..(h.size - 1) PROVE ring[Cell(rx_ptr + k)] = Body(h.frame)
    BY DEF Whole
  <2>2. rx_ptr + k \in Cells
    BY <1>1, <1>7, <1>8, NicAssumption DEF Cells
  <2>3. QED
    BY <1>8, <2>2, CellIs
<1>10. r = <<h.frame, h.size>>
  BY <1>5, <1>6, <1>9 DEF Readings
<1>11. first + Len(seen) < arrived
  BY <1>1, <1>6, <1>8
<1>12. QED
  BY <1>4, <1>5, <1>6, <1>10, <1>11

(* rtl_poll taking a frame keeps the invariant of reception. *)
LEMMA RtlTakesRx ==
  ASSUME NicInv, RtlTakes
  PROVE  RxTypes' /\ VirtioRx' /\ RtlRx' /\ BuffersKept'
<1>1. /\ nic = "rtl" /\ pc = "rx" /\ pc' = "input" /\ pkt' = pkt + 1 /\ pkt < Batch
      /\ UNCHANGED <<nic, dev, ring, dev_at, capr, rx_ptr, rx_avail, rx_used, first,
                     arrived, early>>
  BY DEF RtlTakes
<1>2. /\ ring \in [Cells -> RingCell] /\ dev_at \in Cells /\ rx_ptr \in Cells /\ pkt \in 0..Batch
      /\ first \in Nat /\ seen \in Seq(0..MaxEvents) /\ Len(seen) \in Nat /\ arrived \in Nat
      /\ arrived <= MaxEvents
  BY RxFacts
<1>3. PICK r \in Readings(rx_ptr) : seen' = Noted(r[1]) /\ taken' = r[2]
  BY DEF RtlTakes
<1>4. r[1] \in 0..MaxEvents /\ r[2] \in Nat
  <2>1. PICK h : h = ring[rx_ptr]
    OBVIOUS
  <2>2. h \in RingCell
    BY <1>2, <2>1
  <2>3. h.kind \in {"blank", "head", "body"} /\ h.frame \in 0..MaxEvents /\ h.size \in Nat
    BY <2>2 DEF RingCell
  <2>4. CASE h.kind = "blank"
    BY <1>3, <2>1, <2>4 DEF Readings
  <2>5. CASE h.kind = "head"
    <3>1. r = <<IF Whole(rx_ptr, h.frame, h.size) THEN h.frame ELSE Garbage, h.size>>
      BY <1>3, <2>1, <2>5 DEF Readings
    <3>2. QED
      BY <2>3, <3>1, NicAssumption DEF Garbage
  <2>6. CASE h.kind = "body"
    <3>1. PICK n \in Sizes : r = <<Garbage, n>>
      BY <1>3, <2>1, <2>6 DEF Readings
    <3>2. QED
      BY <3>1, NicAssumption DEF Garbage
  <2>7. QED
    BY <2>3, <2>4, <2>5, <2>6
<1>5. seen' \in Seq(0..MaxEvents)
  <2>1. PICK S : S = 0..MaxEvents
    OBVIOUS
  <2>2. PICK f : f = r[1]
    OBVIOUS
  <2>3. seen \in Seq(S) /\ f \in S /\ (seen' = seen \/ seen' = Append(seen, f))
    BY <1>2, <1>3, <1>4, <2>1, <2>2 DEF Noted
  <2>4. Append(seen, f) \in Seq(S)
    BY <2>3
  <2>5. QED
    BY <2>1, <2>3, <2>4
<1>6. pkt' \in 0..Batch
  BY <1>1, <1>2, NicAssumption
<1>7. RxTypes'
  BY <1>1, <1>3, <1>4, <1>5, <1>6 DEF NicInv, Shapes, RxTypes
<1>8. VirtioRx'
  BY <1>1 DEF VirtioRx
<1>9. BuffersKept'
  BY <1>1 DEF NicInv, BuffersKept
<1>10. Linear => Linear'
  <2>1. SUFFICES ASSUME Linear PROVE Linear'
    OBVIOUS
  <2>2. /\ AtFrame(rx_ptr, first + Len(seen) + 1) /\ first + Len(seen) < arrived
        /\ r[1] = first + Len(seen) + 1 /\ r[2] = ring[rx_ptr].size
    BY <1>1, <1>3, <2>1, ReadsNext
  <2>3. seen' = Append(seen, first + Len(seen) + 1)
    BY <1>2, <1>3, <2>2, NicAssumption DEF Noted
  <2>4. /\ Len(seen') = Len(seen) + 1
        /\ DOMAIN seen' = 1..(Len(seen) + 1) /\ DOMAIN seen = 1..Len(seen)
        /\ \A k \in DOMAIN seen : seen'[k] = seen[k]
        /\ seen'[Len(seen) + 1] = first + Len(seen) + 1
    BY <1>2, <2>3
  <2>5. \A k \in DOMAIN seen' : seen'[k] = first + k
    <3>1. \A k \in DOMAIN seen : seen[k] = first + k
      BY <2>1 DEF Linear
    <3>2. \A k \in DOMAIN seen' : k \in DOMAIN seen \/ k = Len(seen) + 1
      BY <1>2, <2>4
    <3>3. seen'[Len(seen) + 1] = first + (Len(seen) + 1)
      BY <1>2, <2>4
    <3>4. QED
      BY <2>4, <3>1, <3>2, <3>3
  <2>6. Busy'
    BY <1>1 DEF Busy
  <2>7. first' + Len(seen') = first + Len(seen) + 1
    BY <1>1, <1>2, <2>4
  <2>8. Pointed'
    BY <1>1, <1>3, <2>2, <2>6, <2>7 DEF Pointed, AtFrame
  <2>9. rx_ptr' <= dev_at
    BY <1>1, <2>1 DEF Linear
  <2>10. first + Len(seen') <= arrived
    BY <1>2, <2>2, <2>4
  <2>11. QED
    BY <1>1, <2>1, <2>5, <2>8, <2>9, <2>10, LinearKept
<1>11. (Filled => Filled') /\ (Dead => Dead')
  BY <1>1 DEF Filled, Dead
<1>12. RtlRx'
  BY <1>1, <1>10, <1>11, NotOpen DEF NicInv, RtlRx
<1>13. QED
  BY <1>7, <1>8, <1>9, <1>12

(* The return of netif->input, which gives the buffer back, keeps the invariant of reception. *)
LEMMA InputReturnsRx ==
  ASSUME NicInv, InputReturns
  PROVE  RxTypes' /\ VirtioRx' /\ RtlRx' /\ BuffersKept'
<1>1. /\ pc = "input" /\ pc' = "rx" /\ taken' = 0
      /\ UNCHANGED <<nic, dev, ring, dev_at, pkt, rx_used, first, arrived, early, seen>>
  BY DEF InputReturns
<1>2. /\ ring \in [Cells -> RingCell] /\ dev_at \in Cells /\ rx_ptr \in Cells /\ taken \in Nat
      /\ first \in Nat /\ Len(seen) \in Nat /\ arrived \in Nat /\ nic \in {"rtl", "virtio"}
      /\ rx_avail \in Seq(1..QUEUE_SIZE)
      /\ rx_used \in Seq((1..QUEUE_SIZE) \X (1..MaxEvents))
  BY RxFacts
<1>3. Busy /\ ~Busy' /\ dev # "open" /\ dev' # "open"
  BY <1>1, NotOpen DEF Busy, Sending
<1>4. CASE nic = "virtio"
  <2>1. rx_avail' = Append(rx_avail, taken) /\ UNCHANGED <<rx_ptr, capr>>
    BY <1>4 DEF InputReturns
  <2>2. Kept(rx_avail, rx_used, taken) /\ taken # 0
    BY <1>3, <1>4, KeptNow DEF NicInv, Places
  <2>3. taken \in 1..QUEUE_SIZE
    BY <2>2 DEF Kept
  <2>4. Kept(Append(rx_avail, taken), rx_used, 0)
    BY <1>2, <2>2, <2>3, KeptGive
  <2>5. rx_avail' \in Seq(1..QUEUE_SIZE)
    <3>1. PICK S : S = 1..QUEUE_SIZE
      OBVIOUS
    <3>2. rx_avail \in Seq(S) /\ taken \in S
      BY <1>2, <2>3, <3>1
    <3>3. Append(rx_avail, taken) \in Seq(S)
      BY <3>2
    <3>4. QED
      BY <2>1, <3>1, <3>3
  <2>6. RxTypes'
    BY <1>1, <2>1, <2>5 DEF NicInv, Shapes, RxTypes
  <2>7. BuffersKept'
    BY <1>1, <1>4, <2>1, <2>4, <2>6, KeptNext
  <2>8. VirtioRx'
    BY <1>1 DEF NicInv, VirtioRx
  <2>9. RtlRx'
    BY <1>1, <1>4 DEF RtlRx
  <2>10. QED
    BY <2>6, <2>7, <2>8, <2>9
<1>5. CASE nic = "rtl"
  <2>1. rx_ptr' = Cell(rx_ptr + taken) /\ capr' = rx_ptr' /\ UNCHANGED rx_avail
    BY <1>5 DEF InputReturns
  <2>2. rx_ptr' \in Cells
    <3>1. rx_ptr + taken \in Nat
      BY <1>2, CellIs
    <3>2. QED
      BY <2>1, <3>1, CellIs
  <2>3. RxTypes'
    BY <1>1, <2>1, <2>2 DEF NicInv, Shapes, RxTypes
  <2>4. VirtioRx' /\ BuffersKept'
    BY <1>1, <1>5, <2>1 DEF NicInv, VirtioRx, BuffersKept
  <2>5. Linear => Linear'
    <3>1. SUFFICES ASSUME Linear PROVE Linear'
      OBVIOUS
    <3>2. PICK n : n = first + Len(seen)
      OBVIOUS
    <3>3. AtFrame(rx_ptr, n) /\ taken = ring[rx_ptr].size
      BY <1>3, <3>1, <3>2 DEF Linear, Pointed
    <3>4. Chained(rx_ptr) /\ ring[rx_ptr].frame = n
      BY <1>2, <3>1, <3>3 DEF Linear, AtFrame
    <3>5. /\ rx_ptr + taken <= dev_at
          /\ (rx_ptr + taken = dev_at /\ n = arrived) \/ AtFrame(rx_ptr + taken, n + 1)
      BY <3>3, <3>4 DEF Chained
    <3>6. rx_ptr + taken \in Cells
      BY <1>2, <3>5, NicAssumption DEF Cells
    <3>7. rx_ptr' = rx_ptr + taken
      BY <2>1, <3>6, CellIs
    <3>8. n' = n /\ first' + Len(seen') = n
      BY <1>1, <3>2
    <3>9. Pointed'
      BY <1>1, <1>3, <3>5, <3>7, <3>8 DEF Pointed, AtFrame
    <3>10. rx_ptr' <= dev_at
      BY <3>5, <3>7
    <3>11. (\A k \in DOMAIN seen' : seen'[k] = first + k) /\ first + Len(seen') <= arrived
      BY <1>1, <3>1 DEF Linear
    <3>12. QED
      BY <1>1, <3>1, <3>9, <3>10, <3>11, LinearKept
  <2>6. (Filled => Filled') /\ (Dead => Dead')
    BY <1>1 DEF Filled, Dead
  <2>7. RtlRx'
    BY <1>1, <1>3, <2>5, <2>6 DEF NicInv, RtlRx
  <2>8. QED
    BY <2>3, <2>4, <2>7
<1>6. QED
  BY <1>2, <1>4, <1>5

(* The steps of a poll that take no frame. *)
LEMMA PollRx ==
  ASSUME NicInv, net_poll \/ PollEnds
  PROVE  RxTypes' /\ VirtioRx' /\ RtlRx' /\ BuffersKept'
<1>1. /\ UNCHANGED <<nic, dev, ring, dev_at, capr, rx_ptr, taken, rx_avail, rx_used, first,
                     arrived, early, seen>>
      /\ pkt' \in {0, pkt} /\ pc \in {"idle", "rx"} /\ pc' \in {"idle", "rx"}
  BY DEF net_poll, PollEnds, rxVars
<1>2. ~Busy /\ ~Busy'
  BY <1>1 DEF Busy, Sending
<1>3. pkt' \in 0..Batch
  BY <1>1, RxFacts, NicAssumption
<1>4. RxTypes'
  BY <1>1, <1>3 DEF NicInv, Shapes, RxTypes
<1>5. VirtioRx' /\ BuffersKept'
  BY <1>1 DEF NicInv, VirtioRx, BuffersKept
<1>6. Linear => Linear'
  <2>1. SUFFICES ASSUME Linear PROVE Linear'
    OBVIOUS
  <2>2. Pointed'
    BY <1>1, <1>2, <2>1 DEF Linear, Pointed, AtFrame
  <2>3. /\ rx_ptr' <= dev_at
        /\ (\A k \in DOMAIN seen' : seen'[k] = first + k) /\ first + Len(seen') <= arrived
    BY <1>1, <2>1 DEF Linear
  <2>4. QED
    BY <1>1, <2>1, <2>2, <2>3, LinearKept
<1>7. (Filled => Filled') /\ (Dead => Dead')
  BY <1>1 DEF Filled, Dead
<1>8. RtlRx'
  BY <1>1, <1>6, <1>7 DEF NicInv, RtlRx
<1>9. QED
  BY <1>4, <1>5, <1>8

(* The card stores a frame. *)
LEMMA RtlStoresRx ==
  ASSUME NicInv, NEW n \in Sizes, RtlStores(n)
  PROVE  RxTypes' /\ VirtioRx' /\ RtlRx' /\ BuffersKept'
<1>1. PICK a : a = dev_at
  OBVIOUS
<1>2. PICK f : f = arrived + 1
  OBVIOUS
<1>3. /\ nic = "rtl" /\ dev # "off" /\ arrived' = f /\ dev_at' = Cell(a + n)
      /\ UNCHANGED <<nic, dev, pc, back, capr, rx_ptr, pkt, taken, rx_avail, rx_used, first, seen>>
  BY <1>1, <1>2 DEF RtlStores
<1>4. /\ ring \in [Cells -> RingCell] /\ a \in Cells /\ rx_ptr \in Cells /\ taken \in Nat
      /\ first \in Nat /\ Len(seen) \in Nat /\ arrived \in Nat /\ f \in Nat
      /\ a \in Nat /\ a < RX_CELLS
  <2>1. /\ ring \in [Cells -> RingCell] /\ dev_at \in Cells /\ rx_ptr \in Cells /\ taken \in Nat
        /\ first \in Nat /\ Len(seen) \in Nat /\ arrived \in Nat
    BY RxFacts
  <2>2. a \in Cells /\ f \in Nat
    BY <1>1, <1>2, <2>1
  <2>3. a \in Nat /\ a < RX_CELLS
    BY <2>2, CellIs
  <2>4. QED
    BY <2>1, <2>2, <2>3
<1>5. n \in Nat /\ 1 <= n /\ n < RX_CELLS
  BY NicAssumption
<1>6. f \in 1..MaxEvents
  <2>1. Len(result) \in Nat /\ ups \in Nat
    BY TxFacts, RxFacts
  <2>2. QED
    BY <1>2, <1>4, <2>1, NicAssumption DEF RtlStores, EventLeft
<1>7. /\ Header(f, n) \in RingCell /\ Header(f, n) # Blank
      /\ Header(f, n).kind = "head" /\ Header(f, n).frame = f /\ Header(f, n).size = n
      /\ Body(f) \in RingCell /\ Body(f) # Blank /\ Body(f).kind = "body"
  <2>1. /\ Header(f, n).kind = "head" /\ Header(f, n).frame = f /\ Header(f, n).size = n
        /\ Body(f).kind = "body" /\ Blank.kind = "blank"
    BY DEF Header, Body, Blank
  <2>2. Header(f, n) \in RingCell /\ Body(f) \in RingCell
    BY <1>5, <1>6, NicAssumption DEF Header, Body, RingCell
  <2>3. QED
    BY <2>1, <2>2
<1>8. \A c \in Cells :
        ring'[c] = IF c = a THEN Header(f, n)
                   ELSE IF \E k \in 1..(n - 1) : c = Cell(a + k) THEN Body(f)
                   ELSE ring[c]
  BY <1>1, <1>2 DEF RtlStores
<1>9. ring' \in [Cells -> RingCell]
  <2>1. ring' = [c \in Cells |-> ring'[c]]
    BY DEF RtlStores
  <2>2. \A c \in Cells : ring'[c] \in RingCell
    BY <1>4, <1>7, <1>8
  <2>3. QED
    BY <2>1, <2>2
<1>10. \A c \in Cells : ring'[c] = Header(f, n) \/ ring'[c] = Body(f) \/ ring'[c] = ring[c]
  BY <1>8
<1>11. dev_at' \in Cells
  BY <1>3, <1>4, <1>5, CellIs
<1>12. RxTypes'
  <2>1. \A c \in Cells : ring'[c].kind = "head" => ring'[c].size # 0
    <3>1. \A c \in Cells : ring[c].kind = "head" => ring[c].size # 0
      BY RxFacts
    <3>2. SUFFICES ASSUME NEW c \in Cells, ring'[c].kind = "head" PROVE ring'[c].size # 0
      OBVIOUS
    <3>3. CASE ring'[c] = Header(f, n)
      BY <1>5, <1>7, <3>3
    <3>4. CASE ring'[c] = Body(f)
      BY <1>7, <3>2, <3>4
    <3>5. CASE ring'[c] = ring[c]
      BY <3>1, <3>2, <3>5
    <3>6. QED
      BY <1>10, <3>3, <3>4, <3>5
  <2>2. QED
    BY <1>3, <1>9, <1>11, <2>1 DEF NicInv, Shapes, RxTypes
<1>13. VirtioRx' /\ BuffersKept'
  BY <1>3 DEF NicInv, VirtioRx, BuffersKept
<1>14. Filled => Filled'
  BY <1>7, <1>10 DEF Filled
<1>15. ASSUME Linear, a + n >= RX_CELLS PROVE Filled'
  <2>1. SUFFICES ASSUME NEW c \in Cells PROVE ring'[c] # Blank
    BY DEF Filled
  <2>2. c \in Nat /\ c < RX_CELLS
    BY CellIs
  <2>3. CASE c <= a
    BY <1>1, <1>4, <1>7, <1>8, <1>10, <1>15, <2>2, <2>3 DEF Linear
  <2>4. CASE c > a
    <3>1. PICK k : k = c - a
      OBVIOUS
    <3>2. k \in 1..(n - 1) /\ a + k = c
      BY <1>4, <1>5, <1>15, <2>2, <2>4, <3>1, NicAssumption
    <3>3. c = Cell(a + k)
      BY <3>2, CellIs
    <3>4. QED
      BY <1>4, <1>7, <1>8, <2>2, <2>4, <3>2, <3>3
  <2>5. QED
    BY <1>4, <2>2, <2>3, <2>4
<1>16. ASSUME Linear, a + n < RX_CELLS PROVE Linear'
  <2>1. a + n \in Cells /\ dev_at' = a + n
    <3>1. a + n \in Cells
      BY <1>4, <1>5, <1>16, NicAssumption DEF Cells
    <3>2. QED
      BY <1>3, <3>1, CellIs
  <2>2. \A k \in 1..(n - 1) : a + k \in Cells /\ Cell(a + k) = a + k
    <3>1. \A k \in 1..(n - 1) : a + k \in Cells
      BY <1>4, <1>5, <1>16, NicAssumption DEF Cells
    <3>2. QED
      BY <3>1, CellIs
  <2>3. ring'[a] = Header(f, n)
    BY <1>4, <1>8
  <2>4. \A k \in 1..(n - 1) : ring'[a + k] = Body(f)
    <3>1. SUFFICES ASSUME NEW k \in 1..(n - 1) PROVE ring'[a + k] = Body(f)
      OBVIOUS
    <3>2. PICK c : c = a + k
      OBVIOUS
    <3>3. c \in Cells /\ c = Cell(a + k)
      BY <2>2, <3>2
    <3>4. c # a
      BY <1>4, <1>5, <3>2
    <3>5. QED
      BY <1>8, <3>2, <3>3, <3>4
  <2>5. \A c \in Cells : c < a => ring'[c] = ring[c]
    <3>1. SUFFICES ASSUME NEW c \in Cells, c < a PROVE ring'[c] = ring[c]
      OBVIOUS
    <3>2. c \in Nat
      BY CellIs
    <3>3. \A k \in 1..(n - 1) : c # a + k
      BY <1>4, <1>5, <3>1, <3>2
    <3>4. ~ \E k \in 1..(n - 1) : c = Cell(a + k)
      BY <2>2, <3>3
    <3>5. c # a
      BY <1>4, <3>1, <3>2
    <3>6. QED
      BY <1>8, <3>4, <3>5
  <2>6. \A c \in Cells : c >= a + n => ring'[c] = ring[c]
    BY <1>4, <1>5, <1>8, <2>2, CellIs
  <2>7. \A c \in Cells : c > a /\ c < a + n => ring'[c] = Body(f)
    <3>1. SUFFICES ASSUME NEW c \in Cells, c > a, c < a + n PROVE ring'[c] = Body(f)
      OBVIOUS
    <3>2. PICK k : k = c - a
      OBVIOUS
    <3>3. k \in 1..(n - 1) /\ a + k = c
      BY <1>4, <1>5, <3>1, <3>2, CellIs
    <3>4. QED
      BY <2>4, <3>3
  <2>8. \A c \in Cells : c < a <=> ring[c] # Blank
    BY <1>1, <1>16 DEF Linear
  <2>9. \A c \in Cells : c < dev_at' <=> ring'[c] # Blank
    <3>1. SUFFICES ASSUME NEW c \in Cells PROVE c < a + n <=> ring'[c] # Blank
      BY <2>1
    <3>2. c \in Nat
      BY CellIs
    <3>3. CASE c < a
      BY <1>4, <1>5, <2>5, <2>8, <3>2, <3>3
    <3>4. CASE c = a
      BY <1>4, <1>5, <1>7, <2>3, <3>4
    <3>5. CASE c > a /\ c < a + n
      BY <1>7, <2>7, <3>5
    <3>6. CASE c >= a + n
      BY <1>4, <1>5, <2>6, <2>8, <3>2, <3>6
    <3>7. QED
      BY <1>4, <1>5, <3>2, <3>3, <3>4, <3>5, <3>6
  <2>10. ASSUME NEW c \in Cells, NEW g, AtFrame(c, g) PROVE AtFrame(c, g)'
    <3>1. c < a /\ c \in Nat
      BY <1>1, <2>10, CellIs DEF AtFrame
    <3>2. ring'[c] = ring[c] /\ c < dev_at'
      BY <1>4, <1>5, <2>1, <2>5, <3>1
    <3>3. QED
      BY <2>10, <3>2 DEF AtFrame
  <2>11. AtFrame(a, f)'
    BY <1>4, <1>5, <1>7, <2>1, <2>3 DEF AtFrame
  <2>12. ASSUME NEW c \in Cells, ring'[c].kind = "head" PROVE Chained(c)'
    <3>1. c \in Nat
      BY CellIs
    <3>2. CASE c < a
      <4>1. ring'[c] = ring[c] /\ Chained(c)
        BY <1>16, <2>5, <2>12, <3>2 DEF Linear
      <4>2. PICK h : h = ring[c]
        OBVIOUS
      <4>3. h \in RingCell
        BY <1>4, <4>2
      <4>4. h.size \in Nat /\ h.frame \in Nat
        BY <4>3 DEF RingCell
      <4>5. /\ c + h.size <= a /\ h.frame <= arrived
            /\ \A k \in 1..(h.size - 1) : ring[c + k] = Body(h.frame)
            /\ (c + h.size = a /\ h.frame = arrived) \/ AtFrame(c + h.size, h.frame + 1)
        BY <1>1, <4>1, <4>2 DEF Chained
      <4>6. c + h.size <= dev_at' /\ h.frame <= arrived'
        BY <1>2, <1>3, <1>4, <1>5, <2>1, <3>1, <4>4, <4>5
      <4>7. \A k \in 1..(h.size - 1) : ring'[c + k] = Body(h.frame)
        <5>1. SUFFICES ASSUME NEW k \in 1..(h.size - 1) PROVE ring'[c + k] = Body(h.frame)
          OBVIOUS
        <5>2. c + k \in Cells /\ c + k < a
          BY <1>4, <3>1, <4>4, <4>5, NicAssumption DEF Cells
        <5>3. QED
          BY <2>5, <4>5, <5>2
      <4>8. AtFrame(c + h.size, h.frame + 1)'
        <5>1. CASE c + h.size = a /\ h.frame = arrived
          <6>1. PICK x, y : x = c + h.size /\ y = h.frame + 1
            OBVIOUS
          <6>2. x = a /\ y = f
            BY <1>2, <5>1, <6>1
          <6>3. QED
            BY <2>11, <6>1, <6>2
        <5>2. CASE AtFrame(c + h.size, h.frame + 1)
          <6>1. PICK x, y : x = c + h.size /\ y = h.frame + 1
            OBVIOUS
          <6>2. x \in Cells
            BY <1>4, <3>1, <4>4, <4>5, <6>1, NicAssumption DEF Cells
          <6>3. AtFrame(x, y)
            BY <5>2, <6>1
          <6>4. QED
            BY <2>10, <6>1, <6>2, <6>3
        <5>3. QED
          BY <4>5, <5>1, <5>2
      <4>9. QED
        BY <4>1, <4>2, <4>6, <4>7, <4>8 DEF Chained
    <3>3. CASE c = a
      <4>1. ring'[c].size = n /\ ring'[c].frame = f
        BY <1>7, <2>3, <3>3
      <4>2. c + n = dev_at' /\ f = arrived'
        BY <1>3, <2>1, <3>3
      <4>3. \A k \in 1..(n - 1) : ring'[c + k] = Body(f)
        BY <2>4, <3>3
      <4>4. c + n <= dev_at' /\ f <= arrived'
        BY <1>4, <1>5, <3>1, <4>2
      <4>5. QED
        BY <4>1, <4>2, <4>3, <4>4 DEF Chained
    <3>4. CASE c > a
      <4>1. ring'[c] = Body(f) \/ ring'[c] = Blank
        BY <1>4, <1>5, <2>6, <2>7, <2>8, <3>1, <3>4
      <4>2. ring'[c].kind # "head"
        BY <1>7, <4>1 DEF Blank
      <4>3. QED
        BY <2>12, <4>2
    <3>5. QED
      BY <1>4, <3>1, <3>2, <3>3, <3>4
  <2>13. Pointed'
    <3>1. (Busy' <=> Busy) /\ UNCHANGED <<rx_ptr, first, seen, taken>>
      BY <1>3 DEF Busy, Sending
    <3>2. PICK m : m = first + Len(seen)
      OBVIOUS
    <3>3. CASE Busy
      <4>1. AtFrame(rx_ptr, m) /\ taken = ring[rx_ptr].size
        BY <1>16, <3>2, <3>3 DEF Linear, Pointed
      <4>2. rx_ptr < a
        BY <1>1, <4>1 DEF AtFrame
      <4>3. ring'[rx_ptr] = ring[rx_ptr] /\ rx_ptr < a + n
        BY <1>4, <1>5, <2>5, <4>2, CellIs
      <4>4. QED
        BY <2>1, <3>1, <3>2, <3>3, <4>1, <4>3 DEF Pointed, AtFrame
    <3>4. CASE ~Busy
      <4>1. (rx_ptr = a /\ m = arrived) \/ AtFrame(rx_ptr, m + 1)
        BY <1>1, <1>16, <3>2, <3>4 DEF Linear, Pointed
      <4>2. CASE rx_ptr = a /\ m = arrived
        BY <1>2, <2>1, <2>11, <3>1, <3>2, <3>4, <4>2 DEF Pointed, AtFrame
      <4>3. CASE AtFrame(rx_ptr, m + 1)
        <5>1. rx_ptr < a
          BY <1>1, <4>3 DEF AtFrame
        <5>2. ring'[rx_ptr] = ring[rx_ptr] /\ rx_ptr < a + n
          BY <1>4, <1>5, <2>5, <5>1, CellIs
        <5>3. QED
          BY <2>1, <3>1, <3>2, <3>4, <4>3, <5>2 DEF Pointed, AtFrame
      <4>4. QED
        BY <4>1, <4>2, <4>3
    <3>5. QED
      BY <3>3, <3>4
  <2>14. rx_ptr' <= dev_at'
    BY <1>1, <1>3, <1>4, <1>5, <1>16, <2>1, CellIs DEF Linear
  <2>15. (\A k \in DOMAIN seen' : seen'[k] = first' + k) /\ first' + Len(seen') <= arrived'
    BY <1>2, <1>3, <1>4, <1>16 DEF Linear
  <2>16. QED
    BY <2>9, <2>12, <2>13, <2>14, <2>15 DEF Linear
<1>17. RtlRx'
  <2>1. early' = (early \/ dev = "open")
    BY DEF RtlStores
  <2>2. SUFFICES ASSUME ~early' PROVE dev' # "open" /\ (Linear' \/ Filled')
    BY <1>3 DEF RtlRx
  <2>3. ~early /\ dev # "open"
    BY <2>1, <2>2, Zenon
  <2>4. dev' # "open"
    BY <2>3 DEF RtlStores
  <2>5. Linear \/ Filled
    BY <1>3, <2>3, <2>4 DEF NicInv, RtlRx, Dead
  <2>6. a + n >= RX_CELLS \/ a + n < RX_CELLS
    BY <1>4, <1>5, NicAssumption
  <2>7. QED
    BY <1>14, <1>15, <1>16, <2>4, <2>5, <2>6
<1>18. QED
  BY <1>12, <1>13, <1>17

(* The card is started, or fails to start. *)
LEMMA UpRx ==
  ASSUME NicInv, eth0_up
  PROVE  RxTypes' /\ VirtioRx' /\ RtlRx' /\ BuffersKept'
<1>1. /\ nic = "rtl" /\ dev' = "open" /\ dev_at' = 0 /\ capr' = 0 /\ first' = arrived /\ seen' = <<>>
      /\ UNCHANGED <<nic, ring, rx_ptr, pkt, taken, rx_avail, rx_used, arrived>>
  BY DEF eth0_up
<1>2. 0 \in Cells /\ seen' \in Seq(0..MaxEvents)
  BY <1>1, CellIs
<1>3. RxTypes'
  BY <1>1, <1>2 DEF NicInv, Shapes, RxTypes
<1>4. VirtioRx' /\ BuffersKept'
  BY <1>1 DEF NicInv, VirtioRx, BuffersKept
<1>5. RtlRx'
  BY <1>1 DEF RtlRx
<1>6. QED
  BY <1>3, <1>4, <1>5

(* A bring-up that fails keeps the invariant of reception. *)
LEMMA UpFailsRx ==
  ASSUME NicInv, eth0_up_fails
  PROVE  RxTypes' /\ VirtioRx' /\ RtlRx' /\ BuffersKept'
<1>1. /\ nic = "rtl" /\ pc = "idle" /\ dev' = "off" /\ dev_at' = 0 /\ capr' = 0
      /\ UNCHANGED <<nic, pc, back, ring, rx_ptr, pkt, taken, rx_avail, rx_used, first, arrived,
                     early, seen>>
  BY DEF eth0_up_fails
<1>2. 0 \in Cells
  BY CellIs
<1>3. RxTypes'
  BY <1>1, <1>2 DEF NicInv, Shapes, RxTypes
<1>4. VirtioRx' /\ BuffersKept'
  BY <1>1 DEF NicInv, VirtioRx, BuffersKept
<1>5. CASE ring[0] # Blank
  BY <1>1, <1>3, <1>4, <1>5 DEF RtlRx, Dead
<1>6. CASE ring[0] = Blank
  <2>1. ~Filled /\ ~Dead
    BY <1>2, <1>6 DEF Filled, Dead
  <2>2. ASSUME Linear PROVE Linear'
    <3>1. dev_at \in Nat
      BY RxFacts, CellIs
    <3>2. dev_at = 0
      BY <1>2, <1>6, <2>2, <3>1 DEF Linear
    <3>3. Busy' <=> Busy
      BY <1>1 DEF Busy, Sending
    <3>4. Pointed'
      BY <1>1, <2>2, <3>2, <3>3 DEF Linear, Pointed, AtFrame
    <3>5. /\ rx_ptr' <= dev_at /\ first + Len(seen') <= arrived
          /\ \A k \in DOMAIN seen' : seen'[k] = first + k
      BY <1>1, <2>2 DEF Linear
    <3>6. QED
      BY <1>1, <2>2, <3>2, <3>4, <3>5, LinearKept
  <2>3. QED
    BY <1>1, <1>3, <1>4, <2>1, <2>2, NotOpen DEF NicInv, RtlRx
<1>7. QED
  BY <1>3, <1>4, <1>5, <1>6

(* The clearing of the ring at the end of eth0_up keeps the invariant of reception. *)
LEMMA ClearRx ==
  ASSUME NicInv, eth0_clear
  PROVE  RxTypes' /\ VirtioRx' /\ RtlRx' /\ BuffersKept'
<1>1. /\ dev = "open" /\ dev' = "on" /\ nic = "rtl" /\ pc' = "idle" /\ ring' = [c \in Cells |-> Blank] /\ rx_ptr' = 0
      /\ UNCHANGED <<nic, dev_at, capr, pkt, taken, rx_avail, rx_used, first, arrived, early, seen>>
  BY DEF eth0_clear, NicInv, Places, Opening
<1>2. /\ 0 \in Cells /\ \A c \in Cells : c \in Nat
  BY CellIs
<1>3. Blank \in RingCell /\ Blank.kind = "blank"
  BY NicAssumption DEF Blank, RingCell
<1>4. ring' \in [Cells -> RingCell] /\ \A c \in Cells : ring'[c] = Blank
  BY <1>1, <1>3
<1>5. RxTypes'
  <2>1. \A c \in Cells : ring'[c].kind # "head"
    BY <1>3, <1>4
  <2>2. QED
    BY <1>1, <1>2, <1>4, <2>1 DEF NicInv, Shapes, RxTypes
<1>6. VirtioRx' /\ BuffersKept'
  BY <1>1 DEF NicInv, VirtioRx, BuffersKept
<1>7. ASSUME ~early PROVE Linear'
  <2>1. dev_at = 0 /\ first = arrived /\ seen = <<>> /\ arrived \in Nat
    BY <1>1, <1>7, RxFacts DEF NicInv, RtlRx
  <2>2. \A c \in Cells : c < dev_at' <=> ring'[c] # Blank
    BY <1>1, <1>2, <1>4, <2>1
  <2>3. \A c \in Cells : ring'[c].kind = "head" => Chained(c)'
    BY <1>3, <1>4
  <2>4. Len(seen') = 0 /\ DOMAIN seen' = {}
    BY <1>1, <2>1
  <2>5. /\ \A k \in DOMAIN seen' : seen'[k] = first' + k
        /\ first' + Len(seen') <= arrived' /\ rx_ptr' <= dev_at'
        /\ rx_ptr' = dev_at' /\ first' + Len(seen') = arrived'
    BY <1>1, <2>1, <2>4
  <2>6. ~Busy'
    BY <1>1 DEF Busy, Sending
  <2>7. Pointed'
    BY <2>5, <2>6 DEF Pointed
  <2>8. QED
    BY <2>2, <2>3, <2>5, <2>7 DEF Linear
<1>8. RtlRx'
  BY <1>1, <1>7 DEF RtlRx
<1>9. QED
  BY <1>5, <1>6, <1>8
-----------------------------------------------------------------------------
(* Each step keeps the invariant. *)

(* What the invariant says about the driver and the card, in one place. *)
LEMMA CtlFacts ==
  ASSUME NicInv
  PROVE  /\ nic \in {"rtl", "virtio"} /\ dev \in {"off", "open", "on"}
         /\ pc \in {"idle", "up", "clear", "posted", "rtl_poll", "virtio_poll", "rx", "input"}
         /\ back \in {"idle", "input", "clear"}
         /\ ups \in Nat /\ arrived \in Nat /\ first \in 0..arrived /\ Sends \in Nat
         /\ Sends + arrived + ups <= MaxEvents
         /\ EventLeft => Sends + arrived + ups < MaxEvents
<1>1. /\ nic \in {"rtl", "virtio"} /\ dev \in {"off", "open", "on"}
      /\ pc \in {"idle", "up", "clear", "posted", "rtl_poll", "virtio_poll", "rx", "input"}
      /\ back \in {"idle", "input", "clear"}
  BY DEF NicInv, Shapes, CtlTypes
<1>2. Sends \in Nat
  BY TxFacts
<1>3. EventLeft => Sends + arrived + ups < MaxEvents
  BY DEF EventLeft, Sends
<1>4. QED
  BY <1>1, <1>2, <1>3 DEF NicInv, Counts

(* Steps that neither send nor receive a frame nor start the card. *)
LEMMA CountsKept ==
  ASSUME NicInv, Sends' = Sends, UNCHANGED <<ups, arrived, first>>
  PROVE  Counts'
BY DEF NicInv, Counts

(* The first half of eth0_up, whether it succeeds or not, keeps the invariant. *)
LEMMA UpKeeps ==
  ASSUME NicInv, eth0_up \/ eth0_up_fails
  PROVE  NicInv'
<1>1. /\ nic = "rtl" /\ pc = "idle" /\ EventLeft /\ ups' = ups + 1 /\ dma' = <<>>
      /\ owed' = [s \in Slots |-> 0] /\ pc' \in {"idle", "up"} /\ dev' \in {"off", "open"}
      /\ dev' = "open" <=> pc' = "up"
      /\ first' \in {first, arrived} /\ before' = Len(result)
      /\ UNCHANGED <<nic, back, cur, buf, used, old_used, left, result, wire, spoilt, taken, arrived>>
  BY DEF eth0_up, eth0_up_fails
<1>2. ~Sending /\ ~Sending' /\ cur \in Slots
  BY <1>1, TxFacts DEF Sending
<1>3. TxTypes' /\ TxInv' /\ Sends' = Sends
  BY <1>1, <1>2, ResetTx
<1>4. RxTypes' /\ VirtioRx' /\ RtlRx' /\ BuffersKept'
  BY UpRx, UpFailsRx
<1>5. CtlTypes'
  BY <1>1, CtlFacts DEF CtlTypes
<1>6. Counts'
  BY <1>1, <1>3, CtlFacts, NicAssumption DEF Counts
<1>7. Places'
  BY <1>1, <1>2 DEF NicInv, Places, Opening
<1>8. QED
  BY <1>3, <1>4, <1>5, <1>6, <1>7 DEF NicInv, Shapes

(* The end of eth0_up keeps the invariant. *)
LEMMA ClearKeeps ==
  ASSUME NicInv, eth0_clear
  PROVE  NicInv'
<1>1. /\ pc \in {"up", "clear"} /\ nic = "rtl" /\ dev' = "on" /\ pc' = "idle" /\ cur' = 0
      /\ before' = Len(result)
      /\ UNCHANGED <<nic, ups, back, buf, owed, dma, used, old_used, left, result, wire, spoilt,
                     first, arrived>>
  BY DEF eth0_clear, NicInv, Places
<1>2. ~Sending /\ ~Sending' /\ cur' \in Slots
  BY <1>1, SlotsAre DEF Sending
<1>3. TxTypes' /\ TxInv' /\ Sends' = Sends
  BY <1>1, <1>2, ResetTx
<1>4. RxTypes' /\ VirtioRx' /\ RtlRx' /\ BuffersKept'
  BY ClearRx
<1>5. CtlTypes'
  BY <1>1, CtlFacts DEF CtlTypes
<1>6. Counts'
  BY <1>1, <1>3, CountsKept
<1>7. Places'
  BY <1>1, <1>2 DEF NicInv, Places, Opening
<1>8. QED
  BY <1>3, <1>4, <1>5, <1>6, <1>7 DEF NicInv, Shapes

(* The start of a transmission keeps the invariant. *)
LEMMA OutputKeeps ==
  ASSUME NicInv, Output
  PROVE  NicInv'
<1>1. /\ MayOutput /\ EventLeft /\ pc \in {"idle", "input", "up"}
      /\ back' = IF pc = "up" THEN "clear" ELSE pc
      /\ pc' = IF nic = "rtl" THEN "rtl_poll" ELSE "posted"
      /\ spoilt' = IF nic = "rtl" /\ owed[cur] # 0 THEN spoilt \cup {Frame} ELSE spoilt
      /\ UNCHANGED <<nic, dev, ups, cur, dma, used, old_used, result, wire, before, rxVars>>
  BY DEF Output, rtl_output, virtio_output, MayOutput, NicInv, Places
<1>2. PICK n : n = IF nic = "rtl" THEN 1 ELSE owed[cur] + 1
  OBVIOUS
<1>3. /\ buf' = [buf EXCEPT ![cur] = Frame] /\ owed' = [owed EXCEPT ![cur] = n]
      /\ left' \in 0..Timeout
  <2>1. nic = "virtio" => cur = 0
    BY DEF NicInv, Places
  <2>2. left \in 0..Timeout /\ Timeout \in 0..Timeout
    BY TxFacts, NicAssumption
  <2>3. QED
    BY <1>2, <2>1, <2>2 DEF Output, rtl_output, virtio_output
<1>4. TxTypes' /\ TxInv' /\ Sends' = Sends + 1
  BY <1>1, <1>2, <1>3, OutputTx
<1>5. (Busy' <=> Busy) /\ Sending' /\ ~Sending
  BY <1>1 DEF Busy, Sending
<1>6. RxTypes' /\ VirtioRx' /\ RtlRx' /\ BuffersKept'
  BY <1>1, <1>5, RxFrame
<1>7. CtlTypes'
  BY <1>1, CtlFacts DEF CtlTypes
<1>8. Counts'
  <2>1. UNCHANGED <<arrived, first>>
    BY <1>1 DEF rxVars
  <2>2. QED
    BY <1>1, <1>4, <2>1, CtlFacts, NicAssumption DEF Counts
<1>9. Places'
  <2>1. UNCHANGED taken
    BY <1>1 DEF rxVars
  <2>2. nic \in {"rtl", "virtio"}
    BY CtlFacts
  <2>3. QED
    BY <1>1, <1>5, <2>1, <2>2 DEF NicInv, Places, Opening
<1>10. QED
  BY <1>4, <1>6, <1>7, <1>8, <1>9 DEF NicInv, Shapes

(* The card looks at a buffer or has sent it. *)
LEMMA CardTxKeeps ==
  ASSUME NicInv, CardReads \/ CardSent
  PROVE  NicInv'
<1>1. UNCHANGED <<nic, dev, ups, pc, back, cur, rxVars>>
  BY DEF CardReads, CardSent
<1>2. TxTypes' /\ TxInv' /\ Sends' = Sends
  BY CardReadsTx, CardSentTx
<1>3. (Busy' <=> Busy) /\ (Sending' <=> Sending)
  BY <1>1 DEF Busy, Sending
<1>4. RxTypes' /\ VirtioRx' /\ RtlRx' /\ BuffersKept'
  BY <1>1, <1>3, RxFrame
<1>5. CtlTypes'
  BY <1>1, CtlFacts DEF CtlTypes
<1>6. UNCHANGED <<arrived, first, taken>>
  BY <1>1 DEF rxVars
<1>7. Counts'
  BY <1>1, <1>2, <1>6, CountsKept
<1>8. Places'
  BY <1>1, <1>3, <1>6 DEF NicInv, Places, Opening
<1>9. QED
  BY <1>2, <1>4, <1>5, <1>7, <1>8 DEF NicInv, Shapes

(* The thread polls once more. *)
LEMMA WaitKeeps ==
  ASSUME NicInv, Sending, Sending', pc \in {"posted", pc'}, nic = "virtio" \/ pc' = pc,
         pc' \in {"rtl_poll", "virtio_poll"}, pc = "posted" => pc' = "virtio_poll",
         left' \in 0..Timeout, old_used' \in Nat,
         pc' = "virtio_poll" /\ owed[cur] = 1 /\ NoTimeouts => used = old_used',
         UNCHANGED <<nic, dev, ups, back, cur, buf, owed, dma, used, result, wire, before, spoilt,
                     rxVars>>
  PROVE  NicInv'
<1>1. TxTypes' /\ TxInv' /\ Sends' = Sends
  BY PollingTx
<1>2. (Busy' <=> Busy) /\ (Opening' <=> Opening)
  BY DEF Busy, Opening, Sending
<1>3. RxTypes' /\ VirtioRx' /\ RtlRx' /\ BuffersKept'
  BY <1>2, RxFrame
<1>4. CtlTypes'
  BY CtlFacts DEF CtlTypes
<1>5. UNCHANGED <<arrived, first, taken>>
  BY DEF rxVars
<1>6. Counts'
  BY <1>1, <1>5, CountsKept
<1>7. Places'
  BY <1>2, <1>5 DEF NicInv, Places
<1>8. QED
  BY <1>1, <1>3, <1>4, <1>6, <1>7 DEF NicInv, Shapes

(* The output function returns. *)
LEMMA ReturnKeeps ==
  ASSUME NicInv, pc \in {"rtl_poll", "virtio_poll"}, NEW err \in {"ERR_OK", "ERR_BUF"},
         Return(err),
         cur' = IF nic = "rtl" /\ err = "ERR_OK" THEN (cur + 1) % TX_SLOTS ELSE cur,
         nic = "virtio" /\ err = "ERR_OK" => used # old_used
  PROVE  NicInv'
<1>1. /\ pc' = back /\ back' = "idle" /\ UNCHANGED <<nic, dev, ups, rxVars>>
  BY DEF Return
<1>2. back \in {"idle", "input", "clear"} /\ Sending
  BY CtlFacts DEF Sending
<1>3. TxTypes' /\ TxInv' /\ Sends' = Sends
  BY ReturnTx
<1>4. (Busy' <=> Busy) /\ (Opening' <=> Opening) /\ ~Sending'
  BY <1>1, <1>2 DEF Busy, Opening, Sending
<1>5. RxTypes' /\ VirtioRx' /\ RtlRx' /\ BuffersKept'
  BY <1>1, <1>2, <1>4, RxFrame
<1>6. CtlTypes'
  BY <1>1, <1>2, CtlFacts DEF CtlTypes
<1>7. UNCHANGED <<arrived, first, taken>>
  BY <1>1 DEF rxVars
<1>8. Counts'
  BY <1>1, <1>3, <1>7, CountsKept
<1>9. Places'
  <2>1. back = "clear" => nic = "rtl"
    BY <1>2 DEF NicInv, Places, Opening
  <2>2. nic = "virtio" => cur' = cur
    OBVIOUS
  <2>3. QED
    BY <1>1, <1>2, <1>4, <1>7, <2>1, <2>2 DEF NicInv, Places
<1>10. QED
  BY <1>3, <1>5, <1>6, <1>8, <1>9 DEF NicInv, Shapes

(* The sampling of the used index before the wait keeps the invariant. *)
LEMMA SampleKeeps ==
  ASSUME NicInv, virtio_sample
  PROVE  NicInv'
<1>1. /\ pc = "posted" /\ pc' = "virtio_poll" /\ old_used' = used /\ left' = Timeout
      /\ UNCHANGED <<nic, dev, ups, back, cur, buf, owed, dma, used, result, wire, before, spoilt,
                     rxVars>>
  BY DEF virtio_sample
<1>2. used \in Nat /\ Timeout \in 0..Timeout /\ nic = "virtio" /\ Sending /\ Sending'
  BY <1>1, TxFacts, NicAssumption DEF NicInv, Places, Sending
<1>3. QED
  BY <1>1, <1>2, WaitKeeps

(* One poll of the wait in rtl_output, the last included, keeps the invariant. *)
LEMMA RtlPollKeeps ==
  ASSUME NicInv, rtl_poll
  PROVE  NicInv'
<1>1. pc = "rtl_poll" /\ nic = "rtl" /\ Sending
  BY DEF rtl_poll, NicInv, Places, Sending
<1>2. left \in Nat /\ left <= Timeout /\ cur \in Slots /\ old_used \in Nat
  BY TxFacts, NicAssumption
<1>3. ASSUME NEW t \in Nat, RtlDone(t) PROVE NicInv'
  <2>1. PICK err : err = IF t > 0 THEN "ERR_OK" ELSE "ERR_BUF"
    OBVIOUS
  <2>2. err \in {"ERR_OK", "ERR_BUF"} /\ Return(err) /\ (err = "ERR_OK" <=> t > 0)
    BY <1>3, <2>1 DEF RtlDone
  <2>3. cur' = IF nic = "rtl" /\ err = "ERR_OK" THEN (cur + 1) % TX_SLOTS ELSE cur
    BY <1>1, <1>3, <2>2 DEF RtlDone
  <2>4. QED
    BY <1>1, <2>2, <2>3, ReturnKeeps
<1>4. CASE /\ left > 0 /\ left' = left - 1
           /\ UNCHANGED <<nic, dev, ups, pc, back, cur, buf, owed, dma, used, old_used, result, wire,
                          before, spoilt, rxVars>>
  <2>1. left' \in 0..Timeout /\ Sending'
    BY <1>1, <1>2, <1>4, NicAssumption DEF Sending
  <2>2. QED
    BY <1>1, <1>2, <1>4, <2>1, WaitKeeps
<1>5. CASE left > 0 /\ RtlDone(left - 1)
  <2>1. PICK t : t = left - 1
    OBVIOUS
  <2>2. t \in Nat /\ RtlDone(t)
    BY <1>2, <1>5, <2>1
  <2>3. QED
    BY <1>3, <2>2
<1>6. CASE left = 0 /\ RtlDone(0)
  BY <1>3, <1>6
<1>7. QED
  BY <1>4, <1>5, <1>6 DEF rtl_poll

(* One poll of the wait in virtio_output, the last included, keeps the invariant. *)
LEMMA VirtioPollKeeps ==
  ASSUME NicInv, virtio_poll
  PROVE  NicInv'
<1>1. pc = "virtio_poll" /\ nic = "virtio" /\ Sending
  BY DEF virtio_poll, NicInv, Places, Sending
<1>2. left \in Nat /\ left <= Timeout /\ cur \in Slots /\ old_used \in Nat
  BY TxFacts, NicAssumption
<1>3. CASE used = old_used /\ left > 0
  <2>1. /\ left' = left - 1
        /\ UNCHANGED <<nic, dev, ups, pc, back, cur, buf, owed, dma, used, old_used, result, wire,
                       before, spoilt, rxVars>>
    BY <1>2, <1>3 DEF virtio_poll
  <2>2. left' \in 0..Timeout /\ Sending'
    BY <1>1, <1>2, <1>3, <2>1, NicAssumption DEF Sending
  <2>3. QED
    BY <1>1, <1>2, <1>3, <2>1, <2>2, WaitKeeps
<1>4. CASE used # old_used \/ left = 0
  <2>1. PICK err : err = IF left = 0 THEN "ERR_BUF" ELSE "ERR_OK"
    OBVIOUS
  <2>2. VirtioDone
    BY <1>2, <1>4 DEF virtio_poll
  <2>3. /\ err \in {"ERR_OK", "ERR_BUF"} /\ Return(err) /\ cur' = cur
        /\ err = "ERR_OK" => used # old_used
    BY <1>4, <2>1, <2>2 DEF VirtioDone
  <2>4. QED
    BY <1>1, <1>2, <2>3, ReturnKeeps
<1>5. QED
  BY <1>3, <1>4 DEF virtio_poll

(* Receiving. *)
LEMMA StoresKeeps ==
  ASSUME NicInv, VirtioStores \/ \E n \in Sizes : RtlStores(n)
  PROVE  NicInv'
<1>1. /\ EventLeft /\ arrived' = arrived + 1
      /\ UNCHANGED <<nic, dev, ups, pc, back, txVars, taken, first>>
  BY DEF VirtioStores, RtlStores
<1>2. TxTypes' /\ TxInv' /\ Sends' = Sends
  BY <1>1, TxFrame
<1>3. RxTypes' /\ VirtioRx' /\ RtlRx' /\ BuffersKept'
  BY VirtioStoresRx, RtlStoresRx
<1>4. CtlTypes'
  BY <1>1, CtlFacts DEF CtlTypes
<1>5. Counts'
  BY <1>1, <1>2, CtlFacts, NicAssumption DEF Counts
<1>6. UNCHANGED cur /\ (Busy' <=> Busy) /\ (Sending' <=> Sending)
  BY <1>1 DEF txVars, Busy, Sending
<1>7. Places'
  BY <1>1, <1>6 DEF NicInv, Places, Opening
<1>8. QED
  BY <1>2, <1>3, <1>4, <1>5, <1>7 DEF NicInv, Shapes

(* Each step of reception keeps the invariant. *)
LEMMA RxKeeps ==
  ASSUME NicInv, net_poll \/ RxStep
  PROVE  NicInv'
<1>1. /\ pc \in {"idle", "rx", "input"} /\ pc' \in {"idle", "rx", "input"}
      /\ UNCHANGED <<nic, dev, ups, back, txVars, first, arrived>>
  BY DEF net_poll, RxStep, RtlTakes, VirtioTakes, InputReturns, PollEnds, rxVars
<1>2. ~Sending /\ ~Sending' /\ UNCHANGED cur
  BY <1>1 DEF Sending, txVars
<1>3. TxTypes' /\ TxInv' /\ Sends' = Sends
  BY <1>1, <1>2, TxFrame
<1>4. RxTypes' /\ VirtioRx' /\ RtlRx' /\ BuffersKept'
  BY PollRx, RtlTakesRx, VirtioTakesRx, InputReturnsRx DEF RxStep
<1>5. CtlTypes'
  BY <1>1, CtlFacts DEF CtlTypes
<1>6. Counts'
  BY <1>1, <1>3, CountsKept
<1>7. nic = "virtio" => (taken' # 0 <=> Busy')
  <2>1. SUFFICES ASSUME nic = "virtio" PROVE taken' # 0 <=> pc' = "input"
    BY <1>2 DEF Busy
  <2>2. taken # 0 <=> pc = "input"
    BY <1>2, <2>1 DEF NicInv, Places, Busy
  <2>3. CASE net_poll \/ PollEnds
    BY <2>2, <2>3 DEF net_poll, PollEnds, rxVars
  <2>4. CASE VirtioTakes
    BY <2>4, VirtioTakesRx DEF VirtioTakes
  <2>5. CASE InputReturns
    BY <2>5 DEF InputReturns
  <2>6. CASE RtlTakes
    BY <2>1, <2>6 DEF RtlTakes
  <2>7. QED
    BY <2>3, <2>4, <2>5, <2>6 DEF RxStep
<1>8. Places'
  BY <1>1, <1>2, <1>7 DEF NicInv, Places, Opening
<1>9. QED
  BY <1>3, <1>4, <1>5, <1>6, <1>8 DEF NicInv, Shapes
-----------------------------------------------------------------------------
(* Once the receive queue was filled, every buffer is with the card. *)
LEMMA InitBuffers ==
  ASSUME Init
  PROVE  RxTypes /\ BuffersKept
<1>1. /\ ring = [c \in Cells |-> Blank] /\ dev_at = 0 /\ capr = 0 /\ rx_ptr = 0 /\ pkt = 0
      /\ taken = 0 /\ rx_avail = [k \in 1..QUEUE_SIZE |-> k] /\ rx_used = <<>> /\ seen = <<>>
  BY DEF Init
<1>2. 0 \in Cells /\ 0 \in 0..Batch /\ 0 \in Nat
  BY CellIs, NicAssumption
<1>3. Blank \in RingCell /\ Blank.kind = "blank"
  BY NicAssumption DEF Blank, RingCell
<1>4. ring \in [Cells -> RingCell] /\ \A c \in Cells : ring[c].kind # "head"
  BY <1>1, <1>3
<1>5. /\ rx_avail \in Seq(1..QUEUE_SIZE) /\ Len(rx_avail) = QUEUE_SIZE
      /\ ToSet(rx_avail) = 1..QUEUE_SIZE
  <2>1. DOMAIN rx_avail = 1..QUEUE_SIZE /\ \A k \in 1..QUEUE_SIZE : rx_avail[k] = k
    BY <1>1
  <2>2. rx_avail \in Seq(1..QUEUE_SIZE)
    BY <1>1, NicAssumption
  <2>3. Len(rx_avail) = QUEUE_SIZE
    BY <2>1, <2>2, NicAssumption
  <2>4. QED
    BY <2>1, <2>2, <2>3 DEF ToSet
<1>6. /\ rx_used \in Seq((1..QUEUE_SIZE) \X (1..MaxEvents)) /\ Len(rx_used) = 0
      /\ UsedIds(rx_used) = {}
  BY <1>1 DEF UsedIds
<1>7. RxTypes
  BY <1>1, <1>2, <1>4, <1>5, <1>6 DEF RxTypes
<1>8. PICK t : t = IF nic = "virtio" THEN taken ELSE 0
  OBVIOUS
<1>9. t = 0 /\ taken \in Nat
  BY <1>1, <1>8
<1>10. Kept(rx_avail, rx_used, t)
  BY <1>5, <1>6, <1>9, NicAssumption DEF Kept
<1>11. HeldOk(rx_avail, rx_used, nic, taken)
  BY <1>5, <1>6, <1>8, <1>9, <1>10, KeptIs
<1>12. QED
  BY <1>7, <1>11 DEF BuffersKept, HeldOk

(* A card that was brought up and has seen no frame satisfies the invariant. *)
LEMMA InitNicInv ==
  ASSUME Init
  PROVE  NicInv
<1>1. /\ \/ nic = "rtl" /\ dev = "open" /\ pc = "clear"
         \/ nic = "virtio" /\ dev = "on" /\ pc = "idle"
      /\ ups = 0 /\ back = "idle" /\ before = 0 /\ spoilt = {}
      /\ cur = 0 /\ dma = <<>> /\ used = 0 /\ old_used = 0 /\ left = 0
      /\ result = <<>> /\ wire = <<>>
      /\ ring = [c \in Cells |-> Blank] /\ dev_at = 0 /\ rx_ptr = 0 /\ taken = 0 /\ rx_used = <<>>
      /\ first = 0 /\ arrived = 0 /\ seen = <<>>
  BY DEF Init
<1>2. /\ buf = [s \in Slots |-> 0] /\ owed = [s \in Slots |-> 0]
  BY DEF Init
<1>3. /\ \A s \in Slots : buf[s] = 0 /\ owed[s] = 0
      /\ buf \in [Slots -> 0..MaxEvents] /\ owed \in [Slots -> 0..MaxEvents]
      /\ owed \in [Slots -> 0..1] /\ cur \in Slots
  BY <1>1, <1>2, SlotsAre, NicAssumption
<1>4. /\ Len(result) = 0 /\ Len(wire) = 0 /\ DOMAIN wire = {} /\ DOMAIN result = {}
      /\ Len(seen) = 0 /\ DOMAIN seen = {} /\ Len(rx_used) = 0 /\ DOMAIN rx_used = {}
  BY <1>1
<1>5. ~Sending /\ Sends = 0 /\ ~Busy
  BY <1>1, <1>4 DEF Sending, Sends, Busy
<1>6. RxTypes /\ BuffersKept
  BY InitBuffers
<1>7. CtlTypes /\ TxTypes
  BY <1>1, <1>3, NicAssumption DEF CtlTypes, TxTypes
<1>8. Counts
  BY <1>1, <1>5, NicAssumption DEF Counts
<1>9. Places
  BY <1>1, <1>5 DEF Places, Opening
<1>10. Bounds
  BY <1>1, <1>3, <1>4, <1>5 DEF Bounds
<1>11. VirtioTx
  BY <1>1, <1>3, <1>4, <1>5 DEF VirtioTx, CleanTx, InOrderTx
<1>12. RtlTx
  <2>1. \A s \in Slots : Late(s)
    BY <1>1, <1>3 DEF Late
  <2>2. Unsent /\ Apart /\ Marked /\ Handed /\ RtlNeverTwice
    BY <1>1, <1>3, <1>4, <1>5 DEF Unsent, Apart, Marked, Handed, RtlNeverTwice, Torn
  <2>3. QED
    BY <2>1, <2>2 DEF RtlTx
<1>13. VirtioRx
  BY <1>1, <1>4 DEF VirtioRx
<1>14. RtlRx
  BY <1>1 DEF RtlRx
<1>15. QED
  BY <1>6, <1>7, <1>8, <1>9, <1>10, <1>11, <1>12, <1>13, <1>14 DEF NicInv, Shapes, TxInv

(* One step of the driver or of the card keeps the invariant. *)
LEMMA StepNicInv ==
  ASSUME NicInv, [Next]_vars
  PROVE  NicInv'
<1>1. CASE UNCHANGED vars
  <2>1. UNCHANGED <<nic, dev, ups, pc, back, txVars, rxVars>>
    BY <1>1 DEF vars
  <2>2. UNCHANGED <<cur, taken, arrived, first>>
    BY <2>1 DEF txVars, rxVars
  <2>3. (Busy' <=> Busy) /\ (Sending' <=> Sending)
    BY <2>1 DEF Busy, Sending
  <2>4. TxTypes' /\ TxInv' /\ Sends' = Sends
    BY <2>1, TxFrame
  <2>5. RxTypes' /\ VirtioRx' /\ RtlRx' /\ BuffersKept'
    BY <2>1, <2>3, RxFrame
  <2>6. CtlTypes' /\ Counts' /\ Places'
    BY <2>1, <2>2, <2>3, <2>4 DEF NicInv, Shapes, CtlTypes, Counts, Places, Opening
  <2>7. QED
    BY <2>4, <2>5, <2>6 DEF NicInv, Shapes
<1>2. CASE eth0_up \/ eth0_up_fails \/ eth0_clear
  BY <1>2, UpKeeps, ClearKeeps
<1>3. CASE Output
  BY <1>3, OutputKeeps
<1>4. CASE TxStep
  BY <1>4, SampleKeeps, RtlPollKeeps, VirtioPollKeeps DEF TxStep
<1>5. CASE net_poll \/ RxStep
  BY <1>5, RxKeeps
<1>6. CASE Card
  BY <1>6, CardTxKeeps, StoresKeeps DEF Card
<1>7. QED
  BY <1>1, <1>2, <1>3, <1>4, <1>5, <1>6 DEF Next

(* The inductive invariant: in whose hands each transmit buffer is, and    *)
(* how the frames lie in the receive ring.                                 *)
THEOREM NicInvariance == Spec => []NicInv
<1>1. Init => NicInv
  BY InitNicInv
<1>2. NicInv /\ [Next]_vars => NicInv'
  BY StepNicInv
<1>3. QED
  BY <1>1, <1>2, PTL DEF Spec

(* The pointers of both drivers stay inside their rings, and no receive    *)
(* buffer of virtio_input is lost or given out twice, whatever the card    *)
(* does while lwIP sends from within netif->input.                         *)
THEOREM BuffersCorrect == Spec => []BuffersSound
<1>1. NicInv => BuffersSound
  BY ShapesTypeOK DEF NicInv, BuffersSound
<1>2. QED
  BY <1>1, NicInvariance, PTL

(* Frames leave the virtio card in the order of the calls unless one timed out. *)
LEMMA WireIsPrefix ==
  ASSUME NicInv
  PROVE  WireInOrder
<1>1. SUFFICES ASSUME nic = "virtio", NoTimeouts PROVE IsPrefix(wire, [k \in 1..Frame |-> k])
  BY DEF WireInOrder, NoTimeouts
<1>2. /\ wire \in Seq(0..MaxEvents) /\ Len(result) \in Nat /\ Sends \in Nat
      /\ Frame = Len(result) + 1 /\ Sends <= Frame /\ owed[cur] \in Nat
  BY TxFacts
<1>3. (\A k \in DOMAIN wire : wire[k] = k) /\ Len(wire) + owed[cur] = Sends
  BY <1>1 DEF NicInv, TxInv, VirtioTx, InOrderTx
<1>4. PICK t : t = [k \in 1..Frame |-> k]
  OBVIOUS
<1>5. wire \in Seq(Nat)
  <2>1. 0..MaxEvents \subseteq Nat
    OBVIOUS
  <2>2. QED
    BY <1>2, <2>1, SeqWider
<1>6. Frame \in Nat /\ t \in Seq(Nat)
  BY <1>2, <1>4
<1>7. Len(t) = Frame /\ \A k \in 1..Frame : t[k] = k
  BY <1>4, <1>6
<1>8. Len(wire) <= Len(t) /\ DOMAIN wire \subseteq 1..Frame
  BY <1>2, <1>3, <1>5, <1>6, <1>7
<1>9. \A k \in DOMAIN wire : wire[k] = t[k]
  BY <1>3, <1>7, <1>8
<1>10. IsPrefix(wire, t)
  BY <1>5, <1>6, <1>8, <1>9, PrefixOf
<1>11. QED
  BY <1>4, <1>10

(* A frame told as sent went out or is accounted for, and a buffer is     *)
(* taken again early only after a time-out or a bring-up.                  *)
LEMMA OkIsTrue ==
  ASSUME NicInv
  PROVE  OkMeansSent /\ ReuseIsLate
<1>1. /\ nic \in {"rtl", "virtio"} /\ Len(result) \in Nat /\ Frame = Len(result) + 1
      /\ Sends = Sent /\ DOMAIN result = 1..Len(result) /\ cur \in Slots /\ cur \in Nat
      /\ TX_SLOTS \in Nat /\ Sends \in Nat /\ Len(result) <= Sends
  BY TxFacts DEF Sent
<1>2. CASE nic = "virtio"
  BY <1>2 DEF NicInv, TxInv, VirtioTx, OkMeansSent, ReuseIsLate
<1>3. CASE nic = "rtl"
  <2>1. Handed /\ Late(cur)
    BY <1>1, <1>3 DEF NicInv, TxInv, RtlTx
  <2>2. \A k \in DOMAIN result : k \in 1..Sends
    BY <1>1
  <2>3. OkMeansSent
    BY <1>1, <1>3, <2>1, <2>2 DEF OkMeansSent, Handed, Accounted
  <2>4. Gap(cur) = TX_SLOTS
    BY <1>1 DEF Gap
  <2>5. ReuseIsLate
    BY <2>1, <2>4 DEF ReuseIsLate, Late, JustTimedOut
  <2>6. QED
    BY <2>3, <2>5
<1>4. QED
  BY <1>1, <1>2, <1>3

(* What rtl_output and virtio_output answer is true of the wire: ERR_OK of *)
(* the virtio card means the frame went out unless an earlier call timed   *)
(* out; ERR_OK of the RTL8139, whose driver asks the wrong status bit,     *)
(* means it went out or waits in its buffer, until the rotation comes back *)
(* to that buffer or the card is brought up again, also by the ARP request *)
(* sent inside eth0_up.  The RTL8139 sends no frame twice.                 *)
THEOREM ResultsCorrect == Spec => []ResultsTrue
<1>1. NicInv => ResultsTrue
  <2>1. SUFFICES ASSUME NicInv PROVE ResultsTrue
    OBVIOUS
  <2>2. RtlNeverTwice
    BY <2>1 DEF NicInv, TxInv, RtlTx, RtlNeverTwice
  <2>3. QED
    BY <2>1, <2>2, OkIsTrue, WireIsPrefix DEF ResultsTrue
<1>2. QED
  BY <1>1, NicInvariance, PTL

(* Frames are handed up in the order of arrival, under the conditions of the property. *)
LEMMA SeenIsPrefix ==
  ASSUME NicInv
  PROVE  FramesInOrder
<1>1. SUFFICES ASSUME InStep
               PROVE  IsPrefix(seen, [k \in 1..(arrived - first) |-> first + k])
  BY DEF FramesInOrder
<1>2. /\ nic \in {"rtl", "virtio"} /\ seen \in Seq(0..MaxEvents) /\ Len(seen) \in Nat
      /\ arrived \in Nat /\ first \in Nat /\ first <= arrived /\ dev_at \in Cells
      /\ rx_used \in Seq((1..QUEUE_SIZE) \X (1..MaxEvents))
  BY RxFacts
<1>3. (\A k \in DOMAIN seen : seen[k] = first + k) /\ first + Len(seen) <= arrived
  <2>1. CASE nic = "virtio"
    <3>1. Len(rx_used) \in Nat
      BY <1>2
    <3>2. /\ first = 0 /\ Len(seen) + Len(rx_used) = arrived
          /\ \A k \in DOMAIN seen : seen[k] = k
      BY <2>1 DEF NicInv, VirtioRx
    <3>3. \A k \in DOMAIN seen : k \in Nat
      BY <1>2
    <3>4. QED
      BY <1>2, <3>1, <3>2, <3>3
  <2>2. CASE nic = "rtl"
    <3>1. ~early /\ ring[dev_at] = Blank
      BY <1>1, <2>2 DEF InStep, Lapped
    <3>2. ~Filled /\ ~Dead
      BY <1>2, <3>1 DEF Filled, Dead
    <3>3. (first = arrived /\ seen = <<>>) \/ Linear
      BY <2>2, <3>1, <3>2 DEF NicInv, RtlRx
    <3>4. CASE first = arrived /\ seen = <<>>
      BY <1>2, <3>4
    <3>5. CASE Linear
      BY <3>5 DEF Linear
    <3>6. QED
      BY <3>3, <3>4, <3>5
  <2>3. QED
    BY <1>2, <2>1, <2>2
<1>4. PICK m : m = arrived - first
  OBVIOUS
<1>5. m \in Nat /\ Len(seen) <= m
  BY <1>2, <1>3, <1>4
<1>6. PICK t : t = [k \in 1..m |-> first + k]
  OBVIOUS
<1>7. t \in Seq(Nat)
  BY <1>2, <1>5, <1>6
<1>8. Len(t) = m /\ \A k \in 1..m : t[k] = first + k
  BY <1>5, <1>6
<1>9. seen \in Seq(Nat)
  <2>1. 0..MaxEvents \subseteq Nat
    OBVIOUS
  <2>2. QED
    BY <1>2, <2>1, SeqWider
<1>10. DOMAIN seen \subseteq 1..m
  BY <1>2, <1>5
<1>11. \A k \in DOMAIN seen : seen[k] = t[k]
  BY <1>3, <1>8, <1>10
<1>12. IsPrefix(seen, t)
  BY <1>5, <1>7, <1>8, <1>9, <1>11, PrefixOf
<1>13. QED
  BY <1>4, <1>6, <1>12

(* virtio_input takes the frames as they arrived, none twice, none left    *)
(* out; rtl_input does until its ring has been filled once, if no frame    *)
(* came between the card's start and the clearing.                         *)
THEOREM FramesCorrect == Spec => []FramesInOrder
<1>1. NicInv => FramesInOrder
  BY SeenIsPrefix
<1>2. QED
  BY <1>1, NicInvariance, PTL
=============================================================================
