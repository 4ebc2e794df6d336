----------------------------- MODULE HttpProofs -----------------------------
(***************************************************************************)
(* What becomes of the pbufs and of the answer of an HTTP request, for any *)
(* length of the answer, window, pool, buffer and loop bounds.             *)
(***************************************************************************)
EXTENDS Http, FiniteSetTheorems, TLAPS

(* What TypeOK leaves open. *)
Shapes ==
  /\ polls \in Nat
  /\ heard \in 1..Fin
  /\ recv \in {"tcp_recv_null", "tcp_recv_cb"}
  /\ out \in Seq(1..Segments)
  /\ inq \in Seq(Frames)

InRecv  == pc = "recv" \/ back = "recv"
Reading == InRecv \/ pc = "tcp_recv_sync" \/ back = "tcp_recv_sync"

(* The thread waits for net_poll exactly while it polls, works only on a   *)
(* request, and reads only while the caller's buffer has room.             *)
Control ==
  /\ pc = "poll" <=> back # "idle"
  /\ pc # "idle" => req > 0
  /\ Reading => rlen < MaxOut

(* No pbuf is ahead of what lwIP has acknowledged, and the one the reader  *)
(* will copy is of this request and behind all it has copied so far.       *)
Behind ==
  /\ \A h \in held : h[1] <= req /\ (h[1] = req => h[2] < rcv_nxt)
  /\ \A s \in ToSet(out) : s < rcv_nxt
  /\ recv = "tcp_recv_null" => heard = Fin
  /\ InRecv /\ tcp_recv_pbuf # NoPbuf =>
       /\ tcp_recv_pbuf[1] = req
       /\ \A s \in ToSet(out) : s < tcp_recv_pbuf[2]

(* A connection nobody has reset, closed or given up is still open, and a  *)
(* frame that does one of these is known to be on its way.                 *)
Open ==
  /\ pc # "idle" /\ ~spoiled => pcb \in {"SYN_SENT", "ESTABLISHED"}
  /\ Fin \in ToSet(inq) \/ Rst \in ToSet(inq) => spoiled

HttpInv == PoolSound /\ AnswerKept /\ Shapes /\ Control /\ Behind /\ Open

-----------------------------------------------------------------------------
(* The constants, one by one. *)
LEMMA Constants ==
  /\ Segments \in Nat \ {0} /\ TCP_WND \in Nat \ {0}
  /\ TCP_MSS \in Nat \ {0} /\ LastSize \in Nat \ {0}
  /\ PBUF_POOL_SIZE \in Nat \ {0} /\ Batch \in Nat \ {0}
  /\ MaxOut \in Nat \ {0} /\ ConnectPolls \in Nat \ {0}
  /\ Tries \in Nat \ {0} /\ RecvPolls \in Nat \ {0}
  /\ MaxRequests \in Nat \ {0} /\ InFlight \in Nat \ {0}
BY HttpAssumption

(* A frame or a segment appended joins the set. *)
LEMMA ToSetAppend ==
  ASSUME NEW S, NEW q \in Seq(S), NEW e \in S
  PROVE  ToSet(Append(q, e)) = ToSet(q) \cup {e}
<1>1. ToSet(Append(q, e)) \subseteq ToSet(q) \cup {e}
  BY DEF ToSet
<1>2. e \in ToSet(Append(q, e))
  <2>1. Append(q, e)[Len(q) + 1] = e /\ Len(q) + 1 \in DOMAIN Append(q, e)
    OBVIOUS
  <2>2. QED
    BY <2>1 DEF ToSet
<1>3. ToSet(q) \subseteq ToSet(Append(q, e))
  <2>1. \A j \in DOMAIN q : j \in DOMAIN Append(q, e) /\ Append(q, e)[j] = q[j]
    OBVIOUS
  <2>2. QED
    BY <2>1 DEF ToSet
<1>4. QED
  BY <1>1, <1>2, <1>3

(* The first frame was there, and taking it adds none. *)
LEMMA ToSetTail ==
  ASSUME NEW S, NEW q \in Seq(S), q # <<>>
  PROVE  ToSet(Tail(q)) \subseteq ToSet(q) /\ q[1] \in ToSet(q)
BY DEF ToSet

(* What a sequence holds has the type of its elements. *)
LEMMA ToSetType ==
  ASSUME NEW S, NEW q \in Seq(S)
  PROVE  ToSet(q) \subseteq S
BY DEF ToSet

(* An empty queue holds nothing. *)
LEMMA ToSetEmpty == ToSet(<<>>) = {}
BY DEF ToSet

(* The pbufs held are finitely many. *)
LEMMA HeldFinite ==
  ASSUME TypeOK
  PROVE  IsFiniteSet(held) /\ Cardinality(held) \in Nat
<1>1. IsFiniteSet(1..MaxRequests) /\ IsFiniteSet(1..Segments)
  BY Constants, FS_Interval
<1>2. IsFiniteSet((1..MaxRequests) \X (1..Segments))
  BY <1>1, FS_Product
<1>3. IsFiniteSet(held)
  BY <1>2, FS_Subset DEF TypeOK
<1>4. QED
  BY <1>3, FS_CardinalityType

-----------------------------------------------------------------------------
(* Steps that leave the answer, its pbufs and the window alone. *)

dataVars == <<req, held, tcp_recv_pbuf, out, rlen, clipped, rcv_nxt, wnd, heard, recv>>

DataOK ==
  PbufsOwned /\ WindowSpent /\ ReadInOrder /\ LostIsHeld /\ OnlyLastClipped /\ Behind

(* They may only go on with what the thread was doing or leave it.         *)
LEMMA SameData ==
  ASSUME DataOK, UNCHANGED dataVars, InRecv' => InRecv, pc' # "idle" => pc # "idle"
  PROVE  DataOK'
BY DEF DataOK, dataVars, PbufsOwned, WindowSpent, ReadInOrder, LostIsHeld,
   OnlyLastClipped, Behind

(* The types of the rest, and where the thread is. *)
LEMMA SameShapes ==
  ASSUME HttpInv, UNCHANGED dataVars,
         pc' \in {"idle", "connect", "loop", "tcp_recv_sync", "recv", "poll", "close"},
         back' \in {"idle", "connect", "tcp_recv_sync", "recv"},
         pkt' \in 0..Batch, tries' \in 0..Tries, polls' \in Nat,
         pcb' \in {"none", "SYN_SENT", "ESTABLISHED", "CLOSE_WAIT", "LAST_ACK", "freed"},
         inq' \in Seq(Frames), lingering' \subseteq 1..MaxRequests
  PROVE  TypeOK' /\ Shapes'
<1>1. ToSet(inq') \subseteq Frames
  BY DEF ToSet
<1>2. QED
  BY <1>1 DEF HttpInv, PoolSound, TypeOK, Shapes, dataVars

(* The thread's own bookkeeping. *)
LEMMA ThreadInv ==
  ASSUME HttpInv,
         ConnectPoll \/ Connected \/ LoopPoll \/ RecvPoll \/ RecvNothing \/ PollReturns
  PROVE  HttpInv'
<1>1. UNCHANGED dataVars /\ UNCHANGED <<pcb, inq, spoiled, lingering>>
  BY DEF ConnectPoll, Connected, LoopPoll, RecvPoll, RecvNothing, PollReturns,
     tcpVars, outVars, appVars, dataVars
<1>2. /\ pc' \in {"idle", "connect", "loop", "tcp_recv_sync", "recv", "poll", "close"}
      /\ back' \in {"idle", "connect", "tcp_recv_sync", "recv"}
  BY DEF ConnectPoll, Connected, LoopPoll, RecvPoll, RecvNothing, PollReturns,
     net_poll, HttpInv, PoolSound, TypeOK
<1>3. pkt' \in 0..Batch /\ tries' \in 0..Tries /\ polls' \in Nat
  <2>1. pkt \in 0..Batch /\ tries \in 0..Tries /\ polls \in Nat
    BY DEF HttpInv, PoolSound, TypeOK, Shapes
  <2>2. CASE ConnectPoll \/ LoopPoll \/ RecvPoll
    BY <2>1, <2>2, Constants DEF ConnectPoll, LoopPoll, RecvPoll
  <2>3. CASE Connected \/ RecvNothing \/ PollReturns
    BY <2>1, <2>3, Constants DEF Connected, RecvNothing, PollReturns
  <2>4. QED
    BY <2>2, <2>3
<1>4. Control' /\ (InRecv' => InRecv) /\ pc # "idle"
  BY <1>1 DEF ConnectPoll, Connected, LoopPoll, RecvPoll, RecvNothing,
     PollReturns, net_poll, RecvEnds, HttpInv, PoolSound, TypeOK, Control, InRecv,
     Reading, dataVars
<1>5. TypeOK' /\ Shapes'
  BY <1>1, <1>2, <1>3, SameShapes DEF HttpInv, PoolSound, TypeOK, Shapes
<1>6. DataOK'
  BY <1>1, <1>4, SameData DEF HttpInv, PoolSound, AnswerKept, DataOK
<1>7. Open'
  BY <1>1, <1>4 DEF HttpInv, Open
<1>8. QED
  BY <1>4, <1>5, <1>6, <1>7 DEF HttpInv, PoolSound, AnswerKept, DataOK

(* Letting go of the pcb. *)
LEMMA ReleaseInv ==
  ASSUME HttpInv, pc \notin {"poll", "idle"}, tcp_abort \/ tcp_close
  PROVE  HttpInv'
<1>1. /\ UNCHANGED dataVars /\ UNCHANGED <<back, pkt>>
      /\ pc' = "idle" /\ inq' = <<>> /\ polls' = 0 /\ tries' = 0 /\ pcb' = "none"
  BY DEF tcp_abort, tcp_close, Release, outVars, appVars, dataVars
<1>2. Control' /\ (InRecv' => InRecv)
  BY <1>1 DEF HttpInv, Control, InRecv, Reading, dataVars
<1>3. TypeOK' /\ Shapes'
  <2>1. lingering' \in {lingering, lingering \cup {req}}
    BY DEF tcp_abort, tcp_close
  <2>2. lingering' \subseteq 1..MaxRequests
    BY <2>1, Constants DEF HttpInv, PoolSound, TypeOK, Control
  <2>3. QED
    BY <1>1, <2>2, SameShapes, Constants DEF HttpInv, PoolSound, TypeOK
<1>4. DataOK'
  BY <1>1, <1>2, SameData DEF HttpInv, PoolSound, AnswerKept, DataOK
<1>5. Open'
  BY <1>1, ToSetEmpty DEF Open
<1>6. QED
  BY <1>2, <1>3, <1>4, <1>5 DEF HttpInv, PoolSound, AnswerKept, DataOK

(* A frame arrives; one that ends the connection is recorded. *)
LEMMA ServerInv ==
  ASSUME HttpInv, Server
  PROVE  HttpInv'
<1>1. PICK f \in Frames :
         /\ Arrives(f)
         /\ spoiled' = TRUE \/ spoiled' = spoiled
         /\ f \in {Fin, Rst} => spoiled' = TRUE
  <2>1. SynAck \in Frames /\ Fin \in Frames /\ Rst \in Frames
        /\ OldFin \in Frames /\ 1..Segments \subseteq Frames
    BY Constants DEF Frames, SynAck, Fin, Rst, OldFin
  <2>2. SynAck \notin {Fin, Rst} /\ OldFin \notin {Fin, Rst} /\ \A s \in 1..Segments : s \notin {Fin, Rst}
    BY Constants DEF SynAck, Fin, Rst, OldFin
  <2>3. QED
    BY <2>1, <2>2 DEF Server, Accepts, Closes, Resets, ClosesLate,
       SendsSegment
<1>2. /\ UNCHANGED dataVars
      /\ UNCHANGED <<pc, back, pkt, polls, tries, pcb, lingering>>
      /\ inq' = Append(inq, f)
  BY <1>1 DEF Arrives, dataVars, outVars, appVars
<1>3. inq' \in Seq(Frames) /\ ToSet(inq') = ToSet(inq) \cup {f}
  BY <1>2, ToSetAppend DEF HttpInv, Shapes
<1>4. TypeOK' /\ Shapes'
  BY <1>2, <1>3, SameShapes DEF HttpInv, PoolSound, TypeOK, Shapes
<1>5. Control' /\ (InRecv' => InRecv)
  BY <1>2 DEF HttpInv, Control, InRecv, Reading, dataVars
<1>6. DataOK'
  BY <1>2, <1>5, SameData DEF HttpInv, PoolSound, AnswerKept, DataOK
<1>7. Open'
  BY <1>1, <1>2, <1>3 DEF HttpInv, Open
<1>8. QED
  BY <1>4, <1>5, <1>6, <1>7 DEF HttpInv, PoolSound, AnswerKept, DataOK

(* lwIP's timers free the pcb. *)
LEMMA TimerInv ==
  ASSUME HttpInv, tcp_tmr
  PROVE  HttpInv'
<1>1. /\ UNCHANGED dataVars
      /\ UNCHANGED <<pc, back, pkt, polls, tries, inq, lingering>>
      /\ pcb' = "freed" /\ spoiled' = TRUE
  BY DEF tcp_tmr, dataVars, outVars, appVars
<1>2. TypeOK' /\ Shapes'
  BY <1>1, SameShapes DEF HttpInv, PoolSound, TypeOK, Shapes
<1>3. Control' /\ (InRecv' => InRecv)
  BY <1>1 DEF HttpInv, Control, InRecv, Reading, dataVars
<1>4. DataOK'
  BY <1>1, <1>3, SameData DEF HttpInv, PoolSound, AnswerKept, DataOK
<1>5. Open'
  BY <1>1 DEF HttpInv, Open
<1>6. QED
  BY <1>2, <1>3, <1>4, <1>5 DEF HttpInv, PoolSound, AnswerKept, DataOK

-----------------------------------------------------------------------------
(* A pbuf is not NULL. *)
LEMMA PbufNotNull == \A a, b : <<a, b>> # NoPbuf
<1> SUFFICES ASSUME NEW a, NEW b, <<a, b>> = NoPbuf PROVE FALSE
  OBVIOUS
<1>1. Len(<<a, b>>) = 2 /\ Len(NoPbuf) = 0
  BY DEF NoPbuf
<1>2. QED
  BY <1>1

(* The pbufs of the current request are finitely many too. *)
LEMMA MineFinite ==
  ASSUME TypeOK, NEW r
  PROVE  /\ IsFiniteSet({h \in held : h[1] = r})
         /\ Cardinality({h \in held : h[1] = r}) \in Nat
<1>1. {h \in held : h[1] = r} \in SUBSET held
  OBVIOUS
<1>2. IsFiniteSet({h \in held : h[1] = r})
  BY <1>1, HeldFinite, FS_Subset
<1>3. QED
  BY <1>2, FS_CardinalityType

(* A segment that tcp_recv_null gets is acknowledged and gone: only the    *)
(* next one expected changes, and none of these is promised to the reader. *)
LEMMA ReceiveNull ==
  ASSUME HttpInv, rcv_nxt \in 1..Segments, recv = "tcp_recv_null",
         rcv_nxt' = rcv_nxt + 1,
         UNCHANGED <<req, held, tcp_recv_pbuf, out, rlen, clipped, wnd, heard, recv,
                     pc, back>>
  PROVE  DataOK'
<1>1. PbufsOwned' /\ WindowSpent' /\ ReadInOrder' /\ OnlyLastClipped'
  BY DEF HttpInv, PoolSound, AnswerKept, PbufsOwned, WindowSpent, ReadInOrder,
     OnlyLastClipped
<1>2. LostIsHeld'
  BY Constants DEF HttpInv, AnswerKept, LostIsHeld, Behind, Fin
<1>3. Behind'
  <2>1. \A h \in held : h[2] \in Nat
    BY Constants DEF HttpInv, PoolSound, TypeOK
  <2>2. ToSet(out) \subseteq Nat
    BY Constants DEF HttpInv, Shapes, ToSet
  <2>3. QED
    BY <2>1, <2>2, Constants DEF HttpInv, Behind, InRecv
<1>4. QED
  BY <1>1, <1>2, <1>3 DEF DataOK

(* A segment that tcp_recv_cb gets is held, taken from the window, and the *)
(* next the reader sees.                                                   *)
LEMMA ReceiveCallback ==
  ASSUME HttpInv, pc = "poll", rcv_nxt \in 1..Segments, wnd > 0,
         Cardinality(held) < PBUF_POOL_SIZE,
         rcv_nxt' = rcv_nxt + 1, wnd' = wnd - 1,
         held' = held \cup {<<req, rcv_nxt>>},
         tcp_recv_pbuf' = <<req, rcv_nxt>>,
         recv = "tcp_recv_cb",
         UNCHANGED <<req, out, rlen, clipped, heard, recv, pc, back>>
  PROVE  /\ DataOK'
         /\ held' \subseteq (1..MaxRequests) \X (1..Segments)
         /\ Cardinality(held') <= PBUF_POOL_SIZE
         /\ tcp_recv_pbuf' \in (1..MaxRequests) \X (1..Segments)
<1> DEFINE p == <<req, rcv_nxt>>
<1>1. req \in 1..MaxRequests
  BY DEF HttpInv, PoolSound, TypeOK, Control
<1>2. p \in (1..MaxRequests) \X (1..Segments)
  BY <1>1
<1>3. p \notin held
  BY Constants DEF HttpInv, Behind
<1>4. TypeOK
  BY DEF HttpInv, PoolSound
<1>5. Cardinality(held') = Cardinality(held) + 1
  <2>1. IsFiniteSet(held)
    BY <1>4, HeldFinite
  <2>2. Cardinality(held \cup {p}) = Cardinality(held) + 1
    BY <1>3, <2>1, FS_AddElement
  <2>3. QED
    BY <2>2
<1>6. Cardinality({h \in held' : h[1] = req}) = Cardinality({h \in held : h[1] = req}) + 1
  <2> DEFINE M == {h \in held : h[1] = req}
  <2>1. {h \in held' : h[1] = req} = M \cup {p}
    OBVIOUS
  <2>2. IsFiniteSet(M) /\ p \notin M
    BY <1>3, <1>4, MineFinite
  <2>3. Cardinality(M \cup {p}) = Cardinality(M) + 1
    BY <2>2, FS_AddElement
  <2>4. QED
    BY <2>1, <2>3
<1>7. \A s \in ToSet(out) : s \in Nat /\ s < rcv_nxt
  BY Constants DEF HttpInv, Shapes, Behind, ToSet
<1>8. PbufsOwned'
  <2>1. tcp_recv_pbuf' \in held'
    OBVIOUS
  <2>2. \A s \in ToSet(out) : <<req, s>> \notin held'
    BY <1>7, Constants DEF HttpInv, PoolSound, PbufsOwned
  <2>3. QED
    BY <2>1, <2>2 DEF PbufsOwned
<1>9. WindowSpent'
  <2>1. /\ wnd \in Nat /\ Len(out) \in Nat
        /\ Cardinality({h \in held : h[1] = req}) \in Nat
    <3>1. wnd \in Nat /\ Len(out) \in Nat
      BY <1>4, Constants DEF TypeOK, HttpInv, Shapes
    <3>2. QED
      BY <1>4, <3>1, MineFinite
  <2>2. wnd + Len(out) + Cardinality({h \in held : h[1] = req}) = TCP_WND
    BY DEF HttpInv, PoolSound, WindowSpent
  <2>3. wnd' + Len(out') + Cardinality({h \in held' : h[1] = req'}) = TCP_WND
    BY <1>6, <2>1, <2>2
  <2>4. QED
    BY <2>3 DEF WindowSpent
<1>10. ReadInOrder' /\ OnlyLastClipped'
  BY DEF HttpInv, AnswerKept, ReadInOrder, OnlyLastClipped
<1>11. LostIsHeld'
  BY Constants DEF HttpInv, AnswerKept, LostIsHeld
<1>12. Behind'
  <2>1. \A h \in held : h[2] \in Nat
    BY <1>4, Constants DEF TypeOK
  <2>2. \A h \in held' : h[1] <= req /\ (h[1] = req => h[2] < rcv_nxt')
    BY <1>1, <2>1, Constants DEF HttpInv, Behind
  <2>3. tcp_recv_pbuf'[1] = req /\ tcp_recv_pbuf'[2] = rcv_nxt
    OBVIOUS
  <2>4. QED
    BY <1>7, <2>2, <2>3, Constants DEF HttpInv, Behind
<1>13. QED
  BY <1>2, <1>4, <1>5, <1>8, <1>9, <1>10, <1>11, <1>12, HeldFinite, Constants
     DEF DataOK, TypeOK
(* The next frame of the card, dropped or given to lwIP. *)
LEMMA TakeFrameInv ==
  ASSUME HttpInv, TakeFrame
  PROVE  HttpInv'
<1> DEFINE f == inq[1]
<1>1. /\ pc = "poll" /\ pkt < Batch /\ pkt' = pkt + 1 /\ inq' = Tail(inq)
      /\ UNCHANGED <<pc, back, polls, tries, req, cut, spoiled, heard, recv, out,
                     rlen, clipped>>
      /\ lingering' \subseteq lingering
  BY DEF TakeFrame, Quiet, tcp_input, tcp_receive, GotFin, GotLateFin, tcp_recv_cb,
     outVars, appVars, tcpVars
<1>2. inq' \in Seq(Frames) /\ ToSet(inq') \subseteq ToSet(inq) /\ f \in ToSet(inq)
  BY <1>1, ToSetTail DEF TakeFrame, HttpInv, Shapes
<1>3. pkt' \in 0..Batch /\ polls' \in Nat /\ tries' \in 0..Tries
  BY <1>1, Constants DEF HttpInv, PoolSound, TypeOK, Shapes
<1>4. /\ pcb' \in {pcb, "ESTABLISHED", "CLOSE_WAIT", "LAST_ACK", "freed"}
      /\ f \notin {Fin, Rst} => pcb' \in {pcb, "ESTABLISHED"}
  BY DEF TakeFrame, Quiet, tcp_input, tcp_receive, GotFin, GotLateFin, tcpVars
<1>5. Control'
  BY <1>1 DEF HttpInv, Control, Reading, InRecv
<1>6. Open'
  BY <1>1, <1>2, <1>4 DEF HttpInv, Open
<1>7. CASE UNCHANGED dataVars
  <2>1. TypeOK' /\ Shapes'
    BY <1>1, <1>2, <1>3, <1>4, <1>7, SameShapes DEF HttpInv, PoolSound, TypeOK
  <2>2. DataOK'
    BY <1>1, <1>7, SameData DEF HttpInv, PoolSound, AnswerKept, DataOK, InRecv
  <2>3. QED
    BY <1>5, <1>6, <2>1, <2>2 DEF HttpInv, PoolSound, AnswerKept, DataOK
<1>8. CASE /\ Cardinality(held) < PBUF_POOL_SIZE
           /\ f = rcv_nxt /\ f \in 1..Segments /\ wnd > 0 /\ tcp_receive(f)
  <2>1. /\ DataOK'
        /\ held' \subseteq (1..MaxRequests) \X (1..Segments)
        /\ Cardinality(held') <= PBUF_POOL_SIZE
        /\ tcp_recv_pbuf' \in {NoPbuf} \cup ((1..MaxRequests) \X (1..Segments))
        /\ wnd' \in {wnd, wnd - 1}
    <3>1. CASE recv = "tcp_recv_cb"
      BY <1>1, <1>8, <3>1, ReceiveCallback, PbufNotNull
         DEF tcp_receive, tcp_recv_cb
    <3>2. CASE recv # "tcp_recv_cb"
      BY <1>1, <1>8, <3>2, ReceiveNull
         DEF tcp_receive, outVars, appVars, HttpInv, PoolSound, TypeOK, Shapes
    <3>3. QED
      BY <3>1, <3>2
  <2>2. rcv_nxt' \in 1..Fin /\ wnd' \in 0..TCP_WND
    BY <1>8, <2>1, Constants DEF tcp_receive, Fin, HttpInv, PoolSound, TypeOK
  <2>3. TypeOK' /\ Shapes'
    <3>1. ToSet(inq') \subseteq Frames
      BY <1>2 DEF HttpInv, PoolSound, TypeOK
    <3>2. pcb' = pcb
      BY <1>8 DEF tcp_receive
    <3>3. QED
      BY <1>1, <1>2, <1>3, <2>1, <2>2, <3>1, <3>2
         DEF HttpInv, PoolSound, TypeOK, Shapes
  <2>4. QED
    BY <1>5, <1>6, <2>1, <2>3 DEF HttpInv, PoolSound, AnswerKept, DataOK
<1>9. QED
  BY <1>7, <1>8 DEF TakeFrame, Quiet, tcp_input, GotFin, GotLateFin, tcp_recv_cb,
     tcpVars, outVars, appVars, dataVars

-----------------------------------------------------------------------------
(* A new request: nothing of the old one is taken for its own. *)
LEMMA ConnectInv ==
  ASSUME HttpInv, Connect
  PROVE  HttpInv'
<1>1. /\ pc = "idle" /\ pc' = "connect" /\ req < MaxRequests /\ req' = req + 1
      /\ pcb' = "SYN_SENT" /\ recv' = "tcp_recv_null"
      /\ rcv_nxt' = 1 /\ wnd' = TCP_WND /\ heard' = Fin
      /\ out' = <<>> /\ rlen' = 0 /\ clipped' = {} /\ inq' = <<>>
      /\ polls' = ConnectPolls /\ tries' = 0
      /\ UNCHANGED <<back, pkt, lingering, held, tcp_recv_pbuf>>
  BY DEF Connect
<1>2. ~spoiled'
  BY Zenon DEF Connect
<1>3. req \in Nat /\ req' \in 1..MaxRequests
  BY <1>1, Constants DEF HttpInv, PoolSound, TypeOK
<1>4. TypeOK' /\ Shapes'
  BY <1>1, <1>3, ToSetEmpty, Constants
     DEF HttpInv, PoolSound, TypeOK, Shapes, Fin
<1>5. Control' /\ ~InRecv'
  BY <1>1, <1>3, Constants DEF HttpInv, Control, InRecv, Reading
<1>6. \A h \in held : h[1] \in Nat /\ h[1] < req'
  BY <1>1, <1>3, Constants DEF HttpInv, PoolSound, TypeOK, Behind
<1>7. WindowSpent'
  <2>1. {h \in held' : h[1] = req'} = {}
    BY <1>1, <1>3, <1>6
  <2>2. Cardinality({h \in held' : h[1] = req'}) = 0
    BY <2>1, FS_EmptySet
  <2>3. QED
    BY <1>1, <2>2, Constants DEF WindowSpent
<1>8. PbufsOwned' /\ ReadInOrder' /\ LostIsHeld' /\ OnlyLastClipped'
  BY <1>1, ToSetEmpty
     DEF HttpInv, PoolSound, PbufsOwned, ReadInOrder, LostIsHeld, OnlyLastClipped
<1>9. Behind'
  BY <1>1, <1>3, <1>5, <1>6, ToSetEmpty DEF Behind
<1>10. Open'
  BY <1>1, <1>2, ToSetEmpty DEF Open
<1>11. QED
  BY <1>4, <1>5, <1>7, <1>8, <1>9, <1>10 DEF HttpInv, PoolSound, AnswerKept

(* tcp_recv_sync forgets the pbuf it finds and begins to listen. *)
LEMMA RecvEnterInv ==
  ASSUME HttpInv, RecvEnter
  PROVE  HttpInv'
<1>1. /\ pc = "tcp_recv_sync" /\ pc' = "recv" /\ tcp_recv_pbuf' = NoPbuf
      /\ recv' = "tcp_recv_cb" /\ polls' = RecvPolls
      /\ heard' = IF recv = "tcp_recv_cb" THEN heard ELSE rcv_nxt
      /\ UNCHANGED <<back, pkt, tries, req, pcb, rcv_nxt, wnd, spoiled, lingering, held,
                     out, rlen, clipped, inq>>
  BY DEF RecvEnter, outVars
<1>2. TypeOK' /\ Shapes'
  BY <1>1, Constants DEF HttpInv, PoolSound, TypeOK, Shapes
<1>3. Control'
  BY <1>1 DEF HttpInv, Control, InRecv, Reading
<1>4. PbufsOwned' /\ WindowSpent' /\ ReadInOrder' /\ OnlyLastClipped'
  BY <1>1 DEF HttpInv, PoolSound, AnswerKept, PbufsOwned, WindowSpent, ReadInOrder,
     OnlyLastClipped
<1>5. LostIsHeld'
  BY <1>1, Constants
     DEF HttpInv, PoolSound, TypeOK, AnswerKept, LostIsHeld, Shapes
<1>6. Behind'
  BY <1>1 DEF HttpInv, Behind
<1>7. Open'
  BY <1>1 DEF HttpInv, Open
<1>8. QED
  BY <1>2, <1>3, <1>4, <1>5, <1>6, <1>7 DEF HttpInv, PoolSound, AnswerKept

(* The reader copies the pbuf and gives it back. *)
LEMMA RecvCopyInv ==
  ASSUME HttpInv, RecvCopy
  PROVE  HttpInv'
<1> DEFINE n == tcp_recv_pbuf[2]
<1>1. /\ pc = "recv" /\ pc' \in {"close", "loop"} /\ tcp_recv_pbuf # NoPbuf
      /\ out' = Append(out, n) /\ held' = held \ {tcp_recv_pbuf}
      /\ tcp_recv_pbuf' = NoPbuf /\ polls' = 0
      /\ rlen' = rlen + Copied(n)
      /\ clipped' = IF Copied(n) < Size(n) THEN clipped \cup {n} ELSE clipped
      /\ UNCHANGED <<back, pkt, tries, req, pcb, recv, rcv_nxt, wnd, heard, spoiled,
                     lingering, inq>>
  BY DEF RecvCopy, RecvEnds, Copy, tcpVars
<1>2. /\ TypeOK /\ tcp_recv_pbuf \in held /\ n \in 1..Segments
      /\ tcp_recv_pbuf[1] = req /\ tcp_recv_pbuf = <<req, n>>
      /\ req \in 1..MaxRequests /\ n < rcv_nxt
      /\ \A s \in ToSet(out) : s < n
  BY <1>1 DEF HttpInv, PoolSound, TypeOK, PbufsOwned, Behind, InRecv
<1>3. /\ out \in Seq(1..Segments) /\ Len(out) \in Nat
      /\ out' \in Seq(1..Segments) /\ Len(out') = Len(out) + 1
      /\ ToSet(out') = ToSet(out) \cup {n}
      /\ ToSet(out) \subseteq 1..Segments
  <2>1. out \in Seq(1..Segments)
    BY DEF HttpInv, Shapes
  <2> HIDE DEF n
  <2>2. out \in Seq(1..Segments) /\ n \in 1..Segments
    BY <1>2, <2>1
  <2>3. ToSet(Append(out, n)) = ToSet(out) \cup {n}
    <3>1. \A e \in 1..Segments : ToSet(Append(out, e)) = ToSet(out) \cup {e}
      BY <2>2, ToSetAppend
    <3>2. QED
      BY <2>2, <3>1
  <2>4. ToSet(out) \subseteq 1..Segments
    BY <2>2, ToSetType
  <2>5. QED
    BY <1>1, <2>1, <2>2, <2>3, <2>4
<1>13. /\ rlen' \in 0..MaxOut /\ clipped = {}
       /\ clipped' \subseteq {n} /\ (clipped' # {} => rlen' = MaxOut)
  <2>1. rlen \in Nat /\ rlen < MaxOut /\ Size(n) \in Nat
    BY <1>1, Constants
       DEF HttpInv, PoolSound, TypeOK, Control, Reading, InRecv, Size
  <2>2. clipped = {}
    BY <2>1, Constants DEF HttpInv, AnswerKept, OnlyLastClipped
  <2> HIDE DEF n
  <2>3. QED
    BY <1>1, <2>1, <2>2, Constants DEF Copied, Room
<1>14. OnlyLastClipped'
  <2>1. out' # <<>> /\ out'[Len(out')] = n
    <3> HIDE DEF n
    <3>1. QED
      BY <1>1, <1>2, <1>3
  <2>2. QED
    BY <1>13, <2>1 DEF OnlyLastClipped
<1>4. TypeOK' /\ Shapes'
  <2>1. IsFiniteSet(held) /\ Cardinality(held) \in Nat
    BY <1>2, HeldFinite
  <2>2. Cardinality(held \ {tcp_recv_pbuf}) = Cardinality(held) - 1
    BY <1>2, <2>1, FS_RemoveElement
  <2>3. Cardinality(held') <= PBUF_POOL_SIZE
    BY <1>1, <1>2, <2>1, <2>2, Constants DEF TypeOK
  <2>4. QED
    BY <1>1, <1>2, <1>3, <1>13, <2>3, Constants DEF TypeOK, HttpInv, Shapes
<1>5. Control' /\ ~InRecv'
  BY <1>1 DEF HttpInv, Control, InRecv, Reading
<1>6. PbufsOwned'
  BY <1>1, <1>2, <1>3 DEF HttpInv, PoolSound, PbufsOwned
<1>7. WindowSpent'
  <2> DEFINE M == {h \in held : h[1] = req}
  <2>1. {h \in held' : h[1] = req} = M \ {tcp_recv_pbuf} /\ tcp_recv_pbuf \in M
    BY <1>1, <1>2
  <2>2. IsFiniteSet(M) /\ Cardinality(M) \in Nat
    BY <1>2, MineFinite
  <2>3. Cardinality(M \ {tcp_recv_pbuf}) = Cardinality(M) - 1
    BY <2>1, <2>2, FS_RemoveElement
  <2>4. wnd + Len(out) + Cardinality(M) = TCP_WND
    BY <1>1 DEF HttpInv, PoolSound, WindowSpent
  <2>5. wnd \in Nat
    BY <1>2, Constants DEF TypeOK
  <2> HIDE DEF M
  <2>6. Cardinality({h \in held' : h[1] = req'}) = Cardinality(M) - 1
    BY <1>1, <2>1, <2>3
  <2>7. wnd' = wnd /\ Len(out') = Len(out) + 1 /\ Len(out) \in Nat
    BY <1>1, <1>3
  <2>8. wnd' + Len(out') + Cardinality({h \in held' : h[1] = req'}) = TCP_WND
    BY <2>2, <2>4, <2>5, <2>6, <2>7
  <2>9. QED
    BY <2>8 DEF WindowSpent
<1>8. ReadInOrder'
  <2>1. SUFFICES ASSUME NEW j \in 1..Len(out) + 1, NEW k \in 1..Len(out) + 1, j < k
                 PROVE  out'[j] < out'[k]
    BY <1>3 DEF ReadInOrder
  <2>2. CASE k <= Len(out)
    BY <1>1, <1>3, <2>1, <2>2 DEF HttpInv, AnswerKept, ReadInOrder
  <2>3. CASE k = Len(out) + 1
    <3>1. out'[k] = n /\ out'[j] = out[j] /\ out[j] \in ToSet(out)
      BY <1>1, <1>3, <2>1, <2>3 DEF ToSet
    <3>2. QED
      BY <1>2, <3>1
  <2>4. QED
    BY <1>3, <2>2, <2>3
<1>9. LostIsHeld'
  BY <1>1, <1>2, <1>3 DEF HttpInv, AnswerKept, LostIsHeld
<1>10. Behind'
  BY <1>1, <1>2, <1>3, <1>5 DEF HttpInv, Behind
<1>11. Open'
  BY <1>1 DEF HttpInv, Open
<1>12. QED
  BY <1>4, <1>5, <1>6, <1>7, <1>8, <1>9, <1>10, <1>11, <1>14
     DEF HttpInv, PoolSound, AnswerKept

-----------------------------------------------------------------------------
(* No request is under way at the start: the invariant holds. *)
LEMMA InitHttp == Init => HttpInv
<1> SUFFICES ASSUME Init PROVE HttpInv
  OBVIOUS
<1>1. TypeOK /\ Shapes
  BY Constants, ToSetEmpty, FS_EmptySet DEF Init, TypeOK, Shapes, Fin
<1>2. PbufsOwned /\ WindowSpent /\ ReadInOrder /\ LostIsHeld /\ OnlyLastClipped
  BY ToSetEmpty
     DEF Init, PbufsOwned, WindowSpent, ReadInOrder, LostIsHeld, OnlyLastClipped
<1>3. Control /\ Behind /\ Open
  BY ToSetEmpty DEF Init, Control, Behind, Open, Reading, InRecv
<1>4. QED
  BY <1>1, <1>2, <1>3 DEF HttpInv, PoolSound, AnswerKept

(* One step of the request, of lwIP or of the server keeps the invariant. *)
LEMMA NextHttp == HttpInv /\ [Next]_vars => HttpInv'
<1> SUFFICES ASSUME HttpInv, [Next]_vars PROVE HttpInv'
  OBVIOUS
<1>1. CASE UNCHANGED vars
  <2>1. UNCHANGED dataVars /\ UNCHANGED <<pc, back, pkt, polls, tries, pcb, inq, spoiled,
                                               lingering>>
    BY <1>1 DEF vars, tcpVars, outVars, appVars, dataVars
  <2>2. TypeOK' /\ Shapes'
    BY <2>1, SameShapes DEF HttpInv, PoolSound, TypeOK, Shapes
  <2>3. Control' /\ Open' /\ (InRecv' => InRecv)
    BY <2>1 DEF HttpInv, Control, Open, InRecv, Reading, dataVars
  <2>4. DataOK'
    BY <2>1, <2>3, SameData DEF HttpInv, PoolSound, AnswerKept, DataOK
  <2>5. QED
    BY <2>2, <2>3, <2>4 DEF HttpInv, PoolSound, AnswerKept, DataOK
<1>2. CASE ConnectTimeout \/ Close
  <2>1. pc \notin {"poll", "idle"} /\ (tcp_abort \/ tcp_close)
    BY <1>2 DEF ConnectTimeout, Close
  <2>2. QED
    BY <2>1, ReleaseInv
<1>3. QED
  BY <1>1, <1>2, ThreadInv, ServerInv, TimerInv, TakeFrameInv, ConnectInv,
     RecvEnterInv, RecvCopyInv DEF Next, Thread

(* The invariant holds in every reachable state. *)
LEMMA HttpInvariant == Spec => []HttpInv
BY InitHttp, NextHttp, PTL DEF Spec

(* The pbuf the reader copies from is held and a copied one is not, no     *)
(* loop or buffer exceeds its size, and every segment the callback got     *)
(* stays taken from the window, whatever the network does.                 *)
THEOREM PoolCorrect == Spec => []PoolSound
<1>1. HttpInv => PoolSound
  BY DEF HttpInv
<1>2. QED
  BY <1>1, HttpInvariant, PTL

(* The caller reads the answer in order and nothing twice, and a segment   *)
(* lwIP acknowledged is read, held in a pbuf, or came before tcp_recv; it  *)
(* is read whole, unless it is the last in a buffer that is full.          *)
THEOREM AnswerCorrect == Spec => []AnswerKept
<1>1. HttpInv => AnswerKept
  BY DEF HttpInv
<1>2. QED
  BY <1>1, HttpInvariant, PTL

(* Where http_request_sync touches its pcb, lwIP still knows it, unless    *)
(* the connection was reset, closed or given up without the program being  *)
(* told.                                                                   *)
THEOREM PcbCorrect == Spec => []PcbKnown
<1>1. HttpInv => PcbKnown
  BY DEF HttpInv, Open, PcbKnown, TouchesPcb
<1>2. QED
  BY <1>1, HttpInvariant, PTL
=============================================================================
