-------------------------------- MODULE Http --------------------------------
(***************************************************************************)
(* A request over lwIP's callback interface, as drivers/net/network.h makes *)
(* it: http_request_sync connects, sends, and calls tcp_recv_sync until it  *)
(* has enough.  The kernel's one thread polls the card in loops of bounded  *)
(* length; lwIP calls tcp_connected_cb and tcp_recv_cb from inside a poll.  *)
(* The server and the network between are the other actor: segments are     *)
(* delayed, lost and sent again, and the connection may be refused, reset   *)
(* or closed at any moment.  A segment is a number; it is one unit of the   *)
(* window and of the pool of pbufs, and Size(s) bytes of the answer.        *)
(***************************************************************************)
EXTENDS Naturals, Sequences, SequencesExt, FiniteSets

CONSTANTS
  Segments,         \* the length of the answer
  TCP_MSS,          \* bytes of a segment, and of the last one
  LastSize,
  TCP_WND,          \* segments lwIP accepts beyond those tcp_recved reported
  PBUF_POOL_SIZE,
  Batch,            \* frames the card's driver takes in one poll
  MaxOut,           \* bytes the caller's buffer holds: maxout-1
  ConnectPolls,     \* 10000000
  Tries,            \* 20000000 calls of tcp_recv_sync
  RecvPolls,        \* 5000000 polls in each
  MaxRequests,      \* bounds: requests made one after the other, and
  InFlight          \* frames that wait in the card at a time

ASSUME HttpAssumption ==
  \A n \in {Segments, TCP_MSS, LastSize, TCP_WND, PBUF_POOL_SIZE, Batch, MaxOut,
            ConnectPolls, Tries, RecvPolls, MaxRequests, InFlight} :
    n \in Nat \ {0}

VARIABLES
  pc, back,       \* the thread, and where it goes when net_poll returns
  pkt,            \* frames taken by the current poll
  polls, tries,   \* left in the loop of polls, and in the outer one
  req,            \* the number of the request
  pcb,            \* lwIP's state of the connection; "freed" by lwIP itself
  recv,           \* pcb->recv: "tcp_recv_null" or "tcp_recv_cb"
  done,           \* the flag tcp_connected_cb sets
  rcv_nxt, wnd,   \* the next segment, and how many more lwIP will take
  heard,          \* the first segment that found tcp_recv_cb in place
  held,           \* pbufs not given back to the pool, as <<request, segment>>
  tcp_recv_pbuf,  \* <<>> for NULL
  tcp_recv_done,
  out,            \* the segments in the caller's buffer, and the bytes there
  rlen,
  clipped,        \* ghost: segments of which only a part was copied
  cut,            \* the segment at whose end the head of the answer ends
  spoiled,        \* the server has reset or closed the connection
  lingering,      \* earlier requests whose pcb waits for the server's FIN
  inq             \* frames the card has received

tcpVars == <<pcb, recv, done, rcv_nxt, wnd, heard, spoiled, lingering>>
outVars == <<out, rlen, clipped>>
appVars == <<tcp_recv_pbuf, tcp_recv_done, outVars>>
vars == <<pc, back, pkt, polls, tries, req, tcpVars, held, appVars, cut, inq>>

NoPbuf == <<>>
SynAck == 0
Fin == Segments + 1
Rst == Segments + 2
OldFin == Segments + 3    \* the FIN of an earlier connection
Frames == 0..OldFin

Size(s) == IF s = Segments THEN LastSize ELSE TCP_MSS

Init ==
  /\ pc = "idle" /\ back = "idle" /\ pkt = 0 /\ polls = 0 /\ tries = 0
  /\ req = 0
  /\ pcb = "none" /\ recv = "tcp_recv_null" /\ done = FALSE
  /\ rcv_nxt = 1 /\ wnd = TCP_WND /\ heard = Fin /\ spoiled = FALSE
  /\ held = {} /\ tcp_recv_pbuf = NoPbuf /\ tcp_recv_done = FALSE
  /\ out = <<>> /\ rlen = 0 /\ clipped = {} /\ lingering = {}
  /\ cut \in 0..Segments
  /\ inq = <<>>
-----------------------------------------------------------------------------
(* The server and the network.  What arrives for an earlier connection      *)
(* matches no pcb, unless tcp_close has left that one to wait for a FIN.    *)
Arrives(f) ==
  /\ Len(inq) < InFlight
  /\ inq' = Append(inq, f)
  /\ UNCHANGED <<pc, back, pkt, polls, tries, req, pcb, recv, done, rcv_nxt,
                 wnd, heard, lingering, held, appVars, cut>>

Accepts == pcb = "SYN_SENT" /\ Arrives(SynAck) /\ UNCHANGED spoiled
\* A segment inside the window that was not acknowledged, for the first time
\* or again.
SendsSegment(s) ==
  /\ pcb = "ESTABLISHED" /\ "connect" \notin {pc, back}
  /\ s \in rcv_nxt..Segments /\ s < rcv_nxt + wnd
  /\ Arrives(s)
  /\ UNCHANGED spoiled
Closes ==
  /\ pcb = "ESTABLISHED" /\ rcv_nxt = Fin
  /\ Arrives(Fin)
  /\ spoiled' = TRUE
Resets ==
  /\ pcb \in {"SYN_SENT", "ESTABLISHED", "CLOSE_WAIT"}
  /\ Arrives(Rst)
  /\ spoiled' = TRUE

ClosesLate ==
  /\ lingering # {} /\ pc # "idle"
  /\ Arrives(OldFin)
  /\ UNCHANGED spoiled

Server ==
  Accepts \/ Closes \/ Resets \/ ClosesLate \/ \E s \in 1..Segments : SendsSegment(s)
-----------------------------------------------------------------------------
(* lwIP, inside a poll. *)
Quiet == UNCHANGED <<tcpVars, held, appVars>>

tcp_recv_cb(p) ==
  /\ tcp_recv_pbuf' = IF p = NoPbuf THEN tcp_recv_pbuf ELSE p
  /\ tcp_recv_done' = TRUE
  /\ UNCHANGED outVars

(* Mutant of tcp_receive: the pbuf is freed although the callback keeps it. *)
MutReceiveFrees(s) ==
  /\ rcv_nxt' = rcv_nxt + 1
  /\ IF recv = "tcp_recv_cb"
       THEN wnd' = wnd - 1 /\ UNCHANGED held /\ tcp_recv_cb(<<req, s>>)
       ELSE UNCHANGED <<wnd, held, appVars>>
  /\ UNCHANGED <<pcb, recv, done, heard, spoiled, lingering>>

\* In order and inside the window: to the callback, which keeps the pbuf, or
\* to tcp_recv_null, which gives it and the window back.
tcp_receive(s) ==
  /\ rcv_nxt' = rcv_nxt + 1
  /\ IF recv = "tcp_recv_cb"
       THEN /\ wnd' = wnd - 1
            /\ held' = held \cup {<<req, s>>}
            /\ tcp_recv_cb(<<req, s>>)
       ELSE UNCHANGED <<wnd, held, appVars>>
  /\ UNCHANGED <<pcb, recv, done, heard, spoiled, lingering>>

GotFin ==
  /\ IF recv = "tcp_recv_cb"
       THEN pcb' = "CLOSE_WAIT" /\ tcp_recv_cb(NoPbuf)
       ELSE pcb' = "LAST_ACK" /\ UNCHANGED appVars
  /\ UNCHANGED <<recv, done, rcv_nxt, wnd, heard, spoiled, lingering, held>>

\* tcp_close takes no callback off the pcb: the late FIN calls tcp_recv_cb,
\* which sets the flag the request of now is waiting for.
GotLateFin ==
  /\ \E r \in lingering : lingering' = lingering \ {r}
  /\ tcp_recv_cb(NoPbuf)
  /\ UNCHANGED <<pcb, recv, done, rcv_nxt, wnd, heard, spoiled, held>>

tcp_input(f) ==
  \/ /\ f = SynAck /\ pcb = "SYN_SENT"
     /\ pcb' = "ESTABLISHED"
     /\ done' = TRUE
     /\ UNCHANGED <<recv, rcv_nxt, wnd, heard, spoiled, lingering, held, appVars>>
  \/ /\ f = rcv_nxt /\ f \in 1..Segments /\ pcb = "ESTABLISHED" /\ wnd > 0
     /\ tcp_receive(f)
  \/ f = Fin /\ pcb = "ESTABLISHED" /\ GotFin
  \/ /\ f = Rst /\ pcb \in {"SYN_SENT", "ESTABLISHED", "CLOSE_WAIT", "LAST_ACK"}
     /\ pcb' = "freed"
     /\ UNCHANGED <<recv, done, rcv_nxt, wnd, heard, spoiled, lingering, held,
                    appVars>>
  \/ f = OldFin /\ GotLateFin

\* The driver found no pbuf, or the segment is not the one that is expected.
Dropped(f) ==
  \/ Cardinality(held) >= PBUF_POOL_SIZE
  \/ f = SynAck /\ pcb # "SYN_SENT"
  \/ f \in 1..Segments /\ ~(f = rcv_nxt /\ pcb = "ESTABLISHED" /\ wnd > 0)
  \/ f = Fin /\ pcb # "ESTABLISHED"
  \/ f = Rst /\ pcb = "freed"
  \/ f = OldFin /\ lingering = {}

TakeFrame ==
  /\ pc = "poll" /\ pkt < Batch /\ inq # <<>>
  /\ inq' = Tail(inq)
  /\ pkt' = pkt + 1
  /\ \/ Cardinality(held) < PBUF_POOL_SIZE /\ tcp_input(inq[1])
     \/ Dropped(inq[1]) /\ Quiet
  /\ UNCHANGED <<pc, back, polls, tries, req, cut>>

\* lwIP's timers: it gives up on a connection that does not answer, and frees
\* one that tcp_recv_null has closed.
tcp_tmr ==
  /\ pc = "poll"
  /\ pcb \in {"SYN_SENT", "ESTABLISHED", "CLOSE_WAIT", "LAST_ACK"}
  /\ pcb' = "freed"
  /\ spoiled' = TRUE
  /\ UNCHANGED <<pc, back, pkt, polls, tries, req, recv, done, rcv_nxt, wnd,
                 heard, lingering, held, appVars, cut, inq>>

PollReturns ==
  /\ pc = "poll"
  /\ pkt = Batch \/ inq = <<>>
  /\ pc' = back /\ back' = "idle" /\ pkt' = 0
  /\ UNCHANGED <<polls, tries, req, tcpVars, held, appVars, cut, inq>>

net_poll(from) == pc' = "poll" /\ back' = from
-----------------------------------------------------------------------------
(* http_request_sync. *)
Connect ==
  /\ pc = "idle" /\ req < MaxRequests
  /\ req' = req + 1
  /\ pcb' = "SYN_SENT" /\ recv' = "tcp_recv_null" /\ done' = FALSE
  /\ rcv_nxt' = 1 /\ wnd' = TCP_WND /\ heard' = Fin /\ spoiled' = FALSE
  /\ out' = <<>> /\ rlen' = 0 /\ clipped' = {} /\ inq' = <<>>
  /\ polls' = ConnectPolls /\ tries' = 0
  /\ pc' = "connect"
  /\ UNCHANGED <<back, pkt, lingering, held, tcp_recv_pbuf, tcp_recv_done, cut>>

ConnectPoll ==
  /\ pc = "connect" /\ polls > 0 /\ ~done
  /\ polls' = polls - 1
  /\ net_poll("connect")
  /\ UNCHANGED <<pkt, tries, req, tcpVars, held, appVars, cut, inq>>

\* Both ends of a request let go of the pcb.
Release ==
  /\ pcb' = "none"
  /\ pc' = "idle"
  /\ inq' = <<>>
  /\ polls' = 0 /\ tries' = 0
  /\ UNCHANGED <<back, pkt, req, recv, done, rcv_nxt, wnd, heard, spoiled, held,
                 appVars, cut>>

tcp_abort == Release /\ UNCHANGED lingering

\* With data that tcp_recved did not report, tcp_close resets the connection and
\* frees the pcb; with an untouched window the pcb goes to FIN_WAIT_1.
tcp_close ==
  /\ Release
  /\ lingering' = IF pcb = "ESTABLISHED" /\ wnd = TCP_WND
                    THEN lingering \cup {req} ELSE lingering

(* Mutant of ConnectTimeout: the function goes on after tcp_abort. *)
MutTimeoutGoesOn ==
  /\ pc = "connect" /\ polls = 0 /\ ~done
  /\ pcb' = "none" /\ pc' = "loop" /\ tries' = Tries
  /\ UNCHANGED <<back, pkt, polls, req, recv, done, rcv_nxt, wnd, heard, spoiled,
                 lingering, held, appVars, cut, inq>>

ConnectTimeout == pc = "connect" /\ polls = 0 /\ ~done /\ tcp_abort

\* The request is written and sent; tcp_send_sync's answer is not looked at.
Connected ==
  /\ pc = "connect" /\ done
  /\ tries' = Tries
  /\ pc' = "loop"
  /\ UNCHANGED <<back, pkt, polls, req, tcpVars, held, appVars, cut, inq>>

LoopPoll ==
  /\ pc = "loop" /\ tries > 0 /\ rlen < MaxOut
  /\ tries' = tries - 1
  /\ net_poll("tcp_recv_sync")
  /\ UNCHANGED <<pkt, polls, req, tcpVars, held, appVars, cut, inq>>

Close ==
  /\ pc = "close" \/ (pc = "loop" /\ (tries = 0 \/ rlen >= MaxOut))
  /\ tcp_close
-----------------------------------------------------------------------------
(* tcp_recv_sync. *)

RecvEnter ==
  /\ pc = "tcp_recv_sync"
  /\ tcp_recv_pbuf' = NoPbuf /\ tcp_recv_done' = FALSE
  /\ recv' = "tcp_recv_cb"
  /\ heard' = IF recv = "tcp_recv_cb" THEN heard ELSE rcv_nxt
  /\ polls' = RecvPolls
  /\ pc' = "recv"
  /\ UNCHANGED <<back, pkt, tries, req, pcb, done, rcv_nxt, wnd, spoiled, lingering,
                 held, outVars, cut, inq>>

(* Mutant of RecvPoll: the polls are not counted. *)
MutRecvPollOn ==
  /\ pc = "recv" /\ polls > 0 /\ ~tcp_recv_done
  /\ net_poll("recv")
  /\ UNCHANGED <<pkt, polls, tries, req, tcpVars, held, appVars, cut, inq>>

RecvPoll ==
  /\ pc = "recv" /\ polls > 0 /\ ~tcp_recv_done
  /\ polls' = polls - 1
  /\ net_poll("recv")
  /\ UNCHANGED <<pkt, tries, req, tcpVars, held, appVars, cut, inq>>

RecvEnds == pc = "recv" /\ (polls = 0 \/ tcp_recv_done)

RecvNothing ==
  /\ RecvEnds /\ tcp_recv_pbuf = NoPbuf
  /\ pc' = "loop"
  /\ polls' = 0
  /\ UNCHANGED <<back, pkt, tries, req, tcpVars, held, appVars, cut, inq>>

Room == MaxOut - rlen
\* A segment longer than the room left is cut; its tail goes with the pbuf.
Copied(s) == IF Size(s) > Room THEN Room ELSE Size(s)

Copy(s) ==
  /\ out' = Append(out, s)
  /\ rlen' = rlen + Copied(s)
  /\ clipped' = IF Copied(s) < Size(s) THEN clipped \cup {s} ELSE clipped
  /\ held' = held \ {tcp_recv_pbuf}
  /\ polls' = 0
  /\ pc' = IF s = cut /\ Copied(s) = Size(s) THEN "close" ELSE "loop"
  /\ UNCHANGED <<back, pkt, tries, req, tcpVars, tcp_recv_done, cut, inq>>

(* Mutant of RecvCopy: the pbuf is freed and kept. *)
MutCopyKeeps ==
  /\ RecvEnds /\ tcp_recv_pbuf # NoPbuf
  /\ Copy(tcp_recv_pbuf[2])
  /\ UNCHANGED tcp_recv_pbuf

RecvCopy ==
  /\ RecvEnds /\ tcp_recv_pbuf # NoPbuf
  /\ Copy(tcp_recv_pbuf[2])
  /\ tcp_recv_pbuf' = NoPbuf
-----------------------------------------------------------------------------
Thread ==
  \/ Connect \/ ConnectPoll \/ ConnectTimeout \/ Connected
  \/ LoopPoll \/ Close
  \/ RecvEnter \/ RecvPoll \/ RecvNothing \/ RecvCopy
  \/ TakeFrame \/ PollReturns

Next == Thread \/ tcp_tmr \/ Server

Spec == Init /\ [][Next]_vars

\* The kernel's thread runs; nothing is assumed of the server, the network or
\* lwIP's timers.
FairSpec == Spec /\ WF_vars(Thread)
-----------------------------------------------------------------------------
\* The window, the pool and the loops keep to their sizes.
TypeOK ==
  /\ pc \in {"idle", "connect", "loop", "tcp_recv_sync", "recv", "poll", "close"}
  /\ back \in {"idle", "connect", "tcp_recv_sync", "recv"}
  /\ pkt \in 0..Batch /\ tries \in 0..Tries /\ req \in 0..MaxRequests
  /\ pcb \in {"none", "SYN_SENT", "ESTABLISHED", "CLOSE_WAIT", "LAST_ACK", "freed"}
  /\ rcv_nxt \in 1..Fin /\ wnd \in 0..TCP_WND
  /\ held \subseteq (1..MaxRequests) \X (1..Segments)
  /\ Cardinality(held) <= PBUF_POOL_SIZE
  /\ tcp_recv_pbuf \in {NoPbuf} \cup ((1..MaxRequests) \X (1..Segments))
  /\ rlen \in 0..MaxOut /\ clipped \subseteq 1..Segments
  /\ lingering \subseteq 1..MaxRequests
  /\ ToSet(inq) \subseteq Frames

\* The caller reads the answer in order and nothing twice, whatever is lost,
\* sent again, or overwritten between the callback and the reader.
ReadInOrder == \A j, k \in DOMAIN out : j < k => out[j] < out[k]

\* The pbuf the reader will copy from has not gone back to the pool, and one
\* it has copied has.
PbufsOwned ==
  /\ tcp_recv_pbuf # NoPbuf => tcp_recv_pbuf \in held
  /\ \A s \in ToSet(out) : <<req, s>> \notin held

\* No segment that lwIP has acknowledged disappears: it is in the caller's
\* buffer, or its pbuf is still held (a second callback before the reader, or
\* the poll between two calls of tcp_recv_sync, loses the data and the pbuf),
\* or it came before the first call of tcp_recv, when tcp_recv_null drops it.
LostIsHeld ==
  \A s \in 1..(rcv_nxt - 1) :
    s \in ToSet(out) \/ <<req, s>> \in held \/ s < heard

\* What is in the caller's buffer is there whole, but for one segment at most,
\* the last: it did not fit, its tail was acknowledged and is freed unread, and
\* then the buffer is full to its last byte.
OnlyLastClipped ==
  \A s \in clipped : rlen = MaxOut /\ out # <<>> /\ s = out[Len(out)]

\* tcp_recved is never called: every segment the callback got, read or lost,
\* stays taken from the window, so no answer longer than it is ever read.
WindowSpent ==
  pc # "idle" =>
    wnd + Len(out) + Cardinality({h \in held : h[1] = req}) = TCP_WND

\* Sizes, the pool and the window: every pbuf is where it is counted.
PoolSound == TypeOK /\ PbufsOwned /\ WindowSpent

\* What becomes of the answer: it is read in order and nothing vanishes, except
\* the tail of the segment that fills the caller's buffer.
AnswerKept == ReadInOrder /\ LostIsHeld /\ OnlyLastClipped

\* A request ends, whatever the server does.
RequestReturns == pc # "idle" ~> pc = "idle"

\* http_request_sync hands lwIP a pcb that lwIP still knows, unless the
\* connection was reset, given up by lwIP's timers, or closed by the server:
\* without a tcp_err callback the program does not hear of these.
TouchesPcb ==
  \/ pc \in {"tcp_recv_sync", "close"}
  \/ pc = "connect" /\ (polls = 0 \/ done)
  \/ pc = "loop" /\ (tries = 0 \/ rlen >= MaxOut)
PcbKnown ==
  TouchesPcb /\ ~spoiled => pcb \in {"SYN_SENT", "ESTABLISHED", "CLOSE_WAIT"}
=============================================================================
