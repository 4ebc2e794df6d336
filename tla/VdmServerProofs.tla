--------------------------- MODULE VdmServerProofs ---------------------------
(***************************************************************************)
(* The safety properties of the display server, for any number of clients, *)
(* slots, windows, places and buffer sizes.  IInv is inductive and carries *)
(* the tables and ids; LoopInv, inductive with it, pairs the client loop   *)
(* with what poll() filled in.                                             *)
(***************************************************************************)
EXTENDS VdmServer, VdmWindowsProofs, SequenceTheorems

-----------------------------------------------------------------------------
(* The ids a sequence of messages mentions. *)

(* No message, no id. *)
LEMMA IdsOfEmpty == IdsOf(<<>>) = {}
BY DEF IdsOf

(* A message appended adds its own id. *)
LEMMA IdsOfAppend ==
  ASSUME NEW M, NEW ms \in Seq(M), NEW m \in M
  PROVE  IdsOf(Append(ms, m)) \subseteq IdsOf(ms) \cup {m.id}
BY DEF IdsOf

(* A message read takes no id along that was not there. *)
LEMMA IdsOfTail ==
  ASSUME NEW M, NEW ms \in Seq(M), ms # <<>>
  PROVE  IdsOf(Tail(ms)) \subseteq IdsOf(ms)
BY DEF IdsOf

(* The message read first names an id of the stream. *)
LEMMA IdsOfHead ==
  ASSUME NEW M, NEW ms \in Seq(M), ms # <<>>
  PROVE  {Head(ms).id} \ {0} \subseteq IdsOf(ms)
<1>1. 1 \in DOMAIN ms /\ Head(ms) = ms[1]
  OBVIOUS
<1>2. QED
  BY <1>1 DEF IdsOf

(* Two streams joined name what each of them names. *)
LEMMA IdsOfConcat ==
  ASSUME NEW M, NEW ms \in Seq(M), NEW ns \in Seq(M)
  PROVE  IdsOf(ms \o ns) \subseteq IdsOf(ms) \cup IdsOf(ns)
<1>1. SUFFICES ASSUME NEW k \in DOMAIN (ms \o ns)
               PROVE  \/ \E j \in DOMAIN ms : (ms \o ns)[k] = ms[j]
                      \/ \E j \in DOMAIN ns : (ms \o ns)[k] = ns[j]
  BY DEF IdsOf
<1>2. k \in 1 .. Len(ms) + Len(ns)
  OBVIOUS
<1>3. CASE k <= Len(ms)
  BY <1>2, <1>3
<1>4. CASE k > Len(ms)
  <2>1. k - Len(ms) \in DOMAIN ns /\ (ms \o ns)[k] = ns[k - Len(ms)]
    BY <1>2, <1>4
  <2>2. QED
    BY <2>1
<1>5. QED
  BY <1>2, <1>3, <1>4

(* The ids a client knows are numbers. *)
LEMMA KnownNat ==
  ASSUME TypeOK, NEW p \in Pids
  PROVE  Known(p) \subseteq Nat
<1>1. up[p] \in Seq(Requests) /\ down[p] \in Seq(Events) /\ handles[p] \subseteq Nat
  BY DEF TypeOK, ProcTypes, SockTypes
<1>2. \A m \in Requests \cup Events : m.id \in Nat
  BY DEF Requests, Events
<1>3. IdsOf(up[p]) \subseteq Nat /\ IdsOf(down[p]) \subseteq Nat
  BY <1>1, <1>2 DEF IdsOf
<1>4. QED
  BY <1>1, <1>3 DEF Known
-----------------------------------------------------------------------------
(* The client loop stands at a slot in use. *)
LEMMA CurrentActive ==
  ASSUME InLoop
  PROVE  Current \in Active /\ Current \in Slots
<1>1. NextActive \subseteq Active /\ Active \subseteq Slots /\ NextActive # {}
  BY DEF InLoop, NextActive, Active
<1>2. NextActive \subseteq Nat
  BY <1>1, SlotSets
<1>3. QED
  BY <1>1, <1>2, FirstSlotIn DEF Current

(* The server as main.c sets it up. *)
LEMMA InitIInv == Init => IInv
<1> SUFFICES ASSUME Init PROVE IInv
  OBVIOUS
<1>1. TypeOK
  <2>1. ProcTypes
    BY DEF Init, ProcTypes
  <2>2. SockTypes
    BY DEF Init, SockTypes
  <2>3. TabTypes
    BY InitTable DEF Init, TabTypes, TableOK
  <2>4. PollTypes
    <3>1. <<>> \in Seq(PollEntries)
      OBVIOUS
    <3>2. QED
      BY <3>1, Zenon DEF Init, PollTypes
  <2>5. ViewTypes
    BY SizesAssumption DEF Init, ViewTypes
  <2>6. LoopTypes
    BY DEF Init, LoopTypes
  <2>7. QED
    BY <2>1, <2>2, <2>3, <2>4, <2>5, <2>6 DEF TypeOK
<1>2. TableOK(wm) /\ Visible(wm) = {} /\ wm.next_id = 1 /\ wm.window_count = 0
  BY InitTable DEF Init, window_manager_init
<1>3. Active = {}
  BY DEF Init, Active
<1>4. \A p \in Pids : Known(p) = {}
  BY IdsOfEmpty DEF Init, Known
<1>5. CountsMatch
  BY <1>2, <1>3, FS_EmptySet DEF CountsMatch, Init
<1>6. QED
  BY <1>1, <1>2, <1>3, <1>4, <1>5
     DEF IInv, OwnersConnected, IdsDistinct, IdsPrivate, KnownToOwner, Init
-----------------------------------------------------------------------------
(* The shapes of a step.                                                   *)

(* A step may give p the id of a window: one that no other client knows    *)
(* and that only p can be the owner of.                                    *)
Granted(p, id) ==
  /\ id < wm'.next_id
  /\ \A q \in Pids \ {p} : id \notin Known(q) /\ id \notin Known(q)'
  /\ \A s \in Visible(wm') : wm'.windows[s].id = id => wm'.windows[s].pid = p

OldIds == \A p \in Pids : \A id \in Known(p)' : id \in Known(p)

NewIds == \A p \in Pids : \A id \in Known(p)' : id \in Known(p) \/ Granted(p, id)

(* A window of the new table was there before, or nobody knows its id.     *)
OldWindow(s) ==
  /\ s \in Visible(wm)
  /\ wm'.windows[s].id = wm.windows[s].id
  /\ wm'.windows[s].pid = wm.windows[s].pid
  /\ wm'.windows[s].client_idx = wm.windows[s].client_idx

NewWindow(s) == \A p \in Pids : wm'.windows[s].id \notin Known(p)

(* A step that teaches no client an id keeps the ids apart. *)
LEMMA IdsStep ==
  ASSUME IInv, TableOK(wm'), wm.next_id <= wm'.next_id,
         focused_window_id' < wm'.next_id, NewIds,
         \A s \in Visible(wm') : OldWindow(s) \/ NewWindow(s)
  PROVE  IdsDistinct' /\ IdsPrivate' /\ KnownToOwner'
<1>n. wm.next_id \in Nat /\ wm'.next_id \in Nat
  BY DEF IInv, TableOK, WindowTable
<1>k. \A p \in Pids : \A id \in Known(p) : id \in Nat
  BY KnownNat DEF IInv
<1>1. \A p \in Pids : \A id \in Known(p)' : id < wm'.next_id
  BY <1>n, <1>k DEF IInv, IdsDistinct, NewIds, Granted
<1>2. IdsDistinct'
  BY <1>1 DEF IdsDistinct, TableOK
<1>3. IdsPrivate'
  BY DEF IdsPrivate, IInv, NewIds, Granted
<1>4. KnownToOwner'
  BY DEF KnownToOwner, IInv, NewIds, Granted, OldWindow, NewWindow
<1>5. QED
  BY <1>2, <1>3, <1>4

(* Neither table changes. *)
LEMMA QuietStep ==
  ASSUME IInv, TypeOK', UNCHANGED tabVars, NewIds,
         focused_window_id' < wm.next_id,
         pc = "exit" => pc' = "exit",
         pc' = "accept" /\ listen_in' => backlog' # <<>>
  PROVE  IInv'
<1>1. TableOK(wm') /\ wm.next_id <= wm'.next_id /\ wm' = wm
  BY DEF IInv, TableOK, WindowTable, tabVars
<1>2. \A s \in Visible(wm') : OldWindow(s)
  BY <1>1 DEF OldWindow
<1>3. IdsDistinct' /\ IdsPrivate' /\ KnownToOwner'
  BY <1>1, <1>2, IdsStep
<1>4. QED
  BY <1>1, <1>3 DEF IInv, CountsMatch, OwnersConnected, Active, tabVars
-----------------------------------------------------------------------------
(* Steps of clients, of the user and of signals.                           *)

(* display_connect: a connection waits in the backlog. *)
LEMMA ConnectIInv ==
  ASSUME IInv, NEW p \in Pids, display_connect(p)
  PROVE  IInv'
<1>1. TypeOK'
  <2>1. ProcTypes' /\ SockTypes'
    BY DEF IInv, TypeOK, ProcTypes, SockTypes, display_connect
  <2>2. QED
    BY <2>1 DEF IInv, TypeOK, display_connect, TabTypes, PollTypes, ViewTypes,
                LoopTypes, tabVars, pollVars, viewVars, loopVars
<1>2. NewIds
  BY DEF display_connect, NewIds, Known
<1>3. backlog' # <<>>
  <2>1. backlog \in Seq(Pids) /\ backlog' = Append(backlog, p)
    BY DEF display_connect, IInv, TypeOK, SockTypes
  <2>2. Len(Append(backlog, p)) # 0
    BY <2>1
  <2>3. QED
    BY <2>1, <2>2
<1>4. focused_window_id' < wm.next_id /\ UNCHANGED tabVars /\ pc' = pc
  BY DEF display_connect, IInv, IdsDistinct, viewVars, loopVars
<1>5. QED
  BY <1>1, <1>2, <1>3, <1>4, QuietStep

(* A client that knows the id it names, or names none. *)
LEMMA RequestIInv ==
  ASSUME IInv, NEW p \in Pids, NEW msg \in Requests, SendRequest(p, msg),
         msg.id = 0 \/ msg.id \in handles[p],
         creates' \in Nat, handles' \in [Pids -> SUBSET Nat],
         \A q \in Pids : handles'[q] \subseteq handles[q]
  PROVE  IInv'
<1>s. /\ up \in [Pids -> Seq(Requests)]
      /\ up' = [up EXCEPT ![p] = Append(up[p], msg)]
  BY DEF SendRequest, IInv, TypeOK, SockTypes
<1>1. TypeOK'
  <2>1. SockTypes'
    BY <1>s DEF IInv, TypeOK, SockTypes, SendRequest
  <2>2. QED
    BY <2>1 DEF IInv, TypeOK, SendRequest, ProcTypes, TabTypes, PollTypes,
                ViewTypes, LoopTypes, tabVars, pollVars, viewVars, loopVars
<1>2. \A q \in Pids : IdsOf(up'[q]) \subseteq Known(q)
  <2>1. ASSUME NEW q \in Pids, q # p
        PROVE  up'[q] = up[q]
    BY <1>s, <2>1
  <2>2. up'[p] = Append(up[p], msg) /\ up[p] \in Seq(Requests)
    BY <1>s
  <2>3. IdsOf(up'[p]) \subseteq IdsOf(up[p]) \cup {msg.id}
    BY <2>2, IdsOfAppend
  <2>4. 0 \notin IdsOf(up'[p])
    BY DEF IdsOf
  <2>5. IdsOf(up'[p]) \subseteq Known(p)
    BY <2>3, <2>4 DEF Known
  <2>6. QED
    BY <2>1, <2>5 DEF Known
<1>3. NewIds
  BY <1>2 DEF NewIds, Known, SendRequest
<1>4. /\ focused_window_id' < wm.next_id /\ UNCHANGED tabVars /\ pc' = pc
      /\ listen_in' = listen_in /\ backlog' = backlog
  BY DEF SendRequest, IInv, IdsDistinct, viewVars, loopVars, pollVars
<1>5. QED
  BY <1>1, <1>3, <1>4, QuietStep DEF IInv

(* event_poll: the client takes a message off its stream. *)
LEMMA ClientReadIInv ==
  ASSUME IInv, NEW p \in Pids, ClientRead(p)
  PROVE  IInv'
<1>s. /\ down \in [Pids -> Seq(Events)]
      /\ down' = [down EXCEPT ![p] = Tail(down[p])]
      /\ down[p] # <<>>
      /\ handles \in [Pids -> SUBSET Nat]
      /\ \A q \in Pids : handles'[q] \subseteq handles[q] \cup
             (IF q = p THEN {Head(down[p]).id} ELSE {})
      /\ DOMAIN handles' = Pids
      /\ handles' = [q \in Pids |-> handles'[q]]
  BY DEF ClientRead, IInv, TypeOK, SockTypes, ProcTypes
<1>h. down[p] \in Seq(Events) /\ Head(down[p]).id \in Nat
  <2>1. down[p] \in Seq(Events) /\ Head(down[p]) \in Events
    BY <1>s
  <2>2. QED
    BY <2>1 DEF Events
<1>1. TypeOK'
  <2>1. SockTypes'
    BY <1>s, <1>h DEF IInv, TypeOK, SockTypes, ClientRead
  <2>2. ProcTypes'
    BY <1>s, <1>h DEF IInv, TypeOK, ProcTypes, ClientRead
  <2>3. QED
    BY <2>1, <2>2 DEF IInv, TypeOK, ClientRead, TabTypes, PollTypes,
                ViewTypes, LoopTypes, tabVars, pollVars, viewVars, loopVars
<1>2. \A q \in Pids : IdsOf(down'[q]) \subseteq IdsOf(down[q])
  <2>1. \A q \in Pids : q # p => down'[q] = down[q]
    BY <1>s
  <2>2. down'[p] = Tail(down[p])
    BY <1>s
  <2>3. QED
    BY <2>1, <2>2, <1>s, <1>h, IdsOfTail
<1>3. NewIds
  <2>1. up' = up
    BY DEF ClientRead
  <2>2. Head(down[p]).id = 0 \/ Head(down[p]).id \in IdsOf(down[p])
    BY <1>s, <1>h, IdsOfHead
  <2>3. QED
    BY <1>s, <1>2, <2>1, <2>2 DEF NewIds, Known
<1>4. /\ focused_window_id' < wm.next_id /\ UNCHANGED tabVars /\ pc' = pc
      /\ listen_in' = listen_in /\ backlog' = backlog
  BY DEF ClientRead, IInv, IdsDistinct, viewVars, loopVars, pollVars
<1>5. QED
  BY <1>1, <1>3, <1>4, QuietStep DEF IInv

(* display_disconnect: the client forgets its windows. *)
LEMMA DisconnectIInv ==
  ASSUME IInv, NEW p \in Pids, display_disconnect(p)
  PROVE  IInv'
<1>s. /\ down \in [Pids -> Seq(Events)] /\ down' = [down EXCEPT ![p] = <<>>]
      /\ handles \in [Pids -> SUBSET Nat] /\ handles' = [handles EXCEPT ![p] = {}]
  BY DEF display_disconnect, IInv, TypeOK, SockTypes, ProcTypes
<1>1. TypeOK'
  <2>1. SockTypes'
    BY <1>s DEF IInv, TypeOK, SockTypes, display_disconnect
  <2>2. ProcTypes'
    BY <1>s DEF IInv, TypeOK, ProcTypes, display_disconnect
  <2>3. QED
    BY <2>1, <2>2 DEF IInv, TypeOK, display_disconnect, TabTypes, PollTypes,
                ViewTypes, LoopTypes, tabVars, pollVars, viewVars, loopVars
<1>2. ASSUME NEW q \in Pids
      PROVE  Known(q)' \subseteq Known(q)
  <2>1. CASE q = p
    BY <1>s, <2>1, IdsOfEmpty DEF display_disconnect, Known
  <2>2. CASE q # p
    BY <1>s, <2>2 DEF display_disconnect, Known
  <2>3. QED
    BY <2>1, <2>2
<1>3. NewIds
  BY <1>2 DEF NewIds
<1>4. /\ focused_window_id' < wm.next_id /\ UNCHANGED tabVars /\ pc' = pc
      /\ listen_in' = listen_in /\ backlog' = backlog
  BY DEF display_disconnect, IInv, IdsDistinct, viewVars, loopVars, pollVars
<1>5. QED
  BY <1>1, <1>3, <1>4, QuietStep DEF IInv

(* Every step of a client. *)
LEMMA ClientIInv ==
  ASSUME IInv, NEW p \in Pids, Client(p)
  PROVE  IInv'
<1>t. handles \in [Pids -> SUBSET Nat] /\ creates \in Nat
  BY DEF IInv, TypeOK, ProcTypes
<1>m. ASSUME NEW id \in Nat, NEW x \in Places,
             NEW type \in {"MSG_CREATE_WINDOW", "MSG_COMMIT_BUFFER",
                           "MSG_DESTROY_WINDOW", "MSG_MOVE_WINDOW", "unknown"}
      PROVE  Msg(type, id, x) \in Requests /\ Msg(type, id, x).id = id
  BY DEF Msg, Requests
<1>0. 0 \in Places
  BY SizesAssumption
<1>1. CASE client_window_create(p)
  BY <1>0, <1>1, <1>t, <1>m, RequestIInv DEF client_window_create
<1>2. CASE client_window_commit(p)
  BY <1>0, <1>2, <1>t, <1>m, RequestIInv DEF client_window_commit
<1>3. CASE client_window_move(p)
  BY <1>3, <1>t, <1>m, RequestIInv DEF client_window_move
<1>4. CASE client_window_destroy(p)
  <2>1. PICK id \in handles[p] :
          /\ SendRequest(p, Msg("MSG_DESTROY_WINDOW", id, 0))
          /\ handles' = [handles EXCEPT ![p] = @ \ {id}]
          /\ UNCHANGED creates
    BY <1>4 DEF client_window_destroy
  <2>2. /\ handles' \in [Pids -> SUBSET Nat] /\ creates' \in Nat
        /\ \A q \in Pids : handles'[q] \subseteq handles[q]
    BY <1>t, <2>1
  <2>3. QED
    BY <1>0, <1>m, <1>t, <2>1, <2>2, RequestIInv
<1>5. CASE SendUnknown(p)
  BY <1>0, <1>5, <1>t, <1>m, RequestIInv DEF SendUnknown
<1>6. QED
  BY <1>1, <1>2, <1>3, <1>4, <1>5, ConnectIInv, ClientReadIInv, DisconnectIInv
     DEF Client

(* A key or a motion reaches the kernel queue. *)
LEMMA UserInputIInv ==
  ASSUME IInv, NEW e \in InputEvents, UserInput(e)
  PROVE  IInv'
<1>1. TypeOK'
  <2>1. ProcTypes'
    BY DEF IInv, TypeOK, ProcTypes, UserInput
  <2>2. QED
    BY <2>1 DEF IInv, TypeOK, UserInput, SockTypes, TabTypes, PollTypes, ViewTypes,
                LoopTypes, sockVars, tabVars, pollVars, viewVars, loopVars
<1>2. NewIds
  BY DEF UserInput, NewIds, Known, sockVars
<1>3. /\ focused_window_id' < wm.next_id /\ UNCHANGED tabVars /\ pc' = pc
      /\ listen_in' = listen_in /\ backlog' = backlog
  BY DEF UserInput, IInv, IdsDistinct, sockVars, viewVars, loopVars, pollVars
<1>4. QED
  BY <1>1, <1>2, <1>3, QuietStep DEF IInv

(* A signal only clears running. *)
LEMMA SignalIInv ==
  ASSUME IInv, NEW sig, signal_handler(sig)
  PROVE  IInv'
<1>1. TypeOK'
  BY DEF IInv, TypeOK, signal_handler, ProcTypes, SockTypes, TabTypes, PollTypes,
         ViewTypes, LoopTypes, procVars, sockVars, tabVars, pollVars, viewVars,
         loopVars
<1>2. NewIds
  BY DEF signal_handler, NewIds, Known, procVars, sockVars
<1>3. /\ focused_window_id' < wm.next_id /\ UNCHANGED tabVars /\ pc' = pc
      /\ listen_in' = listen_in /\ backlog' = backlog
  BY DEF signal_handler, IInv, IdsDistinct, sockVars, viewVars, loopVars, pollVars
<1>4. QED
  BY <1>1, <1>2, <1>3, QuietStep DEF IInv
-----------------------------------------------------------------------------
(* Steps of the server.                                                    *)

(* The window table changes, the client table does not. *)
LEMMA TableStep ==
  ASSUME IInv, TypeOK', TableOK(wm'), wm.next_id <= wm'.next_id, NewIds,
         UNCHANGED <<clients, client_count>>,
         focused_window_id' < wm'.next_id,
         \A s \in Visible(wm') :
           \/ OldWindow(s)
           \/ /\ NewWindow(s)
              /\ clients[wm'.windows[s].client_idx].active
              /\ clients[wm'.windows[s].client_idx].pid = wm'.windows[s].pid,
         pc # "exit", pc' # "accept"
  PROVE  IInv'
<1>1. IdsDistinct' /\ IdsPrivate' /\ KnownToOwner'
  BY IdsStep
<1>2. Active' = Active
  BY DEF Active
<1>3. CountsMatch'
  BY <1>2 DEF CountsMatch, IInv, TableOK
<1>4. OwnersConnected'
  BY DEF OwnersConnected, IInv, OldWindow
<1>5. QED
  BY <1>1, <1>2, <1>3, <1>4 DEF IInv

(* What is sent to a client is all it learns. *)
LEMMA SendIds ==
  ASSUME TypeOK, NEW p \in Pids, NEW msgs \in Seq(Events), NEW sig,
         Send(p, msgs, sig)
  PROVE  /\ down' \in [Pids -> Seq(Events)]
         /\ running' \in BOOLEAN
         /\ \A q \in Pids : IdsOf(down'[q]) \subseteq
              IdsOf(down[q]) \cup (IF q = p THEN IdsOf(msgs) ELSE {})
<1>t. down \in [Pids -> Seq(Events)] /\ running \in BOOLEAN
  BY DEF TypeOK, SockTypes, LoopTypes
<1>r. running' \in BOOLEAN
  BY <1>t, Zenon DEF Send
<1>d. down' = down \/ down' = [down EXCEPT ![p] = @ \o msgs]
  BY DEF Send
<1>1. CASE down' = down
  BY <1>t, <1>r, <1>1
<1>2. CASE down' = [down EXCEPT ![p] = down[p] \o msgs]
  <2>1. down'[p] = down[p] \o msgs /\ down[p] \in Seq(Events)
    BY <1>t, <1>2
  <2>2. down' \in [Pids -> Seq(Events)]
    BY <1>t, <1>2, <2>1
  <2>3. IdsOf(down'[p]) \subseteq IdsOf(down[p]) \cup IdsOf(msgs)
    BY <2>1, IdsOfConcat
  <2>4. \A q \in Pids : q # p => down'[q] = down[q]
    BY <1>t, <1>2
  <2>5. QED
    BY <1>r, <2>2, <2>3, <2>4
<1>3. QED
  BY <1>d, <1>1, <1>2

(* poll() fills the entries and changes no table. *)
LEMMA PollIInv ==
  ASSUME IInv, Poll
  PROVE  IInv'
<1>1. pfds' \in Seq(PollEntries)
  <2>1. PICK order \in SlotOrders(Active) :
          pfds' = [k \in DOMAIN order |-> PollEntry(order[k])]
    BY DEF Poll
  <2>2. Cardinality(Active) \in Nat
    BY SlotSets, FS_Subset, FS_CardinalityType DEF Active
  <2>3. order \in [1 .. Cardinality(Active) -> Active]
    BY DEF SlotOrders
  <2>4. ASSUME NEW s \in Active PROVE PollEntry(s) \in PollEntries
    <3>1. clients[s].pid \in Pids \cup {NoPid}
      BY DEF IInv
    <3>2. QED
      BY <3>1, Zenon DEF PollEntry, PollEntries
  <2>5. pfds' \in [1 .. Cardinality(Active) -> PollEntries]
    BY <2>1, <2>3, <2>4
  <2>6. QED
    BY <2>2, <2>5
<1>2. TypeOK'
  <2>1. PollTypes'
    BY <1>1, Zenon DEF PollTypes, Poll
  <2>2. LoopTypes'
    BY DEF IInv, TypeOK, LoopTypes, Poll
  <2>3. QED
    BY <2>1, <2>2 DEF IInv, TypeOK, Poll, ProcTypes, SockTypes, TabTypes,
                ViewTypes, procVars, sockVars, tabVars, viewVars
<1>3. NewIds
  BY DEF Poll, NewIds, Known, procVars, sockVars
<1>4. /\ focused_window_id' < wm.next_id /\ UNCHANGED tabVars /\ pc # "exit"
      /\ listen_in' => backlog' # <<>>
  BY DEF Poll, IInv, IdsDistinct, sockVars, viewVars
<1>5. QED
  BY <1>2, <1>3, <1>4, QuietStep

(* What the rounds of the client loop leave alone. *)
LEMMA AdvanceTypes ==
  ASSUME IInv, InLoop, Advance, running' \in BOOLEAN
  PROVE  /\ ProcTypes' /\ PollTypes' /\ ViewTypes' /\ LoopTypes'
         /\ backlog' = backlog /\ handles' = handles /\ pc' = pc
         /\ focused_window_id' = focused_window_id
<1>0. Current \in Nat
  BY CurrentActive, SlotSets, Zenon
<1>1. Current + 1 \in Nat
  BY <1>0
<1>2. LoopTypes'
  BY <1>1 DEF IInv, TypeOK, LoopTypes, Advance
<1>3. QED
  BY <1>2 DEF IInv, TypeOK, Advance, ProcTypes, PollTypes, ViewTypes, procVars,
              pollVars, viewVars

(* The client loop passes over a client with nothing to read. *)
LEMMA SkipIInv ==
  ASSUME IInv, SkipClient
  PROVE  IInv'
<1>1. running' \in BOOLEAN
  BY DEF SkipClient, IInv, TypeOK, LoopTypes
<1>2. TypeOK'
  BY <1>1, AdvanceTypes DEF SkipClient, IInv, TypeOK, SockTypes, TabTypes, tabVars
<1>3. NewIds
  BY <1>1, AdvanceTypes DEF SkipClient, NewIds, Known
<1>4. /\ focused_window_id' < wm.next_id /\ UNCHANGED tabVars /\ pc' = "clients"
  BY <1>1, AdvanceTypes DEF SkipClient, IInv, IdsDistinct
<1>5. pc = "clients"
  BY DEF SkipClient
<1>6. QED
  BY <1>2, <1>3, <1>4, <1>5, QuietStep

(* Streams and handles that only lose messages lose ids. *)
LEMMA LessIds ==
  ASSUME IInv, NEW p \in Pids, handles' = handles, down' = down,
         up' = [up EXCEPT ![p] = <<>>]
  PROVE  NewIds /\ up' \in [Pids -> Seq(Requests)]
<1>t. up \in [Pids -> Seq(Requests)]
  BY DEF IInv, TypeOK, SockTypes
<1>1. \A q \in Pids : IdsOf(up'[q]) \subseteq IdsOf(up[q])
  BY <1>t, IdsOfEmpty
<1>2. QED
  BY <1>t, <1>1 DEF NewIds, Known

(* handle_client_disconnect takes a client and its windows away. *)
LEMMA ClientGone ==
  ASSUME IInv, NEW s \in Active, handle_client_disconnect(s),
         ProcTypes', PollTypes', ViewTypes', LoopTypes',
         backlog' = backlog, handles' = handles,
         focused_window_id' = focused_window_id,
         pc = "clients", pc' = "clients"
  PROVE  IInv'
<1>t. /\ clients \in [Slots -> [active: BOOLEAN, pid: Pids \cup {NoPid}]]
      /\ s \in Slots
      /\ clients[s].pid \in Pids
      /\ client_count \in Int
      /\ TableOK(wm)
  BY DEF IInv, TypeOK, TabTypes, Active
<1>h. /\ wm' = DestroySlots(wm, WindowsOfClient(wm, s))
      /\ clients' = [clients EXCEPT ![s].active = FALSE]
      /\ client_count' = client_count - 1
      /\ up' = [up EXCEPT ![clients[s].pid] = <<>>]
      /\ down' = down
  BY DEF handle_client_disconnect
<1>1. /\ clients' \in [Slots -> [active: BOOLEAN, pid: Pids \cup {NoPid}]]
      /\ ~ clients'[s].active
      /\ \A r \in Slots \ {s} : clients'[r] = clients[r]
  BY <1>t, <1>h
<1>2. /\ WindowsOfClient(wm, s) \subseteq Visible(wm)
      /\ TableOK(wm')
      /\ Visible(wm') = Visible(wm) \ WindowsOfClient(wm, s)
      /\ wm'.next_id = wm.next_id
      /\ \A r \in Visible(wm') : wm'.windows[r] = wm.windows[r]
  <2>1. WindowsOfClient(wm, s) \subseteq Visible(wm)
    BY DEF WindowsOfClient
  <2>2. QED
    BY <2>1, <1>t, <1>h, DestroyTable
<1>3. NewIds /\ up' \in [Pids -> Seq(Requests)]
  BY <1>t, <1>h, LessIds
<1>4. TypeOK'
  BY <1>1, <1>2, <1>3, <1>h, <1>t DEF IInv, TypeOK, SockTypes, TabTypes, TableOK
<1>5. Active' = Active \ {s}
  BY <1>1 DEF Active
<1>6. CountsMatch'
  <2>1. IsFiniteSet(Active)
    BY SlotSets, FS_Subset DEF Active
  <2>2. Cardinality(Active') = Cardinality(Active) - 1
    BY <1>5, <2>1, FS_RemoveElement
  <2>3. QED
    BY <1>2, <1>h, <2>2 DEF CountsMatch, IInv, TableOK
<1>7. OwnersConnected'
  <2>1. SUFFICES ASSUME NEW r \in Visible(wm')
                 PROVE  /\ clients'[wm'.windows[r].client_idx].active
                        /\ clients'[wm'.windows[r].client_idx].pid = wm'.windows[r].pid
    BY DEF OwnersConnected
  <2>2. r \in Visible(wm) /\ wm.windows[r].client_idx # s /\ wm'.windows[r] = wm.windows[r]
    BY <1>2 DEF WindowsOfClient
  <2>3. wm.windows[r].client_idx \in Slots
    BY <1>t, <2>2 DEF TableOK, WindowTable, Window, Visible
  <2>4. QED
    BY <1>1, <2>2, <2>3 DEF OwnersConnected, IInv
<1>8. IdsDistinct' /\ IdsPrivate' /\ KnownToOwner'
  <2>1. \A r \in Visible(wm') : OldWindow(r)
    BY <1>2 DEF OldWindow
  <2>2. wm.next_id <= wm'.next_id /\ focused_window_id' < wm'.next_id
    BY <1>2, <1>t DEF TableOK, WindowTable, IInv, IdsDistinct
  <2>3. QED
    BY <1>2, <1>3, <2>1, <2>2, IdsStep
<1>9. \A r \in Active' : clients'[r].pid \in Pids
  BY <1>1, <1>5 DEF IInv, Active
<1>10. QED
  BY <1>2, <1>4, <1>6, <1>7, <1>8, <1>9 DEF IInv

(* The client loop drops a client on POLLHUP. *)
LEMMA DropIInv ==
  ASSUME IInv, DropClient
  PROVE  IInv'
<1>1. running' \in BOOLEAN /\ InLoop /\ Advance /\ pc = "clients"
  BY DEF DropClient, IInv, TypeOK, LoopTypes
<1>2. QED
  BY <1>1, AdvanceTypes, CurrentActive, ClientGone DEF DropClient

(* socket_server_accept fills the first free slot. *)
LEMMA AcceptIInv ==
  ASSUME IInv, socket_server_accept
  PROVE  IInv'
<1>t. /\ clients \in [Slots -> [active: BOOLEAN, pid: Pids \cup {NoPid}]]
      /\ client_count \in Int /\ backlog \in Seq(Pids) /\ TableOK(wm)
      /\ wm \in WindowTable
  BY DEF IInv, TypeOK, TabTypes, SockTypes
<1>u. /\ pc = "accept" /\ pc' = "clients" /\ i' = 0 /\ pfd_idx' = 1
      /\ UNCHANGED <<procVars, wm, pollVars, viewVars, running>>
  BY DEF socket_server_accept
<1>a. accepted' \in Slots \cup {-1}
  <2>1. FreeSlots \subseteq Nat /\ FreeSlots \subseteq Slots
    BY SlotSets DEF FreeSlots
  <2>2. FreeSlots # {} => FirstSlot(FreeSlots) \in Slots
    BY <2>1, FirstSlotIn
  <2>3. QED
    BY <2>2 DEF socket_server_accept
<1>p. ProcTypes' /\ PollTypes' /\ ViewTypes' /\ LoopTypes'
  BY <1>a, <1>u DEF IInv, TypeOK, ProcTypes, PollTypes, ViewTypes, LoopTypes,
              procVars, pollVars, viewVars
<1>f. focused_window_id' < wm'.next_id /\ wm' = wm
  BY <1>u DEF viewVars, IInv, IdsDistinct
<1>b. ASSUME listen_in
      PROVE  Head(backlog) \in Pids /\ Tail(backlog) \in Seq(Pids)
  <2>1. backlog # <<>>
    BY <1>u, <1>b DEF IInv
  <2>2. QED
    BY <1>t, <2>1
<1>1. CASE ~ listen_in /\ UNCHANGED <<up, down, backlog, clients, client_count>>
  <2>1. TypeOK' /\ UNCHANGED tabVars
    BY <1>1, <1>p, <1>u DEF IInv, TypeOK, SockTypes, TabTypes, tabVars
  <2>2. NewIds
    BY <1>1, <1>u DEF NewIds, Known, procVars
  <2>3. QED
    BY <1>u, <1>f, <2>1, <2>2, QuietStep
<1>2. CASE /\ listen_in
           /\ FreeSlots # {}
           /\ backlog' = Tail(backlog)
           /\ clients' = [clients EXCEPT ![FirstSlot(FreeSlots)] =
                             [active |-> TRUE, pid |-> Head(backlog)]]
           /\ client_count' = client_count + 1
           /\ UNCHANGED <<up, down>>
  <2> DEFINE f == FirstSlot(FreeSlots)
  <2>1. f \in FreeSlots
    <3>1. FreeSlots \subseteq Nat
      BY SlotSets DEF FreeSlots
    <3>2. QED
      BY <3>1, <1>2, FirstSlotIn
  <2>2. f \in Slots /\ f \notin Active
    BY <2>1 DEF FreeSlots
  <2> HIDE DEF f
  <2>3. /\ clients' \in [Slots -> [active: BOOLEAN, pid: Pids \cup {NoPid}]]
        /\ clients'[f].active /\ clients'[f].pid \in Pids
        /\ \A r \in Slots \ {f} : clients'[r] = clients[r]
    BY <1>2, <1>b, <1>t, <2>2 DEF f
  <2>4. TypeOK'
    BY <1>2, <1>b, <1>p, <1>t, <1>u, <2>3 DEF IInv, TypeOK, SockTypes, TabTypes
  <2>5. Active' = Active \cup {f}
    BY <2>2, <2>3 DEF Active
  <2>6. CountsMatch'
    <3>1. IsFiniteSet(Active)
      BY SlotSets, FS_Subset DEF Active
    <3>2. Cardinality(Active') = Cardinality(Active) + 1
      BY <2>2, <2>5, <3>1, FS_AddElement
    <3>3. QED
      BY <1>2, <1>f, <1>t, <1>u, <3>2 DEF CountsMatch, IInv
  <2>7. OwnersConnected'
    <3>1. \A s \in Visible(wm) : wm.windows[s].client_idx \in Active
      BY <1>t, <1>u DEF OwnersConnected, IInv, Active, WindowTable, Window, Visible
    <3>2. QED
      BY <1>f, <1>u, <2>2, <2>3, <3>1 DEF OwnersConnected, IInv, Active
  <2>8. NewIds
    BY <1>2, <1>u DEF NewIds, Known, procVars
  <2>9. IdsDistinct' /\ IdsPrivate' /\ KnownToOwner'
    <3>1. \A r \in Visible(wm') : OldWindow(r)
      BY <1>f DEF OldWindow
    <3>2. wm.next_id <= wm'.next_id
      BY <1>t, <1>f DEF WindowTable
    <3>3. QED
      BY <1>f, <1>t, <2>8, <3>1, <3>2, IdsStep
  <2>10. \A r \in Active' : clients'[r].pid \in Pids
    BY <2>3, <2>5 DEF IInv, Active
  <2>11. QED
    BY <1>f, <1>t, <1>u, <2>4, <2>6, <2>7, <2>9, <2>10 DEF IInv
<1>3. CASE /\ listen_in
           /\ FreeSlots = {}
           /\ backlog' = Tail(backlog)
           /\ up' = [up EXCEPT ![Head(backlog)] = <<>>]
           /\ UNCHANGED <<down, clients, client_count>>
  <2>1. NewIds /\ up' \in [Pids -> Seq(Requests)]
    BY <1>3, <1>b, <1>u, LessIds DEF procVars
  <2>2. TypeOK' /\ UNCHANGED tabVars
    BY <1>3, <1>b, <1>p, <1>u, <2>1 DEF IInv, TypeOK, SockTypes, TabTypes, tabVars
  <2>3. QED
    BY <1>u, <1>f, <2>1, <2>2, QuietStep
<1>4. QED
  BY <1>1, <1>2, <1>3 DEF socket_server_accept

(* A window that changed only its place or its pending commit is the old one. *)
LEMMA SameOldWindows ==
  ASSUME TableOK(wm), SameWindows(wm, wm')
  PROVE  /\ TableOK(wm') /\ wm'.next_id = wm.next_id
         /\ \A s \in Visible(wm') : OldWindow(s)
<1>1. TableOK(wm') /\ Visible(wm') = Visible(wm)
  BY SameTable
<1>2. QED
  BY <1>1 DEF SameWindows, OldWindow, Visible

(* handle_client_message, each request and the failures. *)
LEMMA ServeIInv ==
  ASSUME IInv, NEW sig, ServeClient(sig)
  PROVE  IInv'
<1> DEFINE s == Current
           p == clients[s].pid
<1>u. InLoop /\ Advance /\ pc = "clients" /\ handle_client_message(s, sig)
  BY DEF ServeClient
<1>s. s \in Active /\ s \in Slots
  BY <1>u, CurrentActive
<1>p. p \in Pids /\ clients[s].active
  BY <1>s DEF IInv, Active
<1>t. /\ TypeOK /\ up \in [Pids -> Seq(Requests)] /\ down \in [Pids -> Seq(Events)]
      /\ running \in BOOLEAN /\ TableOK(wm) /\ wm.next_id \in Nat /\ wm \in WindowTable
  BY DEF IInv, TypeOK, SockTypes, LoopTypes, TableOK, WindowTable
<1> HIDE DEF s
<1>1. CASE RecvFails(s, sig)
  <2>1. running' \in BOOLEAN
    BY <1>1, <1>t, Zenon DEF RecvFails
  <2>2. handle_client_disconnect(s)
    BY <1>1 DEF RecvFails
  <2>3. QED
    BY <1>s, <1>u, <2>1, <2>2, AdvanceTypes, ClientGone
<1>2. CASE /\ up[p] # <<>>
           /\ up' = [up EXCEPT ![p] = Tail(@)]
           /\ UNCHANGED <<clients, client_count>>
           /\ \/ /\ Head(up[p]).type = "MSG_CREATE_WINDOW"
                 /\ HandleCreate(s, p, sig)
              \/ ~ sig /\ HandleUpdate(Head(up[p]))
  <2>1. up[p] \in Seq(Requests) /\ Head(up[p]) \in Requests
    BY <1>2, <1>p, <1>t
  <2>2. up' \in [Pids -> Seq(Requests)]
    BY <1>2, <1>p, <1>t, <2>1
  <2>3. \A q \in Pids : IdsOf(up'[q]) \subseteq IdsOf(up[q])
    <3>1. up'[p] = Tail(up[p])
      BY <1>2, <1>p, <1>t
    <3>2. \A q \in Pids : q # p => up'[q] = up[q]
      BY <1>2, <1>p, <1>t
    <3>3. IdsOf(up'[p]) \subseteq IdsOf(up[p])
      BY <1>2, <2>1, <3>1, IdsOfTail
    <3>4. QED
      BY <3>2, <3>3
  (* Enough: the table is sound, the windows old or the new one of p, and  *)
  (* the message sent, if any, grants p the new id.                        *)
  <2>4. ASSUME down' \in [Pids -> Seq(Events)], running' \in BOOLEAN,
               TableOK(wm'), wm.next_id <= wm'.next_id,
               \A r \in Visible(wm') :
                 \/ OldWindow(r)
                 \/ /\ wm'.windows[r].id = wm.next_id
                    /\ wm'.windows[r].pid = p
                    /\ wm'.windows[r].client_idx = s,
               \A q \in Pids : \A id \in IdsOf(down'[q]) :
                 \/ id \in IdsOf(down[q])
                 \/ q = p /\ id = wm.next_id /\ wm.next_id < wm'.next_id
        PROVE  IInv'
    <3>1. handles' = handles /\ pc' = pc /\ focused_window_id' = focused_window_id
          /\ backlog' = backlog /\ ProcTypes' /\ PollTypes' /\ ViewTypes' /\ LoopTypes'
      BY <1>u, <2>4, AdvanceTypes
    <3>n. wm'.next_id \in Nat /\ wm' \in WindowTable
      BY <2>4 DEF TableOK, WindowTable
    <3>2. TypeOK'
      BY <1>2, <1>t, <2>2, <2>4, <3>1, <3>n DEF TypeOK, SockTypes, TabTypes
    <3>3. \A q \in Pids : wm.next_id \notin Known(q)
      BY <1>t, KnownNat DEF IInv, IdsDistinct
    <3>4. \A q \in Pids : \A id \in Known(q)' :
            id \in Known(q) \/ (q = p /\ id = wm.next_id /\ wm.next_id < wm'.next_id)
      BY <2>3, <2>4, <3>1 DEF Known
    <3>5. ASSUME wm.next_id < wm'.next_id
          PROVE  Granted(p, wm.next_id)
      <4>1. \A q \in Pids \ {p} : wm.next_id \notin Known(q)'
        BY <3>3, <3>4
      <4>2. \A r \in Visible(wm') : OldWindow(r) => wm'.windows[r].id # wm.next_id
        BY <1>t DEF OldWindow, TableOK
      <4>3. QED
        BY <3>3, <3>5, <4>1, <4>2, <2>4 DEF Granted
    <3>6. NewIds
      BY <3>4, <3>5 DEF NewIds
    <3>7. focused_window_id' < wm'.next_id
      BY <1>t, <2>4, <3>1, <3>n DEF IInv, IdsDistinct, TypeOK, ViewTypes
    <3>8. \A r \in Visible(wm') :
           \/ OldWindow(r)
           \/ /\ NewWindow(r)
              /\ clients[wm'.windows[r].client_idx].active
              /\ clients[wm'.windows[r].client_idx].pid = wm'.windows[r].pid
      BY <1>p, <2>4, <3>3 DEF NewWindow
    <3>9. QED
      BY <1>2, <1>u, <2>4, <3>1, <3>2, <3>6, <3>7, <3>8, TableStep
  <2>5. ASSUME NEW m \in Events, Send(p, <<m>>, sig), m.id = 0 \/ m.id = wm.next_id
        PROVE  /\ down' \in [Pids -> Seq(Events)] /\ running' \in BOOLEAN
               /\ \A q \in Pids : \A id \in IdsOf(down'[q]) :
                    id \in IdsOf(down[q]) \/ (q = p /\ id = m.id /\ id # 0)
    <3>1. <<m>> \in Seq(Events) /\ IdsOf(<<m>>) \subseteq {m.id} \ {0}
      BY DEF IdsOf
    <3>2. QED
      BY <1>p, <1>t, <2>5, <3>1, SendIds
  <2>e. \A id \in Nat, type \in {"MSG_WINDOW_CREATED", "MSG_WINDOW_CLOSE"} :
          Evt(type, id) \in Events /\ Evt(type, id).id = id
    BY DEF Evt, Events
  <2>6. CASE HandleCreate(s, p, sig)
    <3>1. CASE /\ FreeWindows(wm) = {}
               /\ Send(p, <<Evt("MSG_WINDOW_CLOSE", 0)>>, sig)
               /\ UNCHANGED wm
      <4>1. TableOK(wm') /\ wm.next_id <= wm'.next_id /\ \A r \in Visible(wm') : OldWindow(r)
        BY <1>t, <3>1 DEF OldWindow
      <4>2. QED
        BY <2>4, <2>5, <2>e, <3>1, <4>1
    <3>2. CASE /\ FreeWindows(wm) # {}
               /\ wm' = window_create(wm, s, p)
               /\ Send(p, <<Evt("MSG_WINDOW_CREATED", wm.next_id)>>, sig)
      <4> DEFINE f == FirstSlot(FreeWindows(wm))
      <4>1. /\ TableOK(wm') /\ wm'.next_id = wm.next_id + 1
            /\ Visible(wm') = Visible(wm) \cup {f}
            /\ wm'.windows[f].id = wm.next_id /\ wm'.windows[f].pid = p
            /\ wm'.windows[f].client_idx = s
            /\ \A r \in Visible(wm) : wm'.windows[r] = wm.windows[r]
        BY <1>p, <1>s, <1>t, <3>2, CreateTable
      <4> HIDE DEF f
      <4>2. wm.next_id < wm'.next_id /\ wm.next_id <= wm'.next_id
        BY <1>t, <4>1
      <4>3. \A r \in Visible(wm') :
                 \/ OldWindow(r)
                 \/ /\ wm'.windows[r].id = wm.next_id
                    /\ wm'.windows[r].pid = p
                    /\ wm'.windows[r].client_idx = s
        BY <4>1 DEF OldWindow
      <4>4. /\ Evt("MSG_WINDOW_CREATED", wm.next_id) \in Events
            /\ Evt("MSG_WINDOW_CREATED", wm.next_id).id = wm.next_id
        BY <1>t, <2>e
      <4>5. QED
        BY <2>4, <2>5, <3>2, <4>1, <4>2, <4>3, <4>4
    <3>3. CASE /\ FreeWindows(wm) # {}
               /\ wm' = window_create_failed(wm)
               /\ Send(p, <<Evt("MSG_WINDOW_CLOSE", 0)>>, sig)
      <4>1. TableOK(wm') /\ wm'.next_id = wm.next_id + 1 /\ wm'.windows = wm.windows
            /\ Visible(wm') = Visible(wm)
        BY <1>t, <3>3, CreateFailedTable
      <4>2. wm.next_id <= wm'.next_id /\ \A r \in Visible(wm') : OldWindow(r)
        BY <1>t, <4>1 DEF OldWindow
      <4>3. /\ Evt("MSG_WINDOW_CLOSE", 0) \in Events
            /\ Evt("MSG_WINDOW_CLOSE", 0).id = 0
        BY <2>e
      <4>4. QED
        BY <2>4, <2>5, <3>3, <4>1, <4>2, <4>3
    <3>4. QED
      BY <2>6, <3>1, <3>2, <3>3 DEF HandleCreate
  <2>7. CASE HandleUpdate(Head(up[p]))
    <3> DEFINE msg == Head(up[p])
    <3>1. down' = down /\ running' = running
      BY <2>7 DEF HandleUpdate
    <3>2. msg.x \in Places
      BY <2>1 DEF Requests
    <3>3. TableOK(wm') /\ wm'.next_id = wm.next_id /\ \A r \in Visible(wm') : OldWindow(r)
      <4>1. CASE wm' = window_mark_committed(wm, msg.id)
        BY <1>t, <4>1, CommitTable, SameOldWindows
      <4>2. CASE wm' = window_move(wm, msg.id, msg.x)
        BY <1>t, <3>2, <4>2, MoveTable, SameOldWindows
      <4>3. CASE wm' = window_destroy(wm, msg.id)
        BY <1>t, <4>3, DestroyIdTable DEF OldWindow
      <4>4. QED
        BY <2>7, <4>1, <4>2, <4>3 DEF HandleUpdate
    <3>4. wm.next_id <= wm'.next_id
      BY <1>t, <3>3
    <3>5. QED
      BY <1>t, <2>4, <3>1, <3>3, <3>4
  <2>8. QED
    BY <1>2, <2>6, <2>7
<1>3. QED
  BY <1>1, <1>2, <1>u DEF handle_client_message

(* Input is dispatched and the focus recomputed. *)
LEMMA InputIInv ==
  ASSUME IInv, InputStep
  PROVE  IInv'
<1>t. /\ input \in [has_key_event: BOOLEAN, has_mouse_event: BOOLEAN,
                     mouse: Places, last_button_pressed: BOOLEAN,
                     want_exit: BOOLEAN]
      /\ inq \in Seq(InputEvents)
      /\ TableOK(wm)
  BY DEF IInv, TypeOK, ViewTypes, ProcTypes
<1>1. Pointer \in Places
  <2>1. CASE "move" \notin Kinds
    BY <1>t, <2>1 DEF Pointer
  <2>2. CASE "move" \in Kinds
    <3> DEFINE ks == {k \in DOMAIN inq : inq[k].kind \in {"move"}}
    <3>1. ks # {} /\ ks \subseteq 0 .. Len(inq) /\ Len(inq) \in Nat
      BY <1>t, <2>2 DEF Kinds
    <3>2. \E k \in ks : \A l \in ks : l <= k
      BY <3>1, GreatestExists
    <3>3. \E k \in ks : LastOf({"move"}) = inq[k]
      BY <3>2, Zenon DEF LastOf
    <3>4. \A k \in ks : inq[k] \in InputEvents /\ inq[k].kind = "move"
      BY <1>t
    <3>5. \A e \in InputEvents : e.kind = "move" => e.x \in Places
      BY DEF InputEvents
    <3>6. QED
      BY <2>2, <3>3, <3>4, <3>5 DEF Pointer
  <2>3. QED
    BY <2>1, <2>2
<1>2. Dispatched \in [has_key_event: BOOLEAN, has_mouse_event: BOOLEAN,
                      mouse: Places, last_button_pressed: BOOLEAN,
                      want_exit: BOOLEAN]
  BY <1>1, <1>t, Zenon DEF Dispatched
<1>3. \A place : FocusAt(place) \in Nat \cup {-1} /\ FocusAt(place) < wm.next_id
  <2>1. SUFFICES ASSUME NEW place
                 PROVE FocusAt(place) \in Nat \cup {-1} /\ FocusAt(place) < wm.next_id
    OBVIOUS
  <2>2. wm.next_id \in Nat
    BY <1>t DEF TableOK, WindowTable
  <2>3. CASE WindowsAt(wm, place) = {}
    BY <2>2, <2>3 DEF FocusAt
  <2>4. CASE WindowsAt(wm, place) # {}
    <3>1. wm.windows[window_find_at(wm, place)].id \in 1 .. wm.next_id - 1
      BY <1>t, <2>4, FindAtTable DEF TableOK
    <3>2. QED
      BY <2>2, <2>4, <3>1 DEF FocusAt
  <2>5. QED
    BY <2>3, <2>4
<1>4. ASSUME NEW in \in [has_key_event: BOOLEAN, has_mouse_event: BOOLEAN,
                      mouse: Places, last_button_pressed: BOOLEAN,
                      want_exit: BOOLEAN],
             compositor_route_input(in)
      PROVE  ViewTypes' /\ focused_window_id' < wm.next_id
  <2>1. focused_window_id' \in Nat \cup {-1} /\ focused_window_id' < wm.next_id
    BY <1>3, <1>4 DEF compositor_route_input, IInv, IdsDistinct, TypeOK, ViewTypes
  <2>2. input' = in \/ input' = [in EXCEPT !.has_mouse_event = FALSE]
    BY <1>4, Zenon DEF compositor_route_input
  <2>3. [in EXCEPT !.has_mouse_event = FALSE] \in
           [has_key_event: BOOLEAN, has_mouse_event: BOOLEAN, mouse: Places,
            last_button_pressed: BOOLEAN, want_exit: BOOLEAN]
    OBVIOUS
  <2>4. QED
    BY <2>1, <2>2, <2>3 DEF ViewTypes
<1>5. ViewTypes' /\ focused_window_id' < wm.next_id
  BY <1>2, <1>4, <1>t, Zenon DEF InputStep
<1>6. TypeOK'
  <2>1. ProcTypes'
    <3>0. <<>> \in Seq(InputEvents)
      OBVIOUS
    <3>1. inq' \in Seq(InputEvents)
      BY <1>t, <3>0, Zenon DEF InputStep
    <3>2. QED
      BY <3>1 DEF IInv, TypeOK, ProcTypes, InputStep
  <2>2. PollTypes'
    <3>1. <<>> \in Seq(PollEntries)
      OBVIOUS
    <3>2. QED
      BY <3>1, Zenon DEF PollTypes, InputStep, ForgetPoll
  <2>3. LoopTypes'
    BY DEF IInv, TypeOK, LoopTypes, InputStep, ForgetPoll
  <2>4. QED
    BY <1>5, <2>1, <2>2, <2>3
       DEF IInv, TypeOK, InputStep, SockTypes, TabTypes, sockVars, tabVars
<1>7. NewIds
  BY DEF InputStep, NewIds, Known, sockVars
<1>8. UNCHANGED tabVars /\ pc = "clients" /\ pc' = "key"
  BY DEF InputStep
<1>9. QED
  BY <1>5, <1>6, <1>7, <1>8, QuietStep

(* What broadcast_input_events sends names a window its receiver owns. *)
LEMMA SendToWindowIds ==
  ASSUME IInv, pc # "exit", UNCHANGED <<handles, up, tabVars>>,
         NEW w \in Visible(wm), NEW types \in Seq({"MSG_KEY_EVENT",
           "MSG_MOUSE_MOVE", "MSG_MOUSE_BUTTON"}),
         NEW sig, SendToWindow(w, types, sig)
  PROVE  down' \in [Pids -> Seq(Events)] /\ running' \in BOOLEAN /\ NewIds
<1> DEFINE win == wm.windows[w]
           p == clients[win.client_idx].pid
           msgs == [k \in DOMAIN types |-> Evt(types[k], win.id)]
<1>t. /\ TypeOK /\ down \in [Pids -> Seq(Events)] /\ running \in BOOLEAN
      /\ TableOK(wm) /\ wm.next_id \in Nat
  BY DEF IInv, TypeOK, SockTypes, LoopTypes, TableOK, WindowTable
<1>w. win.id \in 1 .. wm.next_id - 1 /\ win.client_idx \in Slots
  BY <1>t DEF TableOK, WindowTable, Window, Visible
<1>1. clients[win.client_idx].active /\ p = win.pid
  BY DEF IInv, OwnersConnected
<1>2. p \in Pids
  BY <1>1, <1>w DEF IInv, Active
<1>3. Send(p, msgs, sig)
  BY <1>1 DEF SendToWindow
<1>4. msgs \in Seq(Events) /\ IdsOf(msgs) \subseteq {win.id}
  <2>1. \A k \in DOMAIN types : types[k] \in {"MSG_KEY_EVENT",
           "MSG_MOUSE_MOVE", "MSG_MOUSE_BUTTON"}
    OBVIOUS
  <2>2. \A k \in DOMAIN types : Evt(types[k], win.id) \in Events
                                /\ Evt(types[k], win.id).id = win.id
    BY <1>t, <1>w, <2>1 DEF Evt, Events
  <2>3. DOMAIN types = 1 .. Len(types) /\ Len(types) \in Nat
    OBVIOUS
  <2>4. msgs \in Seq(Events)
    BY <2>2, <2>3
  <2>5. QED
    BY <2>2, <2>4 DEF IdsOf
<1> HIDE DEF msgs, p
<1>5. /\ down' \in [Pids -> Seq(Events)] /\ running' \in BOOLEAN
      /\ \A q \in Pids : IdsOf(down'[q]) \subseteq
           IdsOf(down[q]) \cup (IF q = p THEN IdsOf(msgs) ELSE {})
  BY <1>2, <1>3, <1>4, <1>t, SendIds
<1>6. \A q \in Pids : \A id \in Known(q)' :
        id \in Known(q) \/ (q = p /\ id = win.id)
  BY <1>4, <1>5 DEF Known
<1>7. Granted(p, win.id)
  <2>1. \A q \in Pids \ {p} : win.id \notin Known(q)
    BY <1>1 DEF IInv, KnownToOwner, p
  <2>2. \A q \in Pids \ {p} : win.id \notin Known(q)'
    BY <1>6, <2>1
  <2>3. wm' = wm
    BY DEF tabVars
  <2>4. \A s \in Visible(wm) : wm.windows[s].id = win.id => wm.windows[s].pid = p
    BY <1>1, <1>t DEF TableOK
  <2>5. win.id < wm.next_id
    BY <1>t, <1>w
  <2>6. QED
    BY <2>1, <2>2, <2>3, <2>4, <2>5 DEF Granted
<1>8. QED
  BY <1>5, <1>6, <1>7 DEF NewIds

(* broadcast_input_events sends the key. *)
LEMMA KeyIInv ==
  ASSUME IInv, NEW sig, broadcast_key(sig)
  PROVE  IInv'
<1>u. /\ pc = "key" /\ pc' = "mouse" /\ UNCHANGED <<handles, up, tabVars>>
      /\ focused_window_id' < wm.next_id
  BY DEF broadcast_key, procVars, IInv, IdsDistinct
<1>1. down' \in [Pids -> Seq(Events)] /\ running' \in BOOLEAN /\ NewIds
  <2>1. CASE input.has_key_event /\ window_known(wm, focused_window_id)
    <3>1. window_find(wm, focused_window_id) \in Visible(wm)
      BY <2>1, FindTable
    <3>2. <<"MSG_KEY_EVENT">> \in
            Seq({"MSG_KEY_EVENT", "MSG_MOUSE_MOVE", "MSG_MOUSE_BUTTON"})
      OBVIOUS
    <3>3. SendToWindow(window_find(wm, focused_window_id), <<"MSG_KEY_EVENT">>, sig)
      BY <2>1, Zenon DEF broadcast_key
    <3>4. QED
      BY <1>u, <3>1, <3>2, <3>3, SendToWindowIds
  <2>2. CASE ~ (input.has_key_event /\ window_known(wm, focused_window_id))
    <3>1. down' = down /\ running' = running
      BY <2>2, Zenon DEF broadcast_key
    <3>2. QED
      BY <1>u, <3>1 DEF IInv, TypeOK, SockTypes, LoopTypes, NewIds, Known
  <2>3. QED
    BY <2>1, <2>2
<1>2. TypeOK'
  <2>1. ViewTypes'
    <3>1. input' = [input EXCEPT !.has_key_event = FALSE]
          /\ focused_window_id' = focused_window_id
      BY DEF broadcast_key
    <3>2. QED
      BY <3>1 DEF IInv, TypeOK, ViewTypes
  <2>2. LoopTypes'
    BY <1>1, <1>u DEF IInv, TypeOK, LoopTypes, broadcast_key
  <2>3. QED
    BY <1>1, <2>1, <2>2 DEF IInv, TypeOK, broadcast_key, ProcTypes, SockTypes,
       TabTypes, PollTypes, procVars, tabVars, pollVars
<1>3. QED
  BY <1>1, <1>2, <1>u, QuietStep

(* broadcast_input_events sends the pointer events. *)
LEMMA MouseIInv ==
  ASSUME IInv, NEW sig, broadcast_mouse(sig)
  PROVE  IInv'
<1>u. /\ pc = "mouse" /\ pc' = "render" /\ UNCHANGED <<handles, up, tabVars>>
      /\ focused_window_id' < wm.next_id
  BY DEF broadcast_mouse, procVars, IInv, IdsDistinct
<1>1. down' \in [Pids -> Seq(Events)] /\ running' \in BOOLEAN /\ NewIds
  <2>1. CASE input.has_mouse_event /\ WindowsAt(wm, input.mouse) # {}
    <3>1. window_find_at(wm, input.mouse) \in Visible(wm)
      BY <2>1, FindAtTable
    <3> DEFINE types == IF input.last_button_pressed
                        THEN <<"MSG_MOUSE_MOVE", "MSG_MOUSE_BUTTON">>
                        ELSE <<"MSG_MOUSE_MOVE">>
    <3>2. types \in Seq({"MSG_KEY_EVENT", "MSG_MOUSE_MOVE", "MSG_MOUSE_BUTTON"})
      <4>1. <<"MSG_MOUSE_MOVE", "MSG_MOUSE_BUTTON">> \in
              Seq({"MSG_KEY_EVENT", "MSG_MOUSE_MOVE", "MSG_MOUSE_BUTTON"})
        OBVIOUS
      <4>2. <<"MSG_MOUSE_MOVE">> \in
              Seq({"MSG_KEY_EVENT", "MSG_MOUSE_MOVE", "MSG_MOUSE_BUTTON"})
        OBVIOUS
      <4>3. QED
        BY <4>1, <4>2, Zenon
    <3>3. SendToWindow(window_find_at(wm, input.mouse), types, sig)
      BY <2>1, Zenon DEF broadcast_mouse
    <3> HIDE DEF types
    <3>4. QED
      BY <1>u, <3>1, <3>2, <3>3, SendToWindowIds
  <2>2. CASE ~ (input.has_mouse_event /\ WindowsAt(wm, input.mouse) # {})
    <3>1. down' = down /\ running' = running
      BY <2>2, Zenon DEF broadcast_mouse
    <3>2. QED
      BY <1>u, <3>1 DEF IInv, TypeOK, SockTypes, LoopTypes, NewIds, Known
  <2>3. QED
    BY <2>1, <2>2
<1>2. TypeOK'
  <2>1. ViewTypes'
    <3>1. input' = [input EXCEPT !.has_mouse_event = FALSE]
          /\ focused_window_id' = focused_window_id
      BY DEF broadcast_mouse
    <3>2. QED
      BY <3>1 DEF IInv, TypeOK, ViewTypes
  <2>2. LoopTypes'
    BY <1>1, <1>u DEF IInv, TypeOK, LoopTypes, broadcast_mouse
  <2>3. QED
    BY <1>1, <2>1, <2>2 DEF IInv, TypeOK, broadcast_mouse, ProcTypes, SockTypes,
       TabTypes, PollTypes, procVars, tabVars, pollVars
<1>3. QED
  BY <1>1, <1>2, <1>u, QuietStep

(* compositor_render clears pending commits. *)
LEMMA RenderIInv ==
  ASSUME IInv, compositor_render
  PROVE  IInv'
<1>t. TableOK(wm) /\ wm \in WindowTable /\ wm.windows \in [WSlots -> Window]
  BY DEF IInv, TableOK, WindowTable
<1>1. SameWindows(wm, wm')
  <2>1. CASE wm' = wm
    BY <1>t, <2>1 DEF SameWindows
  <2>2. CASE wm' = Composited(wm)
    <3> DEFINE ws == [s \in WSlots |-> IF wm.windows[s].visible
                       THEN [wm.windows[s] EXCEPT !.has_pending_commit = FALSE]
                       ELSE wm.windows[s]]
    <3>1. ASSUME NEW win \in Window
          PROVE  LET v == [win EXCEPT !.has_pending_commit = FALSE]
                 IN  /\ v \in Window
                     /\ v.visible = win.visible /\ v.id = win.id
                     /\ v.pid = win.pid /\ v.client_idx = win.client_idx
      BY DEF Window
    <3>2. /\ ws \in [WSlots -> Window]
          /\ \A s \in WSlots :
               /\ ws[s].visible = wm.windows[s].visible
               /\ ws[s].id = wm.windows[s].id
               /\ ws[s].pid = wm.windows[s].pid
               /\ ws[s].client_idx = wm.windows[s].client_idx
      BY <1>t, <3>1, Zenon
    <3> HIDE DEF ws
    <3>3. wm' = [wm EXCEPT !.windows = ws]
      BY <2>2 DEF Composited, ws
    <3>4. /\ wm' \in WindowTable /\ wm'.windows = ws
          /\ wm'.window_count = wm.window_count /\ wm'.next_id = wm.next_id
      BY <1>t, <3>2, <3>3 DEF WindowTable
    <3>5. QED
      BY <3>2, <3>4 DEF SameWindows
  <2>3. QED
    BY <2>1, <2>2 DEF compositor_render
<1>2. TableOK(wm') /\ wm'.next_id = wm.next_id /\ \A s \in Visible(wm') : OldWindow(s)
  BY <1>1, <1>t, SameOldWindows
<1>3. TypeOK'
  <2>1. running' \in BOOLEAN
    BY Zenon DEF compositor_render, KeepRunning
  <2>2. TabTypes' /\ LoopTypes'
    BY <1>2, <2>1 DEF IInv, TypeOK, TabTypes, LoopTypes, compositor_render, TableOK
  <2>3. QED
    BY <2>2 DEF IInv, TypeOK, compositor_render, ProcTypes, SockTypes, PollTypes,
                ViewTypes, procVars, sockVars, pollVars
<1>4. NewIds
  BY DEF compositor_render, NewIds, Known, procVars, sockVars
<1>5. /\ wm.next_id <= wm'.next_id /\ focused_window_id' < wm'.next_id
      /\ UNCHANGED <<clients, client_count>> /\ pc = "render" /\ pc' = "poll"
  BY <1>2, <1>t DEF compositor_render, IInv, IdsDistinct, WindowTable
<1>6. QED
  BY <1>2, <1>3, <1>4, <1>5, TableStep

(* The server leaves its loop and closes its clients. *)
LEMMA ShutdownIInv ==
  ASSUME IInv, Shutdown
  PROVE  IInv'
<1>t. /\ clients \in [Slots -> [active: BOOLEAN, pid: Pids \cup {NoPid}]]
      /\ TableOK(wm) /\ wm' = wm /\ pc' = "exit" /\ wm.next_id \in Nat
  BY DEF IInv, TypeOK, TabTypes, Shutdown, TableOK, WindowTable
<1>1. /\ clients' \in [Slots -> [active: BOOLEAN, pid: Pids \cup {NoPid}]]
      /\ \A s \in Slots : ~ clients'[s].active
  BY <1>t DEF Shutdown
<1>2. TypeOK'
  <2>1. SockTypes'
    <3>1. up' \in [Pids -> Seq(Requests)] /\ backlog' \in Seq(Pids)
      BY DEF Shutdown
    <3>2. QED
      BY <3>1 DEF Shutdown, SockTypes, IInv, TypeOK
  <2>2. TabTypes' /\ LoopTypes'
    BY <1>1 DEF IInv, TypeOK, TabTypes, LoopTypes, Shutdown
  <2>3. QED
    BY <2>1, <2>2 DEF IInv, TypeOK, Shutdown, ProcTypes, PollTypes, ViewTypes,
                      procVars, pollVars, viewVars
<1>3. NewIds
  <2>1. \A p \in Pids : IdsOf(up'[p]) = {}
    BY IdsOfEmpty DEF Shutdown
  <2>2. QED
    BY <2>1 DEF Shutdown, NewIds, Known, procVars
<1>4. IdsDistinct' /\ IdsPrivate' /\ KnownToOwner'
  <2>1. \A r \in Visible(wm') : OldWindow(r)
    BY <1>t DEF OldWindow
  <2>2. wm.next_id <= wm'.next_id /\ focused_window_id' < wm'.next_id
    BY <1>t DEF Shutdown, viewVars, IInv, IdsDistinct
  <2>3. QED
    BY <1>t, <1>3, <2>1, <2>2, IdsStep
<1>5. Active' = {}
  BY <1>1 DEF Active
<1>6. QED
  BY <1>2, <1>4, <1>5, <1>t DEF IInv, CountsMatch, OwnersConnected

(* A step that changes nothing. *)
LEMMA StutterIInv ==
  ASSUME IInv, UNCHANGED vars
  PROVE  IInv'
<1>1. TypeOK' /\ NewIds
  BY DEF vars, procVars, sockVars, tabVars, pollVars, viewVars, loopVars, IInv,
         TypeOK, ProcTypes, SockTypes, TabTypes, PollTypes, ViewTypes, LoopTypes,
         NewIds, Known
<1>2. /\ focused_window_id' < wm.next_id /\ UNCHANGED tabVars /\ pc' = pc
      /\ listen_in' = listen_in /\ backlog' = backlog
  BY DEF vars, sockVars, pollVars, viewVars, loopVars, IInv, IdsDistinct
<1>3. QED
  BY <1>1, <1>2, QuietStep DEF IInv

(* One step of anybody preserves the inductive invariant. *)
LEMMA NextIInv == IInv /\ [Next]_vars => IInv'
<1> SUFFICES ASSUME IInv, [Next]_vars PROVE IInv'
  OBVIOUS
<1>1. CASE Server
  BY <1>1, PollIInv, AcceptIInv, SkipIInv, DropIInv, ServeIInv, InputIInv,
     KeyIInv, MouseIInv, RenderIInv, ShutdownIInv DEF Server
<1>2. CASE Interrupted
  BY <1>2, ServeIInv, KeyIInv DEF Interrupted
<1>3. CASE \E p \in Pids : Client(p)
  BY <1>3, ClientIInv
<1>4. CASE \E e \in {v \in InputEvents : v.kind \in InputKinds} : UserInput(e)
  BY <1>4, UserInputIInv
<1>5. CASE \E sig \in Signals : signal_handler(sig)
  BY <1>5, SignalIInv
<1>6. CASE Exited \/ UNCHANGED vars
  BY <1>6, StutterIInv DEF Exited
<1>7. QED
  BY <1>1, <1>2, <1>3, <1>4, <1>5, <1>6 DEF Next
-----------------------------------------------------------------------------
(* IInv holds of every state the display server and its clients reach,     *)
(* whatever the number of clients, slots, windows, places and buffers:     *)
(* main.c, window.c and socket.c keep their tables and ids consistent.     *)
THEOREM Invariance == Spec => []IInv
<1>1. QED
  BY InitIInv, NextIInv, PTL DEF Spec

(* The types of the C declarations hold throughout: the pointer stays on   *)
(* the screen and no table is indexed outside its slots.                   *)
THEOREM TypesCorrect == Spec => []TypeOK
<1>1. IInv => TypeOK
  BY DEF IInv
<1>2. QED
  BY <1>1, Invariance, PTL

(* client_count and window_count equal what the tables hold as long as the *)
(* event loop of main.c runs.                                              *)
THEOREM CountsCorrect == Spec => []CountsMatch
<1>1. IInv => CountsMatch
  BY DEF IInv
<1>2. QED
  BY <1>1, Invariance, PTL

(* Slots of the client table are reused, but no window outlives the client *)
(* handle_client_disconnect takes it away with.                            *)
THEOREM OwnersCorrect == Spec => []OwnersConnected
<1>1. IInv => OwnersConnected
  BY DEF IInv
<1>2. QED
  BY <1>1, Invariance, PTL

(* window_create never gives one id to two windows, and neither the focus  *)
(* nor a message names a window that is not created yet.                   *)
THEOREM IdsCorrect == Spec => []IdsDistinct
<1>1. IInv => IdsDistinct
  BY DEF IInv
<1>2. QED
  BY <1>1, Invariance, PTL

(* No window id reaches two clients, in replies, events or requests.       *)
THEOREM PrivacyOfIds == Spec => []IdsPrivate
<1>1. IInv => IdsPrivate
  BY DEF IInv
<1>2. QED
  BY <1>1, Invariance, PTL
-----------------------------------------------------------------------------
(* What no step does.                                                      *)

(* The windows that go with their client are that client's. *)
LEMMA GoneChanges ==
  ASSUME IInv, pc = "clients", handle_client_disconnect(Current)
  PROVE  ChangedByOwner
<1>1. \A s \in Visible(wm) \ WindowsOfClient(wm, Current) :
        wm'.windows[s] = wm.windows[s]
  BY DEF handle_client_disconnect, DestroySlots, Visible
<1>2. \A s \in WindowsOfClient(wm, Current) : clients[Current].pid = wm.windows[s].pid
  BY DEF WindowsOfClient, IInv, OwnersConnected
<1>3. QED
  BY <1>1, <1>2 DEF ChangedByOwner

(* A request changes the window it names, which only its sender knows. *)
LEMMA ServeChanges ==
  ASSUME IInv, NEW sig, ServeClient(sig)
  PROVE  ChangedByOwner
<1> DEFINE c == Current
           p == clients[c].pid
           msg == Head(up[p])
<1>u. InLoop /\ pc = "clients" /\ handle_client_message(c, sig)
  BY DEF ServeClient
<1>p. p \in Pids /\ c \in Slots
  BY <1>u, CurrentActive DEF IInv
<1>t. /\ TableOK(wm) /\ wm.windows \in [WSlots -> Window]
      /\ up \in [Pids -> Seq(Requests)]
  BY DEF IInv, TableOK, WindowTable, TypeOK, SockTypes
<1>1. CASE RecvFails(c, sig)
  BY <1>1, <1>u, GoneChanges DEF RecvFails
<1>2. CASE HandleCreate(c, p, sig)
  <2>1. \A s \in Visible(wm) : wm'.windows[s] = wm.windows[s]
    <3>1. CASE wm' = wm
      BY <3>1
    <3>2. CASE FreeWindows(wm) # {} /\ wm' = window_create(wm, c, p)
      BY <1>p, <1>t, <3>2, CreateTable
    <3>3. CASE wm' = window_create_failed(wm)
      BY <1>t, <3>3, CreateFailedTable
    <3>4. QED
      BY <1>2, <3>1, <3>2, <3>3, Zenon DEF HandleCreate
  <2>2. QED
    BY <2>1 DEF ChangedByOwner
<1>3. CASE up[p] # <<>> /\ HandleUpdate(msg)
  <2> DEFINE w == window_find(wm, msg.id)
  <2>1. \A s \in Visible(wm) : wm'.windows[s] # wm.windows[s] =>
          window_known(wm, msg.id) /\ s = w
    <3>1. CASE wm' = window_mark_committed(wm, msg.id)
      BY <1>t, <3>1 DEF window_mark_committed, SetWindow, Visible
    <3>2. CASE wm' = window_move(wm, msg.id, msg.x)
      BY <1>t, <3>2 DEF window_move, SetWindow, Visible
    <3>3. CASE wm' = window_destroy(wm, msg.id)
      BY <1>t, <3>3 DEF window_destroy, DestroySlots, Visible
    <3>4. QED
      BY <1>3, <3>1, <3>2, <3>3 DEF HandleUpdate
  <2>2. ASSUME window_known(wm, msg.id)
        PROVE  wm.windows[w].pid = p
    <3>1. w \in Visible(wm) /\ wm.windows[w].id = msg.id
      BY <2>2, FindTable
    <3>2. msg.id # 0
      <4>1. wm.windows[w].id \in 1 .. wm.next_id - 1 /\ wm.next_id \in Nat
        BY <1>t, <3>1 DEF TableOK, WindowTable
      <4>2. QED
        BY <3>1, <4>1
    <3>3. up[p] \in Seq(Requests)
      BY <1>p, <1>t
    <3>4. msg.id \in IdsOf(up[p])
      BY <1>3, <3>2, <3>3, IdsOfHead
    <3>5. QED
      BY <1>p, <3>1, <3>4 DEF Known, IInv, KnownToOwner
  <2>3. QED
    BY <1>u, <2>1, <2>2 DEF ChangedByOwner
<1>4. QED
  BY <1>1, <1>2, <1>3, <1>u, Zenon DEF handle_client_message

(* One step of anybody changes a window only for its owner. *)
LEMMA NextChanges == IInv /\ [Next]_vars => ChangedByOwner
<1> SUFFICES ASSUME IInv, [Next]_vars PROVE ChangedByOwner
  OBVIOUS
<1>1. CASE wm' = wm
  BY <1>1 DEF ChangedByOwner
<1>2. CASE compositor_render
  BY <1>2 DEF compositor_render, ChangedByOwner
<1>3. CASE DropClient
  BY <1>3, GoneChanges DEF DropClient
<1>4. CASE ServeClient(TRUE) \/ ServeClient(FALSE)
  BY <1>4, ServeChanges
<1>5. CASE \E p \in Pids : Client(p)
  BY <1>1, <1>5 DEF Client, display_connect, client_window_create,
     client_window_commit, client_window_move, client_window_destroy, SendUnknown,
     SendRequest, ClientRead, display_disconnect, tabVars
<1>6. CASE Server /\ ~ compositor_render /\ ~ DropClient /\ ~ ServeClient(FALSE)
  BY <1>1, <1>6 DEF Server, Poll, socket_server_accept, SkipClient, InputStep,
     broadcast_key, broadcast_mouse, Shutdown, tabVars
<1>7. CASE broadcast_key(TRUE)
  BY <1>1, <1>7 DEF broadcast_key, tabVars
<1>8. CASE \/ \E e \in {v \in InputEvents : v.kind \in InputKinds} : UserInput(e)
           \/ \E sig \in Signals : signal_handler(sig)
           \/ Exited
           \/ UNCHANGED vars
  BY <1>1, <1>8 DEF UserInput, signal_handler, Exited, vars, tabVars
<1>9. QED
  BY <1>2, <1>3, <1>4, <1>5, <1>6, <1>7, <1>8 DEF Next, Interrupted

(* In every behaviour of the server a window is moved, committed or        *)
(* destroyed only while handle_client_message or handle_client_disconnect  *)
(* runs for the process that created it, although the code never compares  *)
(* the sender of a request with the owner of the window it names.          *)
THEOREM OwnersOnly == Spec => OnlyOwnerChanges
<1>1. IInv /\ [Next]_vars => [ChangedByOwner]_vars
  BY NextChanges
<1>2. QED
  BY <1>1, Invariance, PTL DEF Spec, OnlyOwnerChanges

(* What a send puts last on somebody's stream is the last it was given. *)
LEMMA SendLast ==
  ASSUME TypeOK, NEW p \in Pids, NEW msgs \in Seq(Events), NEW sig,
         Send(p, msgs, sig), NEW q \in Pids, KeySent(q)
  PROVE  /\ q = p /\ Len(msgs) > 0
         /\ msgs[Len(msgs)].type = "MSG_KEY_EVENT"
<1>t. down \in [Pids -> Seq(Events)] /\ Len(down[q]) \in Nat
  BY DEF TypeOK, SockTypes
<1>1. down' = [down EXCEPT ![p] = down[p] \o msgs]
  <2>1. down' # down
    BY <1>t DEF KeySent
  <2>2. QED
    BY <2>1 DEF Send
<1>2. q = p
  <2>1. q # p => down'[q] = down[q]
    BY <1>t, <1>1
  <2>2. QED
    BY <1>t, <2>1 DEF KeySent
<1>3. down'[q] = down[q] \o msgs /\ down[q] \in Seq(Events)
  BY <1>t, <1>1, <1>2
<1>4. PICK m \in Nat, n \in Nat : m = Len(down[q]) /\ n = Len(msgs)
  BY <1>3
<1>5. Len(down'[q]) = m + n
  BY <1>3, <1>4
<1>6. n > 0
  BY <1>4, <1>5 DEF KeySent
<1>7. down'[q][m + n] = msgs[n]
  BY <1>3, <1>4, <1>6
<1>8. QED
  BY <1>2, <1>4, <1>5, <1>6, <1>7 DEF KeySent

(* handle_client_message answers with no key event. *)
LEMMA ServeKeys ==
  ASSUME IInv, NEW sig, ServeClient(sig)
  PROVE  KeyToFocusedOwner
<1> DEFINE c == Current
           p == clients[c].pid
<1>u. InLoop /\ handle_client_message(c, sig)
  BY DEF ServeClient
<1>p. p \in Pids
  BY <1>u, CurrentActive DEF IInv
<1>t. TypeOK /\ wm.next_id \in Nat
  BY DEF IInv, TableOK, WindowTable
<1>1. CASE down' = down
  BY <1>1, <1>t DEF KeyToFocusedOwner, KeySent, TypeOK, SockTypes
<1>2. ASSUME NEW type \in {"MSG_WINDOW_CLOSE", "MSG_WINDOW_CREATED"}, NEW id \in Nat,
             Send(p, <<Evt(type, id)>>, sig)
      PROVE  KeyToFocusedOwner
  <2> SUFFICES ASSUME NEW q \in Pids, KeySent(q) PROVE FALSE
    BY DEF KeyToFocusedOwner
  <2>1. <<Evt(type, id)>> \in Seq(Events)
    <3>1. Evt(type, id) \in Events
      BY <1>2 DEF Evt, Events
    <3>2. QED
      BY <3>1
  <2>2. PICK msgs \in Seq(Events) : msgs = <<Evt(type, id)>>
    BY <2>1
  <2>3. msgs[Len(msgs)].type = "MSG_KEY_EVENT"
    BY <1>2, <1>p, <1>t, <2>2, SendLast
  <2>4. msgs[Len(msgs)] = Evt(type, id)
    BY <2>2
  <2>5. QED
    BY <1>2, <2>3, <2>4 DEF Evt
<1>3. CASE HandleCreate(c, p, sig)
  <2>1. \/ Send(p, <<Evt("MSG_WINDOW_CLOSE", 0)>>, sig)
        \/ Send(p, <<Evt("MSG_WINDOW_CREATED", wm.next_id)>>, sig)
    BY <1>3, Zenon DEF HandleCreate
  <2>2. QED
    BY <1>t, <1>2, <2>1
<1>4. down' = down \/ HandleCreate(c, p, sig)
  BY <1>u, Zenon DEF handle_client_message, RecvFails, handle_client_disconnect,
     HandleUpdate
<1>5. QED
  BY <1>1, <1>3, <1>4

(* What is sent about a window goes to the process that owns it. *)
LEMMA SendToOwner ==
  ASSUME IInv, pc # "exit", NEW w \in Visible(wm),
         NEW types \in Seq({"MSG_KEY_EVENT", "MSG_MOUSE_MOVE", "MSG_MOUSE_BUTTON"}),
         NEW sig, SendToWindow(w, types, sig), NEW q \in Pids, KeySent(q)
  PROVE  /\ wm.windows[w].pid = q /\ Len(types) > 0
         /\ types[Len(types)] = "MSG_KEY_EVENT"
<1> DEFINE win == wm.windows[w]
           p == clients[win.client_idx].pid
           msgs == [k \in DOMAIN types |-> Evt(types[k], win.id)]
<1>w. win.id \in Nat /\ win.client_idx \in Slots
  BY DEF IInv, TableOK, WindowTable, Window, Visible
<1>1. clients[win.client_idx].active /\ p = win.pid
  BY DEF IInv, OwnersConnected
<1>2. p \in Pids
  BY <1>1, <1>w DEF IInv, Active
<1>3. Send(p, msgs, sig)
  BY <1>1 DEF SendToWindow
<1>4. DOMAIN types = 1 .. Len(types) /\ Len(types) \in Nat
  OBVIOUS
<1>5. msgs \in Seq(Events) /\ Len(msgs) = Len(types)
  <2>1. \A k \in DOMAIN types : types[k] \in {"MSG_KEY_EVENT",
           "MSG_MOUSE_MOVE", "MSG_MOUSE_BUTTON"}
    OBVIOUS
  <2>2. \A k \in DOMAIN types : Evt(types[k], win.id) \in Events
    BY <1>w, <2>1 DEF Evt, Events
  <2>3. QED
    BY <1>4, <2>2
<1>6. \A k \in DOMAIN types : msgs[k].type = types[k]
  BY DEF Evt
<1>7. q = p /\ Len(msgs) > 0 /\ msgs[Len(msgs)].type = "MSG_KEY_EVENT"
  <2> HIDE DEF msgs, p
  <2>1. TypeOK
    BY DEF IInv
  <2>2. QED
    BY <1>2, <1>3, <1>5, <2>1, SendLast
<1> HIDE DEF msgs, p
<1>8. Len(types) \in DOMAIN types
  BY <1>4, <1>5, <1>7
<1>9. QED
  BY <1>1, <1>5, <1>6, <1>7, <1>8

(* Only broadcast_input_events sends keys, and to the focused window. *)
LEMMA NextKeys == IInv /\ [Next]_vars => KeyToFocusedOwner
<1> SUFFICES ASSUME IInv, [Next]_vars PROVE KeyToFocusedOwner
  OBVIOUS
<1>t. down \in [Pids -> Seq(Events)]
  BY DEF IInv, TypeOK, SockTypes
<1>1. ASSUME \A q \in Pids : Len(down'[q]) <= Len(down[q]) PROVE KeyToFocusedOwner
  <2>1. \A q \in Pids : Len(down[q]) \in Nat
    BY <1>t
  <2> SUFFICES ASSUME NEW q \in Pids, KeySent(q) PROVE FALSE
    BY DEF KeyToFocusedOwner
  <2>2. down'[q] # down[q]
    BY <2>1 DEF KeySent
  <2>3. QED
    BY <1>1, <2>1 DEF KeySent
<1>s. ASSUME down' = down PROVE KeyToFocusedOwner
  BY <1>s, <1>t DEF KeyToFocusedOwner, KeySent
<1>2. ASSUME NEW sig, broadcast_key(sig) PROVE KeyToFocusedOwner
  <2>1. CASE input.has_key_event /\ window_known(wm, focused_window_id)
    <3> SUFFICES ASSUME NEW q \in Pids, KeySent(q)
                 PROVE  \E s \in Visible(wm) : /\ wm.windows[s].id = focused_window_id
                                               /\ wm.windows[s].pid = q
      BY DEF KeyToFocusedOwner
    <3>1. PICK w \in Visible(wm) : /\ w = window_find(wm, focused_window_id)
                                   /\ wm.windows[w].id = focused_window_id
      BY <2>1, FindTable
    <3>2. SendToWindow(window_find(wm, focused_window_id), <<"MSG_KEY_EVENT">>, sig)
      BY <1>2, <2>1, Zenon DEF broadcast_key
    <3>m. <<"MSG_KEY_EVENT">> \in
            Seq({"MSG_KEY_EVENT", "MSG_MOUSE_MOVE", "MSG_MOUSE_BUTTON"})
      OBVIOUS
    <3>3. PICK types \in Seq({"MSG_KEY_EVENT", "MSG_MOUSE_MOVE", "MSG_MOUSE_BUTTON"}) :
            types = <<"MSG_KEY_EVENT">>
      BY <3>m, Zenon
    <3>4. SendToWindow(w, types, sig) /\ pc # "exit"
      BY <1>2, <3>1, <3>2, <3>3 DEF broadcast_key
    <3>5. wm.windows[w].pid = q
      BY <3>4, SendToOwner
    <3>6. QED
      BY <3>1, <3>5
  <2>2. CASE ~ (input.has_key_event /\ window_known(wm, focused_window_id))
    <3>1. down' = down
      BY <1>2, <2>2, Zenon DEF broadcast_key
    <3>2. QED
      BY <1>s, <3>1
  <2>3. QED
    BY <2>1, <2>2
<1>3. ASSUME NEW sig, broadcast_mouse(sig) PROVE KeyToFocusedOwner
  <2>1. CASE input.has_mouse_event /\ WindowsAt(wm, input.mouse) # {}
    <3> SUFFICES ASSUME NEW q \in Pids, KeySent(q) PROVE FALSE
      BY DEF KeyToFocusedOwner
    <3>1. PICK w \in Visible(wm) : w = window_find_at(wm, input.mouse)
      BY <2>1, FindAtTable
    <3>2. SendToWindow(w, IF input.last_button_pressed
                          THEN <<"MSG_MOUSE_MOVE", "MSG_MOUSE_BUTTON">>
                          ELSE <<"MSG_MOUSE_MOVE">>, sig)
      BY <1>3, <2>1, <3>1, Zenon DEF broadcast_mouse
    <3>3. ASSUME NEW types \in Seq({"MSG_KEY_EVENT", "MSG_MOUSE_MOVE", "MSG_MOUSE_BUTTON"}),
                 SendToWindow(w, types, sig),
                 types[Len(types)] # "MSG_KEY_EVENT"
          PROVE  FALSE
      <4>1. pc # "exit"
        BY <1>3 DEF broadcast_mouse
      <4>2. QED
        BY <3>3, <4>1, SendToOwner
    <3>4. CASE input.last_button_pressed
      <4>1. SendToWindow(w, <<"MSG_MOUSE_MOVE", "MSG_MOUSE_BUTTON">>, sig)
        BY <3>2, <3>4, Zenon
      <4>m. <<"MSG_MOUSE_MOVE", "MSG_MOUSE_BUTTON">> \in
              Seq({"MSG_KEY_EVENT", "MSG_MOUSE_MOVE", "MSG_MOUSE_BUTTON"})
        OBVIOUS
      <4>2. PICK types \in Seq({"MSG_KEY_EVENT", "MSG_MOUSE_MOVE", "MSG_MOUSE_BUTTON"}) :
              types = <<"MSG_MOUSE_MOVE", "MSG_MOUSE_BUTTON">>
        BY <4>m, Zenon
      <4>3. types[Len(types)] = "MSG_MOUSE_BUTTON"
        BY <4>2
      <4>4. QED
        BY <3>3, <4>1, <4>2, <4>3
    <3>5. CASE ~ input.last_button_pressed
      <4>1. SendToWindow(w, <<"MSG_MOUSE_MOVE">>, sig)
        BY <3>2, <3>5, Zenon
      <4>m. <<"MSG_MOUSE_MOVE">> \in
              Seq({"MSG_KEY_EVENT", "MSG_MOUSE_MOVE", "MSG_MOUSE_BUTTON"})
        OBVIOUS
      <4>2. PICK types \in Seq({"MSG_KEY_EVENT", "MSG_MOUSE_MOVE", "MSG_MOUSE_BUTTON"}) :
              types = <<"MSG_MOUSE_MOVE">>
        BY <4>m, Zenon
      <4>3. types[Len(types)] = "MSG_MOUSE_MOVE"
        BY <4>2
      <4>4. QED
        BY <3>3, <4>1, <4>2, <4>3
    <3>6. QED
      BY <3>4, <3>5
  <2>2. CASE ~ (input.has_mouse_event /\ WindowsAt(wm, input.mouse) # {})
    <3>1. down' = down
      BY <1>3, <2>2, Zenon DEF broadcast_mouse
    <3>2. QED
      BY <1>s, <3>1
  <2>3. QED
    BY <2>1, <2>2
<1>4. ASSUME NEW p \in Pids, ClientRead(p) \/ display_disconnect(p)
      PROVE  KeyToFocusedOwner
  <2>1. \A q \in Pids : q # p => down'[q] = down[q]
    BY <1>4, <1>t DEF ClientRead, display_disconnect
  <2>2. CASE ClientRead(p)
    <3>1. down'[p] = Tail(down[p]) /\ down[p] # <<>> /\ down[p] \in Seq(Events)
      BY <2>2, <1>t DEF ClientRead
    <3>2. Len(down'[p]) <= Len(down[p])
      BY <3>1
    <3>3. QED
      BY <1>1, <1>t, <2>1, <3>2
  <2>3. CASE display_disconnect(p)
    <3>1. down'[p] = <<>> /\ down[p] \in Seq(Events)
      BY <2>3, <1>t DEF display_disconnect
    <3>2. Len(down'[p]) <= Len(down[p])
      BY <3>1
    <3>3. QED
      BY <1>1, <1>t, <2>1, <3>2
  <2>4. QED
    BY <1>4, <2>2, <2>3
<1>5. CASE \E p \in Pids : Client(p) /\ ~ ClientRead(p) /\ ~ display_disconnect(p)
  <2>1. down' = down
    BY <1>5 DEF Client, display_connect, client_window_create, client_window_commit,
       client_window_move, client_window_destroy, SendUnknown, SendRequest
  <2>2. QED
    BY <1>s, <2>1
<1>6. CASE \/ Poll \/ socket_server_accept \/ SkipClient \/ DropClient
           \/ InputStep \/ compositor_render \/ Shutdown
  <2>1. down' = down
    BY <1>6 DEF Poll, socket_server_accept, SkipClient, DropClient,
       handle_client_disconnect, InputStep, compositor_render, Shutdown, sockVars
  <2>2. QED
    BY <1>s, <2>1
<1>7. CASE \/ \E e \in {v \in InputEvents : v.kind \in InputKinds} : UserInput(e)
           \/ \E sig \in Signals : signal_handler(sig)
           \/ Exited
           \/ UNCHANGED vars
  <2>1. down' = down
    BY <1>7 DEF UserInput, signal_handler, Exited, vars, sockVars
  <2>2. QED
    BY <1>s, <2>1
<1>8. QED
  BY <1>2, <1>3, <1>4, <1>5, <1>6, <1>7, ServeKeys DEF Next, Server, Interrupted

(* In every behaviour of the server broadcast_input_events puts a key on   *)
(* the stream of the process that owns the focused window, and of nobody   *)
(* else, however often the window's client slot changed hands.             *)
THEOREM KeysCorrect == Spec => KeysToFocusedOwner
<1>1. IInv /\ [Next]_vars => [KeyToFocusedOwner]_vars
  BY NextKeys
<1>2. QED
  BY <1>1, Invariance, PTL DEF Spec, KeysToFocusedOwner
-----------------------------------------------------------------------------
(* The client loop and the entries of poll().                              *)

(* The client that socket_server_accept put in the table, if there is one, *)
(* is still ahead of the loop.                                             *)
Unshifted == accepted = -1 \/ i <= accepted

(* The entries the loop has not come to. *)
Left == pfd_idx .. Len(pfds)

Rising(f) == \A j, k \in DOMAIN f : j < k => f[j] < f[k]

(* f gives every entry left a client still to be met, in the same order;   *)
(* as long as nothing is shifted it is the client poll() filled it for,    *)
(* and the client just accepted is the only one without an entry.          *)
Matching(f) ==
  /\ f \in [Left -> NextActive]
  /\ Rising(f)
  /\ Unshifted => /\ \A s \in NextActive \ {accepted} : \E k \in Left : f[k] = s
                  /\ \A k \in Left : f[k] # accepted /\ pfds[k].pid = clients[f[k]].pid

EntriesLeft ==
  /\ pc # "clients" => i = 0 /\ pfd_idx = 1 /\ accepted = -1
  /\ pc \in {"accept", "clients"} =>
       /\ pfd_idx \in 1 .. Len(pfds) + 1
       /\ \E f \in [Left -> NextActive] : Matching(f)

(* A process is in one slot or in the backlog at most once. *)
ConnectedOnce ==
  /\ \A s, t \in Active : clients[s].pid = clients[t].pid => s = t
  /\ \A j, k \in DOMAIN backlog : backlog[j] = backlog[k] => j = k
  /\ \A k \in DOMAIN backlog : /\ peer[backlog[k]] # "new"
                               /\ \A s \in Active : clients[s].pid # backlog[k]
  /\ \A s \in Active : peer[clients[s].pid] # "new"

(* A hang-up poll() reported is one for good, and so is a request it       *)
(* reported until the loop comes to its client.                            *)
Reported ==
  /\ \A k \in DOMAIN pfds : /\ pfds[k].pid \in Pids
                            /\ pfds[k].hup => peer[pfds[k].pid] = "closed"
  /\ pc \in {"accept", "clients"} /\ Unshifted =>
       \A k \in Left : pfds[k].in => \/ up[pfds[k].pid] # <<>>
                                     \/ peer[pfds[k].pid] = "closed"

(* What every step of the loop preserves, beyond IInv. *)
LoopInv ==
  /\ EntriesLeft
  /\ ConnectedOnce
  /\ Reported

(* Where the loop stands. *)
LEMMA CurrentFirst ==
  ASSUME TypeOK, InLoop
  PROVE  /\ Current \in NextActive /\ Current \in Nat /\ i <= Current
         /\ \A s \in NextActive : s \in Nat /\ Current <= s
<1>1. NextActive \subseteq Nat /\ NextActive # {}
  BY SlotSets DEF InLoop, NextActive, Active
<1>2. \E s \in NextActive : \A t \in NextActive : s <= t
  BY <1>1, LeastExists
<1>3. Current \in NextActive /\ \A t \in NextActive : Current <= t
  BY <1>2 DEF Current, FirstSlot
<1>4. QED
  BY <1>1, <1>3 DEF NextActive

(* The entry the loop reads exists, and is the current client's unless a   *)
(* new client shifted it.                                                  *)
LEMMA HeadEntry ==
  ASSUME TypeOK, pc = "clients", InLoop, EntriesLeft, NEW f, Matching(f)
  PROVE  /\ pfd_idx \in Nat /\ Len(pfds) \in Nat
         /\ pfd_idx \in Left /\ pfd_idx \in DOMAIN pfds
         /\ Current <= f[pfd_idx]
         /\ Unshifted /\ Current # accepted => f[pfd_idx] = Current
<1>t. pfd_idx \in Nat /\ Len(pfds) \in Nat /\ DOMAIN pfds = 1 .. Len(pfds)
  BY DEF TypeOK, LoopTypes, PollTypes
<1>1. pfd_idx < Len(pfds) + 1 /\ pfd_idx >= 1
  <2>1. nfds = Len(pfds) + 3 \/ nfds = Len(pfds) + 2
    BY DEF nfds
  <2>2. pfd_idx < nfds - 2
    BY DEF InLoop
  <2>3. pfd_idx >= 1
    BY <1>t DEF EntriesLeft
  <2>4. QED
    BY <1>t, <2>1, <2>2, <2>3
<1>2. pfd_idx \in Left /\ pfd_idx \in DOMAIN pfds
  BY <1>1, <1>t DEF Left
<1>3. f[pfd_idx] \in NextActive
  BY <1>2 DEF Matching
<1>4. Current <= f[pfd_idx] /\ Current \in Nat /\ f[pfd_idx] \in Nat
  BY <1>3, CurrentFirst
<1>5. ASSUME Unshifted, Current # accepted PROVE f[pfd_idx] = Current
  <2>1. PICK k \in Left : f[k] = Current
    BY <1>5, CurrentFirst DEF Matching
  <2>2. k = pfd_idx \/ f[pfd_idx] < f[k]
    <3>1. DOMAIN f = Left /\ k \in Int /\ pfd_idx <= k
      BY <1>t DEF Matching, Left
    <3>2. k = pfd_idx \/ pfd_idx < k
      BY <1>t, <3>1
    <3>3. QED
      BY <1>2, <3>1, <3>2 DEF Matching, Rising
  <2>3. QED
    BY <1>4, <2>1, <2>2
<1>6. QED
  BY <1>t, <1>2, <1>4, <1>5

(* A round of the loop passes the current client and its entry. *)
LEMMA AdvanceEntries ==
  ASSUME TypeOK, pc = "clients", InLoop, Advance, EntriesLeft,
         \/ clients' = clients
         \/ clients' = [clients EXCEPT ![Current].active = FALSE],
         NEW f, Matching(f)
  PROVE  /\ EntriesLeft'
         /\ Left' \subseteq Left /\ pfd_idx \notin Left'
         /\ Unshifted' => Unshifted /\ Current # accepted
<1> DEFINE c == Current
<1>t. /\ clients \in [Slots -> [active: BOOLEAN, pid: Pids \cup {NoPid}]]
      /\ i \in Nat /\ accepted \in Int
  BY SlotSets DEF TypeOK, TabTypes, LoopTypes
<1>u. /\ i' = c + 1 /\ pfd_idx' = pfd_idx + 1 /\ pc' = pc
      /\ accepted' = accepted /\ pfds' = pfds
  BY DEF Advance, pollVars
<1>c. /\ c \in NextActive /\ c \in Nat /\ i <= c /\ c \in Slots
      /\ \A s \in NextActive : s \in Nat /\ c <= s
  BY CurrentFirst, CurrentActive
<1>h. /\ pfd_idx \in Nat /\ Len(pfds) \in Nat
      /\ pfd_idx \in Left /\ pfd_idx \in DOMAIN pfds
      /\ c <= f[pfd_idx]
      /\ Unshifted /\ c # accepted => f[pfd_idx] = c
  BY HeadEntry
<1> HIDE DEF c
<1>1. /\ \A s \in Slots : clients'[s].pid = clients[s].pid
      /\ \A s \in Slots \ {c} : clients'[s].active = clients[s].active
  <2>1. CASE clients' = clients
    BY <2>1
  <2>2. CASE clients' = [clients EXCEPT ![c].active = FALSE]
    BY <1>t, <1>c, <2>2
  <2>3. QED
    BY <2>1, <2>2 DEF c
<1>2. NextActive' = NextActive \ {c}
  <2>1. ASSUME NEW s \in Slots PROVE s \in NextActive' <=> s \in NextActive /\ s # c
    <3>1. s \in Nat
      BY SlotSets
    <3>2. CASE s = c
      BY <1>c, <1>u, <3>2 DEF NextActive
    <3>3. CASE s # c
      <4>1. s \in Active' <=> s \in Active
        BY <1>1, <3>3 DEF Active
      <4>2. c + 1 <= s <=> c <= s
        BY <1>c, <3>1, <3>3
      <4>3. i <= s /\ s \in Active => c <= s
        BY <1>c DEF NextActive
      <4>4. c <= s => i <= s
        BY <1>c, <1>t, <3>1
      <4>5. QED
        BY <1>u, <3>3, <4>1, <4>2, <4>3, <4>4 DEF NextActive
    <3>4. QED
      BY <3>2, <3>3
  <2>2. NextActive \subseteq Slots /\ NextActive' \subseteq Slots
    BY DEF NextActive, Active
  <2>3. QED
    BY <2>1, <2>2
<1>3. Left' \subseteq Left /\ pfd_idx \notin Left' /\ \A k \in Left : k = pfd_idx \/ k \in Left'
  BY <1>h, <1>u DEF Left
<1>4. \A k \in Left' : k \in Left /\ pfd_idx < k /\ f[k] \in NextActive
  BY <1>h, <1>u, <1>3 DEF Left, Matching
<1>5. ASSUME NEW k \in Left' PROVE f[k] \in NextActive \ {c}
  <2>1. f[pfd_idx] < f[k]
    BY <1>4, <1>h DEF Matching, Rising
  <2>2. f[pfd_idx] \in Nat /\ f[k] \in Nat
    BY <1>4, <1>c, <1>h DEF Matching
  <2>3. f[k] # c
    BY <2>1, <2>2, <1>h, <1>c
  <2>4. QED
    BY <1>4, <2>3
<1>6. Unshifted' => Unshifted /\ c # accepted
  BY <1>u, <1>c, <1>t DEF Unshifted
<1>f. PICK g : g = [k \in Left' |-> f[k]]
  OBVIOUS
<1>g. DOMAIN g = Left' /\ \A k \in Left' : g[k] = f[k]
  BY <1>f
<1>7. g \in [Left' -> NextActive'] /\ Rising(g)
  <2>1. g \in [Left' -> NextActive']
    BY <1>2, <1>5, <1>f
  <2>2. Rising(g)
    BY <1>3, <1>g DEF Rising, Matching
  <2>3. QED
    BY <2>1, <2>2
<1>8. ASSUME Unshifted'
      PROVE  /\ \A s \in NextActive' \ {accepted'} : \E k \in Left' : g[k] = s
             /\ \A k \in Left' : g[k] # accepted' /\ pfds'[k].pid = clients'[g[k]].pid
  <2>1. ASSUME NEW s \in NextActive' \ {accepted'} PROVE \E k \in Left' : g[k] = s
    <3>1. s \in NextActive \ {accepted} /\ s # c
      BY <1>2, <1>u
    <3>2. PICK k \in Left : f[k] = s
      BY <1>6, <1>8, <3>1 DEF Matching
    <3>3. k # pfd_idx
      BY <1>6, <1>8, <1>h, <3>1, <3>2
    <3>4. QED
      BY <1>3, <1>g, <3>2, <3>3
  <2>2. ASSUME NEW k \in Left'
        PROVE  g[k] # accepted' /\ pfds'[k].pid = clients'[g[k]].pid
    <3>1. f[k] # accepted /\ pfds[k].pid = clients[f[k]].pid
      BY <1>4, <1>6, <1>8 DEF Matching
    <3>2. f[k] \in Slots
      BY <1>4 DEF NextActive, Active
    <3>3. QED
      BY <1>1, <1>g, <1>u, <3>1, <3>2
  <2>3. QED
    BY <2>1, <2>2
<1>9. Matching(g)'
  BY <1>7, <1>8 DEF Matching
<1>10. EntriesLeft'
  <2>1. pfd_idx' \in 1 .. Len(pfds') + 1
    BY <1>h, <1>u DEF Left
  <2>2. QED
    BY <1>7, <1>9, <1>u, <2>1 DEF EntriesLeft
<1>11. QED
  BY <1>3, <1>6, <1>10 DEF c

(* Steps that leave the table and the loop alone leave the entries alone. *)
LEMMA SameEntries ==
  ASSUME EntriesLeft, UNCHANGED <<clients, pfds, loopVars>>
  PROVE  EntriesLeft' /\ Left' = Left /\ (Unshifted' <=> Unshifted)
<1>1. UNCHANGED <<pc, accepted, i, pfd_idx>>
  BY DEF loopVars
<1>2. Left' = Left /\ Active' = Active /\ (Unshifted' <=> Unshifted)
  BY <1>1 DEF Left, Active, Unshifted
<1>3. NextActive' = NextActive
  BY <1>1, <1>2 DEF NextActive
<1>4. CASE pc \in {"accept", "clients"}
  <2>1. PICK f \in [Left -> NextActive] : Matching(f)
    BY <1>4 DEF EntriesLeft
  <2>2. Matching(f)'
    BY <1>1, <1>2, <1>3, <2>1 DEF Matching
  <2>3. QED
    BY <1>1, <1>2, <1>3, <2>1, <2>2 DEF EntriesLeft
<1>5. CASE pc \notin {"accept", "clients"}
  BY <1>1, <1>2, <1>5 DEF EntriesLeft
<1>6. QED
  BY <1>4, <1>5

(* A process that is connected is one of the clients. *)
LEMMA SameOnce ==
  ASSUME IInv, ConnectedOnce, UNCHANGED <<clients, backlog>>,
         \A p \in Pids : peer'[p] = "new" => peer[p] = "new"
  PROVE  ConnectedOnce'
<1>1. Active' = Active
  BY DEF Active
<1>2. \A k \in DOMAIN backlog : backlog[k] \in Pids
  BY DEF IInv, TypeOK, SockTypes
<1>3. \A s \in Active : clients[s].pid \in Pids
  BY DEF IInv
<1>4. QED
  BY <1>1, <1>2, <1>3 DEF ConnectedOnce

(* Clients, the user and signals do not disturb the loop. *)
LEMMA OutsideLoop ==
  ASSUME IInv, LoopInv, UNCHANGED <<clients, backlog, pfds, loopVars>>,
         \A p \in Pids : /\ peer'[p] = "new" => peer[p] = "new"
                         /\ peer[p] = "closed" => peer'[p] = "closed"
                         /\ up[p] # <<>> => up'[p] # <<>>
  PROVE  LoopInv'
<1>1. EntriesLeft' /\ Left' = Left /\ (Unshifted' <=> Unshifted)
  BY SameEntries DEF LoopInv
<1>2. ConnectedOnce'
  BY SameOnce DEF LoopInv
<1>3. Reported'
  <2>1. \A k \in Left : pc \in {"accept", "clients"} => k \in DOMAIN pfds
    <3>1. DOMAIN pfds = 1 .. Len(pfds) /\ Len(pfds) \in Nat
      BY DEF IInv, TypeOK, PollTypes
    <3>2. pc \in {"accept", "clients"} => pfd_idx \in Nat /\ pfd_idx >= 1
      BY <3>1 DEF LoopInv, EntriesLeft
    <3>3. QED
      BY <3>1, <3>2 DEF Left
  <2>2. pc' = pc
    BY DEF loopVars
  <2>3. QED
    BY <1>1, <2>1, <2>2 DEF Reported, LoopInv
<1>4. QED
  BY <1>1, <1>2, <1>3 DEF LoopInv

(* What a client does while the server is in its loop. *)
LEMMA ClientLoop ==
  ASSUME IInv, LoopInv, NEW p \in Pids, Client(p)
  PROVE  LoopInv'
<1>t. /\ peer \in [Pids -> {"new", "open", "closed"}]
      /\ up \in [Pids -> Seq(Requests)] /\ backlog \in Seq(Pids)
  BY DEF IInv, TypeOK, ProcTypes, SockTypes
<1>1. CASE display_connect(p)
  <2>1. /\ UNCHANGED <<clients, pfds, loopVars>> /\ up' = up /\ peer[p] = "new"
        /\ peer' = [peer EXCEPT ![p] = "open"] /\ backlog' = Append(backlog, p)
    BY <1>1 DEF display_connect, tabVars, pollVars
  <2>2. EntriesLeft' /\ Left' = Left /\ (Unshifted' <=> Unshifted)
    BY <2>1, SameEntries DEF LoopInv
  <2>3. ConnectedOnce'
    <3>1. Active' = Active
      BY <2>1 DEF Active
    <3>2. /\ Len(backlog) \in Nat /\ DOMAIN backlog = 1 .. Len(backlog)
          /\ DOMAIN backlog' = 1 .. Len(backlog) + 1
          /\ backlog'[Len(backlog) + 1] = p
          /\ \A k \in DOMAIN backlog : backlog'[k] = backlog[k]
      BY <1>t, <2>1
    <3>3. \A q \in Pids : peer'[q] # "new" <=> peer[q] # "new" \/ q = p
      BY <1>t, <2>1
    <3>4. \A k \in DOMAIN backlog : backlog[k] \in Pids /\ backlog[k] # p
      BY <1>t, <2>1 DEF LoopInv, ConnectedOnce
    <3>5. \A s \in Active : clients[s].pid \in Pids /\ clients[s].pid # p
      BY <2>1 DEF LoopInv, ConnectedOnce, IInv
    <3>6. \A k \in DOMAIN backlog' : k \in DOMAIN backlog \/ k = Len(backlog) + 1
      BY <3>2
    <3>7. \A j, k \in DOMAIN backlog' : backlog'[j] = backlog'[k] => j = k
      BY <3>2, <3>4, <3>6 DEF LoopInv, ConnectedOnce
    <3>8. \A k \in DOMAIN backlog' :
            /\ peer'[backlog'[k]] # "new"
            /\ \A s \in Active : clients[s].pid # backlog'[k]
      BY <3>2, <3>3, <3>4, <3>5, <3>6 DEF LoopInv, ConnectedOnce
    <3>9. \A s \in Active : peer'[clients[s].pid] # "new"
      BY <3>3, <3>5 DEF LoopInv, ConnectedOnce
    <3>10. QED
      BY <2>1, <3>1, <3>7, <3>8, <3>9 DEF ConnectedOnce, LoopInv
  <2>4. Reported'
    <3>1. \A q \in Pids : peer[q] = "closed" => peer'[q] = "closed"
      BY <1>t, <2>1
    <3>2. \A k \in Left : pc \in {"accept", "clients"} => k \in DOMAIN pfds
      <4>1. DOMAIN pfds = 1 .. Len(pfds) /\ Len(pfds) \in Nat
        BY DEF IInv, TypeOK, PollTypes
      <4>2. pc \in {"accept", "clients"} => pfd_idx \in Nat /\ pfd_idx >= 1
        BY <4>1 DEF LoopInv, EntriesLeft
      <4>3. QED
        BY <4>1, <4>2 DEF Left
    <3>3. pc' = pc
      BY <2>1 DEF loopVars
    <3>4. QED
      BY <2>1, <2>2, <3>1, <3>2, <3>3 DEF Reported, LoopInv
  <2>5. QED
    BY <2>2, <2>3, <2>4 DEF LoopInv
<1>2. ASSUME NEW msg, SendRequest(p, msg) PROVE LoopInv'
  <2>1. /\ UNCHANGED <<clients, backlog, pfds, loopVars, peer>>
        /\ up' = [up EXCEPT ![p] = Append(@, msg)]
    BY <1>2 DEF SendRequest, tabVars, pollVars
  <2>2. \A q \in Pids : up[q] # <<>> => up'[q] # <<>>
    <3>1. up[p] \in Seq(Requests) /\ up'[p] = Append(up[p], msg)
      BY <1>t, <2>1
    <3>2. Append(up[p], msg) # <<>>
      BY <3>1
    <3>3. QED
      BY <1>t, <2>1, <3>1, <3>2
  <2>3. QED
    BY <2>1, <2>2, OutsideLoop
<1>3. CASE ClientRead(p)
  <2>1. UNCHANGED <<clients, backlog, pfds, loopVars, peer, up>>
    BY <1>3 DEF ClientRead, tabVars, pollVars
  <2>2. QED
    BY <2>1, OutsideLoop
<1>4. CASE display_disconnect(p)
  <2>1. /\ UNCHANGED <<clients, backlog, pfds, loopVars, up>>
        /\ peer' = [peer EXCEPT ![p] = "closed"]
    BY <1>4 DEF display_disconnect, tabVars, pollVars
  <2>2. QED
    BY <1>t, <2>1, OutsideLoop
<1>5. QED
  BY <1>1, <1>2, <1>3, <1>4 DEF Client, client_window_create, client_window_commit,
     client_window_move, client_window_destroy, SendUnknown

(* poll() gives every connected client its entry, in slot order. *)
LEMMA PollLoop ==
  ASSUME IInv, LoopInv, Poll
  PROVE  LoopInv'
<1>u. /\ pc = "poll" /\ pc' = "accept" /\ i = 0 /\ pfd_idx = 1 /\ accepted = -1
      /\ UNCHANGED <<peer, up, backlog, clients, accepted, i, pfd_idx>>
  BY DEF Poll, LoopInv, EntriesLeft, procVars, sockVars, tabVars
<1>1. PICK order \in SlotOrders(Active) :
        pfds' = [k \in DOMAIN order |-> PollEntry(order[k])]
  BY DEF Poll
<1>2. PICK n \in Nat : n = Cardinality(Active) /\ IsFiniteSet(Active)
  BY SlotSets, FS_Subset, FS_CardinalityType DEF Active
<1>3. order \in [1 .. n -> Active] /\ Rising(order)
  BY <1>2 DEF SlotOrders, Rising
<1>4. \A s \in Active : s \in Nat /\ clients[s].pid \in Pids
  BY SlotSets DEF IInv, Active
<1>5. order \in Injection(1 .. n, Active)
  <2>1. ASSUME NEW j \in 1 .. n, NEW k \in 1 .. n, order[j] = order[k] PROVE j = k
    <3>1. order[j] \in Nat /\ order[k] \in Nat
      BY <1>3, <1>4
    <3>2. ~ (j < k) /\ ~ (k < j)
      BY <1>3, <2>1, <3>1 DEF Rising
    <3>3. QED
      BY <3>2
  <2>2. QED
    BY <1>3, <2>1 DEF Injection, IsInjective
<1>6. \A s \in Active : \E k \in 1 .. n : order[k] = s
  <2>1. Cardinality(1 .. n) = n
    BY FS_Interval
  <2>2. order \in Surjection(1 .. n, Active)
    BY <1>2, <1>5, <2>1, FS_Injection
  <2>3. QED
    BY <2>2 DEF Surjection
<1>7. /\ Len(pfds') = n /\ DOMAIN pfds' = 1 .. n
      /\ \A k \in 1 .. n : pfds'[k] = PollEntry(order[k])
  <2>1. DOMAIN order = 1 .. n
    BY <1>3
  <2>2. QED
    BY <1>1, <1>2, <2>1
<1>8. \A k \in 1 .. n : pfds'[k].pid = clients[order[k]].pid
  BY <1>7 DEF PollEntry
<1>9. Active' = Active /\ NextActive' = Active /\ Left' = 1 .. n
  <2>1. Active' = Active
    BY <1>u DEF Active
  <2>2. \A s \in Active : 0 <= s
    BY <1>4
  <2>3. QED
    BY <1>7, <1>u, <2>1, <2>2 DEF NextActive, Left
<1>10. EntriesLeft'
  <2>1. \A k \in 1 .. n : order[k] # -1
    BY <1>3, <1>4
  <2>2. Matching(order)'
    BY <1>3, <1>6, <1>8, <1>9, <1>u, <2>1 DEF Matching
  <2>3. pfd_idx' \in 1 .. Len(pfds') + 1
    BY <1>7, <1>u
  <2>4. QED
    BY <1>3, <1>9, <1>u, <2>2, <2>3 DEF EntriesLeft
<1>11. ConnectedOnce'
  BY <1>u, SameOnce DEF LoopInv
<1>12. Reported'
  <2>1. ASSUME NEW k \in 1 .. n
        PROVE  /\ pfds'[k].pid \in Pids
               /\ pfds'[k].hup => peer[pfds'[k].pid] = "closed"
               /\ pfds'[k].in => up[pfds'[k].pid] # <<>> \/ peer[pfds'[k].pid] = "closed"
    <3>1. order[k] \in Active
      BY <1>3
    <3>2. pfds'[k] = PollEntry(order[k])
      BY <1>7
    <3>3. PICK p \in Pids : p = clients[order[k]].pid
      BY <1>4, <3>1
    <3>4. /\ pfds'[k].pid = p
          /\ pfds'[k].hup = (peer[p] = "closed")
          /\ pfds'[k].in = (up[p] # <<>> \/ peer[p] = "closed")
      BY <3>2, <3>3 DEF PollEntry
    <3>5. QED
      BY <3>3, <3>4, Zenon
  <2>2. QED
    BY <1>7, <1>9, <1>u, <2>1 DEF Reported
<1>13. QED
  BY <1>10, <1>11, <1>12 DEF LoopInv

(* socket_server_accept adds a client that has no entry. *)
LEMMA AcceptLoop ==
  ASSUME IInv, LoopInv, socket_server_accept
  PROVE  LoopInv'
<1>t. /\ clients \in [Slots -> [active: BOOLEAN, pid: Pids \cup {NoPid}]]
      /\ up \in [Pids -> Seq(Requests)] /\ backlog \in Seq(Pids)
      /\ DOMAIN pfds = 1 .. Len(pfds) /\ Len(pfds) \in Nat
  BY DEF IInv, TypeOK, TabTypes, SockTypes, PollTypes
<1>u. /\ pc = "accept" /\ pc' = "clients" /\ i' = 0 /\ pfd_idx' = 1
      /\ UNCHANGED <<peer, pfds>>
  BY DEF socket_server_accept, procVars, pollVars
<1>o. i = 0 /\ pfd_idx = 1 /\ accepted = -1
  BY <1>u DEF LoopInv, EntriesLeft
<1>f. PICK f \in [Left -> NextActive] : Matching(f)
  BY <1>u DEF LoopInv, EntriesLeft
<1>s. \A s \in Active : s \in Nat /\ s \in Slots /\ clients[s].pid \in Pids
  BY SlotSets DEF IInv, Active
<1>l. Left' = Left /\ Left = DOMAIN pfds /\ NextActive = Active /\ Unshifted
  BY <1>o, <1>s, <1>t, <1>u DEF Left, NextActive, Unshifted
<1>m. /\ Rising(f) /\ f \in [Left -> Active]
      /\ \A s \in Active : \E k \in Left : f[k] = s
      /\ \A k \in Left : pfds[k].pid = clients[f[k]].pid
  <2>1. \A s \in Active : s # accepted
    BY <1>o, <1>s
  <2>2. QED
    BY <1>f, <1>l, <2>1 DEF Matching
<1>r. \A k \in Left : pfds[k].in => \/ up[pfds[k].pid] # <<>>
                                    \/ peer[pfds[k].pid] = "closed"
  BY <1>l, <1>u DEF LoopInv, Reported
<1>p. pfd_idx' \in 1 .. Len(pfds') + 1
  BY <1>t, <1>u
<1>h. ASSUME listen_in
      PROVE  /\ Head(backlog) = backlog[1] /\ Head(backlog) \in Pids
             /\ 1 \in DOMAIN backlog
             /\ DOMAIN Tail(backlog) = 1 .. Len(backlog) - 1 /\ Len(backlog) \in Nat
             /\ DOMAIN backlog = 1 .. Len(backlog)
             /\ \A k \in DOMAIN Tail(backlog) : Tail(backlog)[k] = backlog[k + 1]
  <2>1. backlog # <<>>
    BY <1>u, <1>h DEF IInv
  <2>2. QED
    BY <1>t, <2>1
<1>1. CASE clients' = clients /\ accepted' = -1
  <2>1. Active' = Active /\ NextActive' = Active
    <3>1. Active' = Active
      BY <1>1 DEF Active
    <3>2. \A s \in Active : 0 <= s
      BY <1>s
    <3>3. QED
      BY <1>u, <3>1, <3>2 DEF NextActive
  <2>2. \A k \in Left : f[k] # -1
    BY <1>m, <1>s
  <2>3. Matching(f)'
    BY <1>1, <1>l, <1>m, <1>u, <2>1, <2>2 DEF Matching
  <2>4. EntriesLeft'
    BY <1>l, <1>m, <1>p, <1>u, <2>1, <2>3 DEF EntriesLeft
  <2>5. CASE ~ listen_in
    <3>1. backlog' = backlog /\ up' = up
      BY <2>5 DEF socket_server_accept
    <3>2. ConnectedOnce'
      BY <1>1, <1>u, <3>1, SameOnce DEF LoopInv
    <3>3. Reported'
      BY <1>l, <1>r, <1>u, <3>1 DEF Reported, LoopInv
    <3>4. QED
      BY <2>4, <3>2, <3>3 DEF LoopInv
  <2>6. CASE listen_in
    <3>1. backlog' = Tail(backlog) /\ up' = [up EXCEPT ![Head(backlog)] = <<>>]
      <4>1. accepted' # FirstSlot(FreeSlots) \/ FreeSlots = {}
        <5>1. FreeSlots # {} => FirstSlot(FreeSlots) \in Nat
          BY SlotSets, FirstSlotIn DEF FreeSlots
        <5>2. QED
          BY <1>1, <5>1
      <4>2. QED
        BY <2>6, <4>1 DEF socket_server_accept
    <3>2. ConnectedOnce'
      <4>1. \A k \in DOMAIN Tail(backlog) : k + 1 \in DOMAIN backlog /\ k \in Nat
        BY <1>h, <2>6
      <4>2. \A j, k \in DOMAIN backlog' : backlog'[j] = backlog'[k] => j = k
        <5> SUFFICES ASSUME NEW j \in DOMAIN backlog', NEW k \in DOMAIN backlog',
                            backlog'[j] = backlog'[k]
                     PROVE  j = k
          OBVIOUS
        <5>1. backlog[j + 1] = backlog[k + 1]
          BY <1>h, <2>6, <3>1
        <5>2. j + 1 = k + 1
          BY <3>1, <4>1, <5>1 DEF LoopInv, ConnectedOnce
        <5>3. QED
          BY <3>1, <4>1, <5>2
      <4>3. QED
        BY <1>1, <1>h, <1>u, <2>1, <2>6, <3>1, <4>1, <4>2 DEF ConnectedOnce, LoopInv
    <3>3. Reported'
      <4>1. \A k \in Left : up'[pfds[k].pid] = up[pfds[k].pid]
        <5> SUFFICES ASSUME NEW k \in Left PROVE up'[pfds[k].pid] = up[pfds[k].pid]
          OBVIOUS
        <5>1. f[k] \in Active /\ pfds[k].pid = clients[f[k]].pid
          BY <1>m
        <5>2. pfds[k].pid # backlog[1] /\ pfds[k].pid \in Pids
          BY <1>h, <1>s, <2>6, <5>1 DEF LoopInv, ConnectedOnce
        <5>3. QED
          BY <1>h, <1>t, <2>6, <3>1, <5>2
      <4>2. QED
        BY <1>l, <1>r, <1>u, <4>1 DEF Reported, LoopInv
    <3>4. QED
      BY <2>4, <3>2, <3>3 DEF LoopInv
  <2>7. QED
    BY <2>5, <2>6
<1>2. CASE /\ listen_in /\ FreeSlots # {} /\ backlog' = Tail(backlog) /\ up' = up
           /\ accepted' = FirstSlot(FreeSlots)
           /\ clients' = [clients EXCEPT ![FirstSlot(FreeSlots)] =
                             [active |-> TRUE, pid |-> Head(backlog)]]
  <2>1. PICK a \in Slots \ Active : a = FirstSlot(FreeSlots)
    BY <1>2, SlotSets, FirstSlotIn DEF FreeSlots
  <2>2. /\ clients'[a].active /\ clients'[a].pid = backlog[1]
        /\ \A s \in Slots \ {a} : clients'[s] = clients[s]
    BY <1>2, <1>h, <1>t, <2>1
  <2>3. Active' = Active \cup {a}
    BY <2>1, <2>2 DEF Active
  <2>4. NextActive' = Active \cup {a}
    <3>1. \A s \in Active \cup {a} : 0 <= s
      BY <1>s, <2>1, SlotSets
    <3>2. QED
      BY <1>u, <2>3, <3>1 DEF NextActive
  <2>5. EntriesLeft'
    <3>1. \A k \in Left : f[k] # a /\ clients'[f[k]].pid = clients[f[k]].pid
      BY <1>m, <1>s, <2>1, <2>2
    <3>2. f \in [Left -> Active \cup {a}]
      BY <1>m
    <3>3. Matching(f)'
      BY <1>2, <1>l, <1>m, <1>u, <2>1, <2>4, <3>1, <3>2 DEF Matching
    <3>4. QED
      BY <1>l, <1>p, <1>u, <2>4, <3>2, <3>3 DEF EntriesLeft
  <2>6. ConnectedOnce'
    <3>1. \A k \in DOMAIN Tail(backlog) : k + 1 \in DOMAIN backlog /\ k \in Nat /\ k + 1 # 1
      BY <1>h, <1>2
    <3>2. \A j, k \in DOMAIN backlog' : backlog'[j] = backlog'[k] => j = k
      <4> SUFFICES ASSUME NEW j \in DOMAIN backlog', NEW k \in DOMAIN backlog',
                          backlog'[j] = backlog'[k]
                   PROVE  j = k
        OBVIOUS
      <4>1. backlog[j + 1] = backlog[k + 1]
        BY <1>h, <1>2
      <4>2. j + 1 = k + 1
        BY <1>2, <3>1, <4>1 DEF LoopInv, ConnectedOnce
      <4>3. QED
        BY <1>2, <3>1, <4>2
    <3>3. \A k \in DOMAIN backlog' :
            /\ peer[backlog'[k]] # "new"
            /\ \A s \in Active : clients[s].pid # backlog'[k]
            /\ backlog[1] # backlog'[k]
      <4> SUFFICES ASSUME NEW k \in DOMAIN backlog'
                   PROVE  /\ peer[backlog'[k]] # "new"
                          /\ \A s \in Active : clients[s].pid # backlog'[k]
                          /\ backlog[1] # backlog'[k]
        OBVIOUS
      <4>1. backlog'[k] = backlog[k + 1] /\ k + 1 \in DOMAIN backlog /\ k + 1 # 1
        BY <1>2, <1>h, <3>1
      <4>2. 1 \in DOMAIN backlog
        BY <1>2, <1>h
      <4>3. QED
        BY <4>1, <4>2 DEF LoopInv, ConnectedOnce
    <3>4. /\ peer[backlog[1]] # "new"
          /\ \A s \in Active : clients[s].pid # backlog[1]
      BY <1>2, <1>h DEF LoopInv, ConnectedOnce
    <3>5. \A s \in Active' :
            \/ s = a /\ clients'[s].pid = backlog[1]
            \/ s \in Active /\ clients'[s].pid = clients[s].pid
      BY <1>s, <2>1, <2>2, <2>3
    <3>6. \A s, t \in Active' : clients'[s].pid = clients'[t].pid => s = t
      BY <3>4, <3>5 DEF LoopInv, ConnectedOnce
    <3>7. \A s \in Active' : peer[clients'[s].pid] # "new"
      BY <3>4, <3>5 DEF LoopInv, ConnectedOnce
    <3>8. \A k \in DOMAIN backlog' : \A s \in Active' : clients'[s].pid # backlog'[k]
      BY <3>3, <3>5
    <3>9. QED
      BY <1>u, <3>2, <3>3, <3>6, <3>7, <3>8 DEF ConnectedOnce
  <2>7. Reported'
    BY <1>2, <1>l, <1>r, <1>u DEF Reported, LoopInv
  <2>8. QED
    BY <2>5, <2>6, <2>7 DEF LoopInv
<1>3. QED
  BY <1>1, <1>2 DEF socket_server_accept

(* One round of the client loop, whatever it does to the current client. *)
LEMMA RoundLoop ==
  ASSUME IInv, LoopInv, pc = "clients", InLoop, Advance,
         \/ clients' = clients
         \/ clients' = [clients EXCEPT ![Current].active = FALSE],
         \A q \in Pids : q # clients[Current].pid => up'[q] = up[q]
  PROVE  LoopInv'
<1>t. /\ clients \in [Slots -> [active: BOOLEAN, pid: Pids \cup {NoPid}]]
      /\ TypeOK /\ DOMAIN pfds = 1 .. Len(pfds) /\ Len(pfds) \in Nat
  BY DEF IInv, TypeOK, TabTypes, PollTypes
<1>u. /\ UNCHANGED <<peer, backlog, pfds, accepted, pc>>
  BY DEF Advance, procVars, pollVars
<1>c. Current \in Active /\ Current \in Slots
  BY CurrentActive
<1>f. PICK f \in [Left -> NextActive] : Matching(f)
  BY DEF LoopInv, EntriesLeft
<1>1. /\ EntriesLeft'
      /\ Left' \subseteq Left /\ pfd_idx \notin Left'
      /\ Unshifted' => Unshifted /\ Current # accepted
  BY <1>f, <1>t, AdvanceEntries DEF LoopInv
<1>2. ConnectedOnce'
  <2>1. \A s \in Slots : clients'[s].pid = clients[s].pid
    BY <1>c, <1>t
  <2>2. Active' \subseteq Active /\ Active \subseteq Slots
    <3>1. \A s \in Slots : clients'[s].active => clients[s].active
      <4>1. CASE clients' = clients
        BY <4>1
      <4>2. CASE clients' = [clients EXCEPT ![Current].active = FALSE]
        <5>1. ~ clients'[Current].active /\ \A s \in Slots \ {Current} : clients'[s] = clients[s]
          BY <1>c, <1>t, <4>2
        <5>2. QED
          BY <5>1
      <4>3. QED
        BY <4>1, <4>2
    <3>2. QED
      BY <3>1 DEF Active
  <2>3. QED
    BY <1>u, <2>1, <2>2 DEF ConnectedOnce, LoopInv
<1>3. Reported'
  <2>1. ASSUME Unshifted', NEW k \in Left'
        PROVE  /\ up'[pfds[k].pid] = up[pfds[k].pid]
               /\ pfds[k].in => up[pfds[k].pid] # <<>> \/ peer[pfds[k].pid] = "closed"
    <3>1. Unshifted /\ Current # accepted /\ k \in Left /\ k # pfd_idx
      BY <1>1, <2>1
    <3>2. /\ pfd_idx \in Nat /\ pfd_idx \in Left /\ f[pfd_idx] = Current
      BY <1>f, <1>t, <3>1, HeadEntry DEF LoopInv
    <3>3. pfd_idx < k
      BY <1>t, <3>1, <3>2 DEF Left
    <3>4. f[k] \in Active /\ f[pfd_idx] < f[k] /\ pfds[k].pid = clients[f[k]].pid
      BY <1>f, <3>1, <3>2, <3>3 DEF Matching, Rising, NextActive
    <3>5. f[k] # Current /\ clients[f[k]].pid \in Pids
      <4>1. f[k] \in Nat /\ Current \in Nat
        BY <1>c, <3>4, SlotSets DEF Active
      <4>2. QED
        BY <3>2, <3>4, <4>1 DEF IInv
    <3>6. pfds[k].pid # clients[Current].pid /\ pfds[k].pid \in Pids
      BY <1>c, <3>4, <3>5 DEF LoopInv, ConnectedOnce
    <3>7. QED
      BY <3>1, <3>6 DEF LoopInv, Reported
  <2>2. QED
    BY <1>u, <2>1 DEF Reported, LoopInv
<1>4. QED
  BY <1>1, <1>2, <1>3 DEF LoopInv

(* What a round does to the table and to the streams. *)
LEMMA ServeRound ==
  ASSUME IInv, NEW sig, SkipClient \/ DropClient \/ ServeClient(sig)
  PROVE  /\ pc = "clients" /\ InLoop /\ Advance
         /\ \/ clients' = clients
            \/ clients' = [clients EXCEPT ![Current].active = FALSE]
         /\ \A q \in Pids : q # clients[Current].pid => up'[q] = up[q]
<1>t. up \in [Pids -> Seq(Requests)]
  BY DEF IInv, TypeOK, SockTypes
<1>1. CASE SkipClient
  BY <1>1 DEF SkipClient, tabVars
<1>2. ASSUME handle_client_disconnect(Current)
      PROVE  /\ clients' = [clients EXCEPT ![Current].active = FALSE]
             /\ \A q \in Pids : q # clients[Current].pid => up'[q] = up[q]
  BY <1>2, <1>t DEF handle_client_disconnect
<1>3. CASE DropClient
  BY <1>2, <1>3 DEF DropClient
<1>4. CASE ServeClient(sig)
  <2>1. pc = "clients" /\ InLoop /\ Advance /\ handle_client_message(Current, sig)
    BY <1>4 DEF ServeClient
  <2>2. CASE RecvFails(Current, sig)
    <3>1. handle_client_disconnect(Current)
      BY <2>2 DEF RecvFails
    <3>2. QED
      BY <1>2, <2>1, <3>1
  <2>3. CASE /\ up' = [up EXCEPT ![clients[Current].pid] = Tail(@)]
             /\ UNCHANGED clients
    BY <1>t, <2>1, <2>3
  <2>4. QED
    BY <2>1, <2>2, <2>3, Zenon DEF handle_client_message
<1>5. QED
  BY <1>1, <1>3, <1>4

(* Everything the server does outside its client loop. *)
LEMMA RestLoop ==
  ASSUME IInv, LoopInv,
         \/ InputStep \/ compositor_render \/ Shutdown
         \/ \E sig \in BOOLEAN : broadcast_key(sig) \/ broadcast_mouse(sig)
  PROVE  LoopInv'
<1>1. CASE InputStep
  <2>1. /\ pc' = "key" /\ i' = 0 /\ pfd_idx' = 1 /\ accepted' = -1 /\ pfds' = <<>>
        /\ UNCHANGED <<peer, backlog, clients>>
    BY <1>1 DEF InputStep, ForgetPoll, sockVars, tabVars
  <2>2. EntriesLeft'
    BY <2>1 DEF EntriesLeft
  <2>3. ConnectedOnce'
    BY <2>1, SameOnce DEF LoopInv
  <2>4. Reported'
    BY <2>1 DEF Reported
  <2>5. QED
    BY <2>2, <2>3, <2>4 DEF LoopInv
<1>2. CASE \/ compositor_render
           \/ \E sig \in BOOLEAN : broadcast_key(sig) \/ broadcast_mouse(sig)
  <2>1. /\ pc \notin {"accept", "clients"} /\ pc' \notin {"accept", "clients"}
        /\ UNCHANGED <<peer, backlog, clients, pfds, accepted, i, pfd_idx>>
    BY <1>2 DEF compositor_render, broadcast_key, broadcast_mouse, procVars, sockVars,
       tabVars, pollVars
  <2>2. EntriesLeft'
    BY <2>1 DEF EntriesLeft, LoopInv
  <2>3. ConnectedOnce'
    BY <2>1, SameOnce DEF LoopInv
  <2>4. Reported'
    BY <2>1 DEF Reported, LoopInv
  <2>5. QED
    BY <2>2, <2>3, <2>4 DEF LoopInv
<1>3. CASE Shutdown
  <2>1. /\ pc = "poll" /\ pc' = "exit" /\ backlog' = <<>>
        /\ clients' = [s \in Slots |-> [clients[s] EXCEPT !.active = FALSE]]
        /\ UNCHANGED <<peer, pfds, accepted, i, pfd_idx>>
    BY <1>3 DEF Shutdown, procVars, pollVars
  <2>2. EntriesLeft'
    BY <2>1 DEF EntriesLeft, LoopInv
  <2>3. Active' = {}
    <3>1. clients \in [Slots -> [active: BOOLEAN, pid: Pids \cup {NoPid}]]
      BY DEF IInv, TypeOK, TabTypes
    <3>2. \A s \in Slots : ~ clients'[s].active
      BY <2>1, <3>1
    <3>3. QED
      BY <3>2 DEF Active
  <2>4. ConnectedOnce'
    BY <2>1, <2>3 DEF ConnectedOnce
  <2>5. Reported'
    BY <2>1 DEF Reported, LoopInv
  <2>6. QED
    BY <2>2, <2>4, <2>5 DEF LoopInv
<1>4. QED
  BY <1>1, <1>2, <1>3

(* No client is connected, and poll() was never called. *)
LEMMA InitLoop == Init => LoopInv
<1> SUFFICES ASSUME Init PROVE LoopInv
  OBVIOUS
<1>1. Active = {}
  BY DEF Init, Active
<1>2. QED
  BY <1>1 DEF Init, LoopInv, EntriesLeft, ConnectedOnce, Reported

(* Every step keeps the loop and its entries in step. *)
LEMMA NextLoop == IInv /\ LoopInv /\ [Next]_vars => LoopInv'
<1> SUFFICES ASSUME IInv, LoopInv, [Next]_vars PROVE LoopInv'
  OBVIOUS
<1>1. ASSUME NEW sig, SkipClient \/ DropClient \/ ServeClient(sig) PROVE LoopInv'
  BY <1>1, ServeRound, RoundLoop
<1>2. CASE Server
  BY <1>1, <1>2, PollLoop, AcceptLoop, RestLoop DEF Server
<1>3. CASE Interrupted
  BY <1>1, <1>3, RestLoop DEF Interrupted
<1>4. CASE \E p \in Pids : Client(p)
  BY <1>4, ClientLoop
<1>5. CASE \/ \E e \in {v \in InputEvents : v.kind \in InputKinds} : UserInput(e)
           \/ \E sig \in Signals : signal_handler(sig)
           \/ Exited
           \/ UNCHANGED vars
  <2>1. UNCHANGED <<clients, backlog, pfds, loopVars, peer, up>>
    BY <1>5 DEF UserInput, signal_handler, Exited, vars, procVars, sockVars, tabVars,
       pollVars
  <2>2. QED
    BY <2>1, OutsideLoop
<1>6. QED
  BY <1>2, <1>3, <1>4, <1>5 DEF Next

(* LoopInv holds in every state of every behaviour of the server: whatever *)
(* clients do between poll() and the loop's turn at them, the entries left *)
(* belong to the clients left, in order.                                   *)
THEOREM LoopInvariance == Spec => [](IInv /\ LoopInv)
<1>1. Init => IInv /\ LoopInv
  BY InitIInv, InitLoop
<1>2. IInv /\ LoopInv /\ [Next]_vars => (IInv /\ LoopInv)'
  BY NextIInv, NextLoop
<1>3. QED
  BY <1>1, <1>2, PTL DEF Spec

(* The invariant pairs the loop's two indices. *)
LEMMA LoopEntries ==
  ASSUME IInv, LoopInv
  PROVE  EntriesMatch
<1>t. TypeOK /\ EntriesLeft /\ accepted \in Slots \cup {-1} /\ i \in Nat
  BY DEF LoopInv, IInv, TypeOK, LoopTypes
<1>1. EntryOfClient
  <2> SUFFICES ASSUME pc = "clients", InLoop, ~ ShiftedAt(Current)
               PROVE  pfds[pfd_idx].pid = clients[Current].pid
    BY DEF EntryOfClient
  <2>1. PICK f \in [Left -> NextActive] : Matching(f)
    BY <1>t DEF EntriesLeft
  <2>2. Unshifted /\ Current # accepted
    <3>1. Current \in Nat /\ i <= Current
      BY <1>t, CurrentFirst
    <3>2. accepted = -1 \/ (accepted \in Nat /\ accepted > Current)
      BY <1>t, <3>1, SlotSets DEF ShiftedAt
    <3>3. QED
      BY <1>t, <3>1, <3>2 DEF Unshifted
  <2>3. pfd_idx \in Left /\ f[pfd_idx] = Current
    BY <1>t, <2>1, <2>2, HeadEntry
  <2>4. QED
    BY <2>1, <2>2, <2>3 DEF Matching
<1>2. InputEntryFound
  <2> SUFFICES ASSUME pc = "clients", ~ InLoop, HasLibinput PROVE pfd_idx = Len(pfds) + 1
    BY DEF InputEntryFound
  <2>1. PICK f \in [Left -> NextActive] : Matching(f)
    BY <1>t DEF EntriesLeft
  <2>2. pfd_idx \in 1 .. Len(pfds) + 1 /\ Len(pfds) \in Nat
    BY <1>t DEF EntriesLeft, TypeOK, PollTypes
  <2>3. nfds = Len(pfds) + 3
    BY DEF nfds
  <2>4. CASE NextActive = {}
    <3>1. pfd_idx \notin Left
      BY <2>1, <2>4
    <3>2. QED
      BY <2>2, <3>1 DEF Left
  <2>5. CASE NextActive # {}
    BY <2>2, <2>3, <2>5 DEF InLoop
  <2>6. QED
    BY <2>4, <2>5
<1>3. QED
  BY <1>1, <1>2 DEF EntriesMatch

(* In every state of the server's loop the entry it reads is the one       *)
(* poll() filled for the client it stands at, unless socket_server_accept  *)
(* put a new client at or below that slot in this iteration; and when the  *)
(* loop is over it has come exactly to libinput's entry.                   *)
THEOREM EntriesCorrect == Spec => []EntriesMatch
<1>1. IInv /\ LoopInv => EntriesMatch
  BY LoopEntries
<1>2. QED
  BY <1>1, LoopInvariance, PTL

(* A round of the loop drops its client only for what that client did, or  *)
(* for a new client below it.                                              *)
LEMMA RoundDrops ==
  ASSUME IInv, LoopInv, NEW sig, SkipClient \/ DropClient \/ ServeClient(sig)
  PROVE  DropsDeserved
<1> DEFINE c == Current
           p == clients[c].pid
<1>t. /\ clients \in [Slots -> [active: BOOLEAN, pid: Pids \cup {NoPid}]]
      /\ TypeOK /\ EntriesLeft /\ accepted \in Slots \cup {-1} /\ i \in Nat
  BY DEF IInv, TypeOK, TabTypes, LoopTypes, LoopInv
<1>u. /\ pc = "clients" /\ InLoop
      /\ \/ clients' = clients
         \/ clients' = [clients EXCEPT ![c].active = FALSE]
  BY ServeRound
<1>c. c \in Active /\ c \in Slots /\ c \in Nat /\ i <= c
  BY <1>t, <1>u, CurrentActive, CurrentFirst
<1> HIDE DEF c
<1>1. \A s \in Active : s # c => clients'[s].active
  BY <1>t, <1>u, <1>c DEF Active
<1> SUFFICES ASSUME ~ clients'[c].active, ~ ShiftedAt(c)
             PROVE  \/ peer[p] = "closed"
                    \/ up[p] # <<>> /\ Head(up[p]).type = "unknown"
  BY <1>1 DEF DropsDeserved
<1>2. EntriesMatch
  BY LoopEntries
<1>3. pfds[pfd_idx].pid = p
  BY <1>2, <1>u DEF EntriesMatch, EntryOfClient, c
<1>4. pfd_idx \in Left /\ pfd_idx \in DOMAIN pfds
  <2>1. PICK f \in [Left -> NextActive] : Matching(f)
    BY <1>t, <1>u DEF EntriesLeft
  <2>2. QED
    BY <1>t, <1>u, <2>1, HeadEntry
<1>5. Unshifted
  <2>1. accepted = -1 \/ (accepted \in Nat /\ accepted > c)
    BY <1>t, <1>c, SlotSets DEF ShiftedAt
  <2>2. QED
    BY <1>t, <1>c, <2>1 DEF Unshifted
<1>6. CASE SkipClient
  <2>1. clients' = clients
    BY <1>6 DEF SkipClient, tabVars
  <2>2. QED
    BY <1>c, <2>1 DEF Active
<1>7. CASE DropClient
  BY <1>3, <1>4, <1>7 DEF DropClient, LoopInv, Reported
<1>8. CASE ServeClient(sig)
  <2>1. pfds[pfd_idx].in /\ handle_client_message(c, sig)
    BY <1>8 DEF ServeClient, c
  <2>2. up[p] # <<>> \/ peer[p] = "closed"
    BY <1>3, <1>4, <1>5, <1>u, <2>1 DEF LoopInv, Reported
  <2>3. RecvFails(c, sig)
    <3>1. clients' # clients
      BY <1>c DEF Active
    <3>2. QED
      BY <2>1, <3>1, Zenon DEF handle_client_message
  <2>4. \/ IF up[p] = <<>> THEN peer[p] = "closed" ELSE Head(up[p]).type = "unknown"
        \/ up[p] = <<>> /\ peer[p] # "closed"
    BY <2>3, Zenon DEF RecvFails
  <2>5. QED
    BY <2>2, <2>4, Zenon
<1>9. QED
  BY <1>6, <1>7, <1>8

(* Every step throws out only those that deserve it. *)
LEMMA NextDrops == IInv /\ LoopInv /\ [Next]_vars => DropsDeserved
<1> SUFFICES ASSUME IInv, LoopInv, [Next]_vars PROVE DropsDeserved
  OBVIOUS
<1>1. CASE clients' = clients
  BY <1>1 DEF DropsDeserved, Active
<1>2. ASSUME NEW sig, SkipClient \/ DropClient \/ ServeClient(sig) PROVE DropsDeserved
  BY <1>2, RoundDrops
<1>3. CASE socket_server_accept
  <2>1. clients \in [Slots -> [active: BOOLEAN, pid: Pids \cup {NoPid}]]
    BY DEF IInv, TypeOK, TabTypes
  <2>2. \/ clients' = clients
        \/ clients' = [clients EXCEPT ![FirstSlot(FreeSlots)] =
                         [active |-> TRUE, pid |-> Head(backlog)]]
    BY <1>3 DEF socket_server_accept
  <2>3. \A s \in Active : clients'[s].active
    BY <2>1, <2>2 DEF Active
  <2>4. QED
    BY <2>3 DEF DropsDeserved
<1>4. CASE Shutdown
  BY <1>4 DEF Shutdown, DropsDeserved
<1>5. CASE \E p \in Pids : Client(p)
  BY <1>1, <1>5 DEF Client, display_connect, client_window_create,
     client_window_commit, client_window_move, client_window_destroy, SendUnknown,
     SendRequest, ClientRead, display_disconnect, tabVars
<1>6. CASE \/ Poll \/ InputStep \/ compositor_render
           \/ \E sig \in BOOLEAN : broadcast_key(sig) \/ broadcast_mouse(sig)
  BY <1>1, <1>6 DEF Poll, InputStep, compositor_render, broadcast_key,
     broadcast_mouse, tabVars
<1>7. CASE \/ \E e \in {v \in InputEvents : v.kind \in InputKinds} : UserInput(e)
           \/ \E sig \in Signals : signal_handler(sig)
           \/ Exited
           \/ UNCHANGED vars
  BY <1>1, <1>7 DEF UserInput, signal_handler, Exited, vars, tabVars
<1>8. QED
  BY <1>2, <1>3, <1>4, <1>5, <1>6, <1>7 DEF Next, Server, Interrupted

(* In every behaviour the server disconnects a client only if it hung up   *)
(* or sent something unknown, or if socket_server_accept put a new client  *)
(* at or below its slot since poll(): a signal that interrupts a read does *)
(* not cost a client its connection otherwise.                             *)
THEOREM DropsCorrect == Spec => DisconnectDeserved
<1>1. IInv /\ LoopInv /\ [Next]_vars => [DropsDeserved]_vars
  BY NextDrops
<1>2. QED
  BY <1>1, LoopInvariance, PTL DEF Spec, DisconnectDeserved
=============================================================================
