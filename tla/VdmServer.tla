------------------------------ MODULE VdmServer ------------------------------
(***************************************************************************)
(* The event loop of the VDM display server (display-server/main.c) with   *)
(* its sockets (socket.c), input routing (input.c, compositor.c) and       *)
(* window table (module VdmWindows), running against client processes and  *)
(* a keyboard and pointer that act at any moment.                          *)
(*                                                                         *)
(* The server is one thread.  pc says which part of the iteration comes    *)
(* next; a part that can block (a recv on a client that is silent, a send  *)
(* to a client whose buffer is full) is a step that is not enabled.        *)
(***************************************************************************)
EXTENDS VdmWindows, Sequences

CONSTANTS
  HasLibinput,  \* whether input_init succeeded (main.c goes on without it)
  RequestKinds, \* the kinds of requests clients make
  SockCap,      \* messages a socket buffer holds, each direction
  Signals,      \* the signals that may arrive
  InputKinds,   \* the kinds of input the user makes
  InputCap,     \* input events the kernel queues between two iterations
  MaxCreates    \* bound on the windows ever asked for, below 2^31

ASSUME ServerAssumption ==
  /\ Signals \subseteq {"SIGINT", "SIGTERM", "SIGUSR1"}
  /\ InputKinds \subseteq {"key", "press", "release", "move", "exit"}
  /\ HasLibinput \in BOOLEAN
  /\ SockCap \in Nat \ {0}
  /\ InputCap \in Nat
  /\ MaxCreates \in Nat

VARIABLES
  peer,          \* the client's end of its connection
  handles,       \* window ids the client holds a window_t for
  creates,       \* windows asked for so far, bounded by MaxCreates
  up,            \* bytes from client to server, as messages
  down,          \* bytes from server to client, as messages
  backlog,       \* connections waiting in accept()
  clients,       \* socket_server_t.clients
  client_count,
  wm,            \* window_manager_t
  focused_window_id,
  inq,           \* events libinput has not handed over yet
  input,         \* the flags of input_ctx_t that main.c reads
  running,
  pc,            \* the part of the iteration that runs next
  pfds,          \* the clients' part of pfds, as poll() left it
  listen_in,     \* POLLIN on the listening socket
  input_in,      \* POLLIN on libinput
  accepted,      \* what socket_server_accept returned in this iteration
  i,             \* the client loop's slot
  pfd_idx

procVars == <<peer, handles, creates, inq>>
sockVars == <<up, down, backlog>>
tabVars  == <<clients, client_count, wm>>
pollVars == <<pfds, listen_in, input_in>>
viewVars == <<focused_window_id, input>>
loopVars == <<pc, accepted, i, pfd_idx>>
vars == <<procVars, sockVars, tabVars, pollVars, viewVars, loopVars, running>>
-----------------------------------------------------------------------------
(* Client -> server messages. *)
Msg(type, id, place) == [type |-> type, id |-> id, x |-> place]

Requests ==
  [type: {"MSG_CREATE_WINDOW", "MSG_COMMIT_BUFFER", "MSG_DESTROY_WINDOW",
          "MSG_MOVE_WINDOW", "unknown"},
   id: Nat, x: Places]

(* Server -> client messages. *)
Evt(type, id) == [type |-> type, id |-> id]

Events ==
  [type: {"MSG_WINDOW_CREATED", "MSG_WINDOW_CLOSE", "MSG_KEY_EVENT",
          "MSG_MOUSE_MOVE", "MSG_MOUSE_BUTTON"},
   id: Nat]

(* What libinput hands over: a key, a pointer motion, a button, or the     *)
(* Ctrl+Alt+Backspace chord.                                               *)
InputEvents ==
  [kind: {"key", "press", "release", "exit"}, x: {0}]
    \cup [kind: {"move"}, x: Places]

Active == {s \in Slots : clients[s].active}

(* The server holds the other end of p's connection. *)
Attached(p) ==
  \/ \E k \in DOMAIN backlog : backlog[k] = p
  \/ \E s \in Active : clients[s].pid = p

(* socket_server_send and socket_server_send_with_fd on a blocking socket. *)
(* It returns when there is room, or fails because the peer is gone, which *)
(* the callers ignore.  With sig, a signal ends a send that waits for room *)
(* (no SA_RESTART): the message is lost and the handler has run.           *)
Send(p, msgs, sig) ==
  LET fits == peer[p] = "closed" \/ Len(down[p]) + Len(msgs) <= SockCap IN
  \/ /\ ~ sig /\ fits
     /\ down' = IF peer[p] = "closed" THEN down
                ELSE [down EXCEPT ![p] = @ \o msgs]
     /\ UNCHANGED running
  \/ /\ sig /\ ~ fits
     /\ running' = FALSE
     /\ UNCHANGED down
-----------------------------------------------------------------------------
(* Client processes.                                                       *)

display_connect(p) ==
  /\ peer[p] = "new"
  /\ pc # "exit"
  /\ peer' = [peer EXCEPT ![p] = "open"]
  /\ backlog' = Append(backlog, p)
  /\ UNCHANGED <<handles, creates, inq, up, down, tabVars, pollVars, viewVars,
                 loopVars, running>>

(* A request reaches the server's buffer.  After the server closed its end *)
(* send fails and nothing changes, so only attached clients matter.        *)
SendRequest(p, msg) ==
  /\ msg.type \in RequestKinds
  /\ peer[p] = "open"
  /\ Attached(p)
  /\ Len(up[p]) < SockCap
  /\ up' = [up EXCEPT ![p] = Append(@, msg)]
  /\ UNCHANGED <<peer, inq, down, backlog, tabVars, pollVars, viewVars,
                 loopVars, running>>

client_window_create(p) ==
  /\ creates < MaxCreates
  /\ creates' = creates + 1
  /\ SendRequest(p, Msg("MSG_CREATE_WINDOW", 0, 0))
  /\ UNCHANGED handles

client_window_commit(p) ==
  /\ \E id \in handles[p] : SendRequest(p, Msg("MSG_COMMIT_BUFFER", id, 0))
  /\ UNCHANGED <<handles, creates>>

client_window_move(p) ==
  /\ \E id \in handles[p], x \in Places :
       SendRequest(p, Msg("MSG_MOVE_WINDOW", id, x))
  /\ UNCHANGED <<handles, creates>>

(* window_destroy frees the window_t: the id is not used again.            *)
client_window_destroy(p) ==
  \E id \in handles[p] :
    /\ SendRequest(p, Msg("MSG_DESTROY_WINDOW", id, 0))
    /\ handles' = [handles EXCEPT ![p] = @ \ {id}]
    /\ UNCHANGED creates

(* A program that does not use libclient may send a type nobody knows.     *)
SendUnknown(p) ==
  /\ SendRequest(p, Msg("unknown", 0, 0))
  /\ UNCHANGED <<handles, creates>>

(* The client takes one message off its stream: the reply of window_create *)
(* gives it an id, an event is handed to the application.                  *)
ClientRead(p) ==
  /\ peer[p] = "open"
  /\ down[p] # <<>>
  /\ down' = [down EXCEPT ![p] = Tail(@)]
  /\ handles' = [handles EXCEPT ![p] =
                   IF Head(down[p]).type = "MSG_WINDOW_CREATED"
                   THEN @ \cup {Head(down[p]).id} ELSE @]
  /\ UNCHANGED <<peer, creates, inq, up, backlog, tabVars, pollVars, viewVars,
                 loopVars, running>>

(* display_disconnect, or the process dies: unread events are lost.        *)
display_disconnect(p) ==
  /\ peer[p] = "open"
  /\ peer' = [peer EXCEPT ![p] = "closed"]
  /\ handles' = [handles EXCEPT ![p] = {}]
  /\ down' = [down EXCEPT ![p] = <<>>]
  /\ UNCHANGED <<creates, inq, up, backlog, tabVars, pollVars, viewVars,
                 loopVars, running>>

(* The user types or moves the pointer. *)
UserInput(e) ==
  /\ HasLibinput
  /\ pc # "exit"
  /\ Len(inq) < InputCap
  /\ inq' = Append(inq, e)
  /\ UNCHANGED <<peer, handles, creates, sockVars, tabVars, pollVars,
                 viewVars, loopVars, running>>

(* setup_signals runs after signal(SIGUSR1, log_sigusr1_handler) and puts  *)
(* the same handler on all of them.  SIGPIPE never comes: MSG_NOSIGNAL.    *)
signal_handler(sig) ==
  /\ running
  /\ running' = FALSE
  /\ UNCHANGED <<procVars, sockVars, tabVars, pollVars, viewVars, loopVars>>
-----------------------------------------------------------------------------
(* The server's iteration.                                                 *)

(* Mutant of PollEntry: POLLIN is taken for POLLHUP. *)
MutPollInIsHup(s) ==
  LET p == clients[s].pid IN
  [pid |-> p,
   in  |-> up[p] # <<>> \/ peer[p] = "closed",
   hup |-> up[p] # <<>> \/ peer[p] = "closed"]

(* The entries the loop over clients puts in pfds, in slot order, with the *)
(* revents poll() finds.  A unix stream whose peer is gone reports POLLHUP.*)
PollEntry(s) ==
  LET p == clients[s].pid IN
  [pid |-> p,
   in  |-> up[p] # <<>> \/ peer[p] = "closed",
   hup |-> peer[p] = "closed"]

(* The slots of S in the order a loop from 0 meets them. *)
SlotOrders(S) ==
  {f \in [1 .. Cardinality(S) -> S] : \A j, k \in DOMAIN f : j < k => f[j] < f[k]}

Poll ==
  /\ pc = "poll"
  /\ running
  /\ \E order \in SlotOrders(Active) :
       pfds' = [k \in DOMAIN order |-> PollEntry(order[k])]
  /\ listen_in' = (backlog # <<>>)
  /\ input_in' = (inq # <<>>)
  /\ pc' = "accept"
  /\ UNCHANGED <<procVars, sockVars, tabVars, viewVars, accepted, i, pfd_idx,
                 running>>

(* socket_server_accept, when poll reported the listening socket.  It      *)
(* returns the slot it filled, or -1; main.c does not look at it.          *)
FreeSlots == Slots \ Active

socket_server_accept ==
  /\ pc = "accept"
  /\ pc' = "clients"
  /\ i' = 0
  /\ pfd_idx' = 1
  /\ \/ /\ ~ listen_in
        /\ accepted' = -1
        /\ UNCHANGED <<up, down, backlog, clients, client_count>>
     \/ /\ listen_in
        /\ FreeSlots # {}
        /\ accepted' = FirstSlot(FreeSlots)
        /\ backlog' = Tail(backlog)
        /\ clients' = [clients EXCEPT ![FirstSlot(FreeSlots)] =
                         [active |-> TRUE, pid |-> Head(backlog)]]
        /\ client_count' = client_count + 1
        /\ UNCHANGED <<up, down>>
     \/ /\ listen_in
        /\ FreeSlots = {}
        /\ accepted' = -1
        /\ backlog' = Tail(backlog)
        /\ up' = [up EXCEPT ![Head(backlog)] = <<>>]
        /\ UNCHANGED <<down, clients, client_count>>
  /\ UNCHANGED <<procVars, wm, pollVars, viewVars, running>>

(* Mutant of handle_client_disconnect: the loop over its windows is missing. *)
MutDisconnectKeepsWindows(s) ==
  /\ clients' = [clients EXCEPT ![s].active = FALSE]
  /\ client_count' = client_count - 1
  /\ up' = [up EXCEPT ![clients[s].pid] = <<>>]
  /\ UNCHANGED <<down, wm>>

(* handle_client_disconnect: every window of the slot goes with it.  The   *)
(* kernel drops what the client had sent.                                  *)
handle_client_disconnect(s) ==
  /\ wm' = DestroySlots(wm, WindowsOfClient(wm, s))
  /\ clients' = [clients EXCEPT ![s].active = FALSE]
  /\ client_count' = client_count - 1
  /\ up' = [up EXCEPT ![clients[s].pid] = <<>>]
  /\ UNCHANGED down

(* MSG_CREATE_WINDOW: with a window, the id and the buffer's descriptor;   *)
(* without one (table full or shm_create failed), MSG_WINDOW_CLOSE.        *)
HandleCreate(s, p, sig) ==
  \/ /\ FreeWindows(wm) = {}
     /\ Send(p, <<Evt("MSG_WINDOW_CLOSE", 0)>>, sig)
     /\ UNCHANGED wm
  \/ /\ FreeWindows(wm) # {}
     /\ wm' = window_create(wm, s, p)
     /\ Send(p, <<Evt("MSG_WINDOW_CREATED", wm.next_id)>>, sig)
  \/ /\ FreeWindows(wm) # {}
     /\ wm' = window_create_failed(wm)
     /\ Send(p, <<Evt("MSG_WINDOW_CLOSE", 0)>>, sig)

(* The requests that need no reply. *)
HandleUpdate(msg) ==
  /\ \/ /\ msg.type = "MSG_COMMIT_BUFFER"
        /\ wm' = window_mark_committed(wm, msg.id)
     \/ /\ msg.type = "MSG_DESTROY_WINDOW"
        /\ wm' = window_destroy(wm, msg.id)
     \/ /\ msg.type = "MSG_MOVE_WINDOW"
        /\ wm' = window_move(wm, msg.id, msg.x)
  /\ UNCHANGED <<down, running>>

(* recv returns 0 or fails, or the type is unknown: -1, so the caller      *)
(* disconnects.  With sig, a signal ends a recv that has nothing to read.  *)
RecvFails(s, sig) ==
  LET p == clients[s].pid IN
  /\ handle_client_disconnect(s)
  /\ \/ /\ ~ sig
        /\ IF up[p] = <<>> THEN peer[p] = "closed"
                          ELSE Head(up[p]).type = "unknown"
        /\ UNCHANGED running
     \/ /\ sig
        /\ up[p] = <<>> /\ peer[p] # "closed"
        /\ running' = FALSE

(* handle_client_message: one message is read and acted on.                *)
handle_client_message(s, sig) ==
  LET p == clients[s].pid IN
  \/ RecvFails(s, sig)
  \/ /\ up[p] # <<>>
     /\ up' = [up EXCEPT ![p] = Tail(@)]
     /\ UNCHANGED <<clients, client_count>>
     /\ \/ /\ Head(up[p]).type = "MSG_CREATE_WINDOW"
           /\ HandleCreate(s, p, sig)
        \/ ~ sig /\ HandleUpdate(Head(up[p]))

(* The loop's condition i < MAX_CLIENTS && pfd_idx < nfds - 2, where nfds  *)
(* counts the listening socket, the clients, libinput if there is one and  *)
(* the drm descriptor.                                                     *)
nfds == Len(pfds) + (IF HasLibinput THEN 3 ELSE 2)

NextActive == {s \in Active : i <= s}

(* Mutant of InLoop: one descriptor too many is taken for a fixed one.     *)
MutLoopShort == NextActive # {} /\ pfd_idx < nfds - 3

InLoop == NextActive # {} /\ pfd_idx < nfds - 2

(* The slot the loop stands at, inactive ones skipped. *)
Current == FirstSlot(NextActive)

Advance ==
  /\ i' = Current + 1
  /\ pfd_idx' = pfd_idx + 1
  /\ UNCHANGED <<pc, accepted, procVars, backlog, pollVars, viewVars>>

(* Mutant of SkipClient: continue before pfd_idx++. *)
MutSkipKeepsEntry ==
  /\ pc = "clients" /\ InLoop
  /\ ~ pfds[pfd_idx].in
  /\ i' = Current + 1
  /\ UNCHANGED <<pc, accepted, pfd_idx, procVars, sockVars, pollVars,
                 viewVars, tabVars, running>>

(* The three ways one round of the client loop goes: nothing reported, a   *)
(* hang-up, input.                                                         *)
SkipClient ==
  /\ pc = "clients" /\ InLoop
  /\ ~ pfds[pfd_idx].in
  /\ Advance
  /\ UNCHANGED <<up, down, tabVars, running>>

DropClient ==
  /\ pc = "clients" /\ InLoop
  /\ pfds[pfd_idx].hup
  /\ handle_client_disconnect(Current)
  /\ Advance
  /\ UNCHANGED running

ServeClient(sig) ==
  /\ pc = "clients" /\ InLoop
  /\ pfds[pfd_idx].in /\ ~ pfds[pfd_idx].hup
  /\ handle_client_message(Current, sig)
  /\ Advance

Kinds == {inq[k].kind : k \in DOMAIN inq}

LastOf(kinds) ==
  LET ks == {k \in DOMAIN inq : inq[k].kind \in kinds}
  IN  inq[CHOOSE k \in ks : \A l \in ks : l <= k]

(* Where the motions leave the pointer, clamped at 0 as the code does. *)
Pointer == IF "move" \in Kinds THEN LastOf({"move"}).x ELSE input.mouse

(* input_dispatch takes every queued event; later ones overwrite earlier.  *)
Dispatched ==
  [has_key_event   |-> input.has_key_event \/ "key" \in Kinds,
   has_mouse_event |-> input.has_mouse_event
                         \/ Kinds \cap {"move", "press", "release"} # {},
   mouse           |-> Pointer,
   last_button_pressed |->
     IF Kinds \cap {"press", "release"} = {} THEN input.last_button_pressed
     ELSE LastOf({"press", "release"}).kind = "press",
   want_exit       |-> input.want_exit \/ "exit" \in Kinds]

FocusAt(place) ==
  IF WindowsAt(wm, place) = {} THEN -1
  ELSE wm.windows[window_find_at(wm, place)].id

(* input_dispatch if poll reported libinput's entry, which the code takes  *)
(* to be pfds[pfd_idx]; then compositor_route_input, which follows the     *)
(* pointer with the focus and clears the mouse flag.                       *)
InputReported ==
  /\ HasLibinput
  /\ pfd_idx < nfds - 1
  /\ IF pfd_idx <= Len(pfds) THEN pfds[pfd_idx].in ELSE input_in

(* The iteration's locals are dead until the next one sets them again.     *)
ForgetPoll ==
  /\ pfds' = <<>>
  /\ listen_in' = FALSE
  /\ input_in' = FALSE
  /\ accepted' = -1
  /\ i' = 0
  /\ pfd_idx' = 1

compositor_route_input(in) ==
  IF in.has_mouse_event
  THEN /\ focused_window_id' = FocusAt(in.mouse)
       /\ input' = [in EXCEPT !.has_mouse_event = FALSE]
  ELSE /\ input' = in
       /\ UNCHANGED focused_window_id

(* The client loop is over. *)
InputStep ==
  /\ pc = "clients"
  /\ ~ InLoop
  /\ pc' = "key"
  /\ \/ /\ InputReported
        /\ inq' = <<>>
        /\ compositor_route_input(Dispatched)
     \/ /\ ~ InputReported
        /\ UNCHANGED inq
        /\ compositor_route_input(input)
  /\ ForgetPoll
  /\ UNCHANGED <<peer, handles, creates, sockVars, tabVars, running>>

(* Mutant of SendToWindow: the window's own slot is used as a client index. *)
MutSendToSlot(w, types, sig) ==
  LET win == wm.windows[w] IN
  IF clients[w].active
  THEN Send(clients[w].pid,
            [k \in DOMAIN types |-> Evt(types[k], win.id)], sig)
  ELSE ~ sig /\ UNCHANGED <<down, running>>

(* broadcast_input_events, first half: the key goes to the client of the   *)
(* focused window, if that window still exists.                            *)
SendToWindow(w, types, sig) ==
  LET win == wm.windows[w] IN
  IF clients[win.client_idx].active
  THEN Send(clients[win.client_idx].pid,
            [k \in DOMAIN types |-> Evt(types[k], win.id)], sig)
  ELSE ~ sig /\ UNCHANGED <<down, running>>

broadcast_key(sig) ==
  /\ pc = "key"
  /\ pc' = "mouse"
  /\ input' = [input EXCEPT !.has_key_event = FALSE]
  /\ IF input.has_key_event /\ window_known(wm, focused_window_id)
     THEN SendToWindow(window_find(wm, focused_window_id),
                       <<"MSG_KEY_EVENT">>, sig)
     ELSE ~ sig /\ UNCHANGED <<down, running>>
  /\ UNCHANGED <<procVars, up, backlog, tabVars, pollVars, focused_window_id,
                 accepted, i, pfd_idx>>

(* Second half: mouse events go to the window under the pointer. *)
broadcast_mouse(sig) ==
  /\ pc = "mouse"
  /\ pc' = "render"
  /\ input' = [input EXCEPT !.has_mouse_event = FALSE]
  /\ IF input.has_mouse_event /\ WindowsAt(wm, input.mouse) # {}
     THEN SendToWindow(window_find_at(wm, input.mouse),
                       IF input.last_button_pressed
                       THEN <<"MSG_MOUSE_MOVE", "MSG_MOUSE_BUTTON">>
                       ELSE <<"MSG_MOUSE_MOVE">>, sig)
     ELSE ~ sig /\ UNCHANGED <<down, running>>
  /\ UNCHANGED <<procVars, up, backlog, tabVars, pollVars, focused_window_id,
                 accepted, i, pfd_idx>>

(* Mutant of KeepRunning: the exit chord is dispatched and forgotten. *)
MutKeepIgnoresExit == running

(* if (input.want_exit) running = 0 *)
KeepRunning == running /\ ~ input.want_exit

compositor_render ==
  /\ pc = "render"
  /\ pc' = "poll"
  /\ running' = KeepRunning
  /\ wm' = IF Dirty(wm) THEN Composited(wm) ELSE wm
  /\ UNCHANGED <<procVars, sockVars, clients, client_count, pollVars,
                 focused_window_id, input, accepted, i, pfd_idx>>

(* Out of the loop: compositor_shutdown, input_shutdown,                   *)
(* socket_server_shutdown (closes every client, counts nothing).           *)
Shutdown ==
  /\ pc = "poll"
  /\ ~ running
  /\ pc' = "exit"
  /\ clients' = [s \in Slots |-> [clients[s] EXCEPT !.active = FALSE]]
  /\ up' = [p \in Pids |-> <<>>]
  /\ backlog' = <<>>
  /\ UNCHANGED <<procVars, down, client_count, wm, pollVars, viewVars, accepted,
                 i, pfd_idx, running>>

(* The process is gone; its clients may live on. *)
Exited == pc = "exit" /\ UNCHANGED vars
-----------------------------------------------------------------------------
Init ==
  /\ peer = [p \in Pids |-> "new"]
  /\ handles = [p \in Pids |-> {}]
  /\ creates = 0
  /\ up = [p \in Pids |-> <<>>]
  /\ down = [p \in Pids |-> <<>>]
  /\ backlog = <<>>
  /\ clients = [s \in Slots |-> [active |-> FALSE, pid |-> NoPid]]
  /\ client_count = 0
  /\ wm = window_manager_init
  /\ focused_window_id = -1
  /\ inq = <<>>
  /\ input = [has_key_event |-> FALSE, has_mouse_event |-> FALSE,
              mouse |-> 0, last_button_pressed |-> FALSE, want_exit |-> FALSE]
  /\ running = TRUE
  /\ pc = "poll"
  /\ pfds = <<>>
  /\ listen_in = FALSE
  /\ input_in = FALSE
  /\ accepted = -1
  /\ i = 0
  /\ pfd_idx = 1

Client(p) ==
  \/ display_connect(p)
  \/ client_window_create(p)
  \/ client_window_commit(p)
  \/ client_window_move(p)
  \/ client_window_destroy(p)
  \/ SendUnknown(p)
  \/ ClientRead(p)
  \/ display_disconnect(p)

Server ==
  \/ Poll
  \/ socket_server_accept
  \/ SkipClient
  \/ DropClient
  \/ ServeClient(FALSE)
  \/ InputStep
  \/ broadcast_key(FALSE)
  \/ broadcast_mouse(FALSE)
  \/ compositor_render
  \/ Shutdown

(* A signal while the server waits in recv or send. *)
Interrupted ==
  /\ Signals # {}
  /\ ServeClient(TRUE) \/ broadcast_key(TRUE)

Next ==
  \/ Server
  \/ Interrupted
  \/ \E p \in Pids : Client(p)
  \/ \E e \in {v \in InputEvents : v.kind \in InputKinds} : UserInput(e)
  \/ \E sig \in Signals : signal_handler(sig)
  \/ Exited

Spec == Init /\ [][Next]_vars

(* The server thread runs whenever it can, and clients read what they are  *)
(* sent, as the demos do in their event loops.  Nothing else is fair.      *)
FairSpec == Spec /\ WF_vars(Server) /\ \A p \in Pids : WF_vars(ClientRead(p))
-----------------------------------------------------------------------------
(* Properties.                                                             *)

ProcTypes ==
  /\ peer \in [Pids -> {"new", "open", "closed"}]
  /\ handles \in [Pids -> SUBSET Nat]
  /\ creates \in Nat
  /\ inq \in Seq(InputEvents)

SockTypes ==
  /\ up \in [Pids -> Seq(Requests)]
  /\ down \in [Pids -> Seq(Events)]
  /\ backlog \in Seq(Pids)

TabTypes ==
  /\ clients \in [Slots -> [active: BOOLEAN, pid: Pids \cup {NoPid}]]
  /\ client_count \in Int
  /\ wm \in WindowTable

PollEntries == [pid: Pids \cup {NoPid}, in: BOOLEAN, hup: BOOLEAN]

PollTypes ==
  /\ pfds \in Seq(PollEntries)
  /\ listen_in \in BOOLEAN
  /\ input_in \in BOOLEAN

ViewTypes ==
  /\ focused_window_id \in Nat \cup {-1}
  /\ input \in [has_key_event: BOOLEAN, has_mouse_event: BOOLEAN,
                mouse: Places, last_button_pressed: BOOLEAN,
                want_exit: BOOLEAN]

LoopTypes ==
  /\ pc \in {"poll", "accept", "clients", "key", "mouse", "render", "exit"}
  /\ accepted \in Slots \cup {-1}
  /\ i \in Nat
  /\ pfd_idx \in Nat
  /\ running \in BOOLEAN

(* Every variable keeps the type its C declaration gives it, the pointer   *)
(* stays on the screen and every table index in its table.                 *)
TypeOK ==
  /\ ProcTypes
  /\ SockTypes
  /\ TabTypes
  /\ PollTypes
  /\ ViewTypes
  /\ LoopTypes

(* Accepts, disconnects, failed creations and the destruction of a dead    *)
(* client's windows keep the two counters equal to what the tables hold,   *)
(* until socket_server_shutdown, which does not count.                     *)
CountsMatch ==
  pc # "exit" =>
    /\ client_count = Cardinality(Active)
    /\ wm.window_count = Cardinality(Visible(wm))

(* A client slot is reused as soon as it is free, but never while a window *)
(* of its previous client exists: every visible window belongs to the      *)
(* process that is connected in its slot now.                              *)
OwnersConnected ==
  pc # "exit" =>
    \A s \in Visible(wm) :
      LET win == wm.windows[s] IN
      /\ clients[win.client_idx].active
      /\ clients[win.client_idx].pid = win.pid

(* Ids are not reused: no two visible windows have the same one, so        *)
(* window_find means one window, and neither an id in flight nor the       *)
(* focus names a window that is yet to be created.                         *)
IdsOf(msgs) == {msgs[k].id : k \in DOMAIN msgs} \ {0}

Known(p) == (handles[p] \ {0}) \cup IdsOf(down[p]) \cup IdsOf(up[p])

IdsDistinct ==
  /\ \A s, t \in Visible(wm) :
       wm.windows[s].id = wm.windows[t].id => s = t
  /\ focused_window_id < wm.next_id
  /\ \A p \in Pids : \A id \in Known(p) : id < wm.next_id

(* No id ever reaches two clients, whatever slots and buffers they shared  *)
(* in turn: not in a reply, an event, a request or a window_t.             *)
IdsPrivate ==
  \A p, q \in Pids : p # q => Known(p) \cap Known(q) = {}

(* The window of an id is owned by the one client that knows the id. *)
KnownToOwner ==
  \A p \in Pids, s \in Visible(wm) :
    wm.windows[s].id \in Known(p) => wm.windows[s].pid = p

(* What every step of the server and of its clients preserves.             *)
IInv ==
  /\ TypeOK
  /\ TableOK(wm)
  /\ \A s \in Active : clients[s].pid \in Pids
  /\ CountsMatch
  /\ OwnersConnected
  /\ IdsDistinct
  /\ IdsPrivate
  /\ KnownToOwner
  /\ pc = "accept" /\ listen_in => backlog # <<>>

(* When the client loop is over, pfd_idx stands at libinput's entry, even  *)
(* if clients were accepted or dropped since poll().                       *)
InputEntryFound ==
  pc = "clients" /\ ~ InLoop /\ HasLibinput => pfd_idx = Len(pfds) + 1

(* The entry the loop reads for a client is the one poll() filled for that *)
(* client, unless a client accepted in this iteration, and perhaps dropped *)
(* again since, was put in its slot or a lower one.                        *)
ShiftedAt(s) == accepted \in 0 .. s

EntryOfClient ==
  pc = "clients" /\ InLoop /\ ~ ShiftedAt(Current) =>
    pfds[pfd_idx].pid = clients[Current].pid

(* The two indices of the client loop stay paired, to the last entry.      *)
EntriesMatch == EntryOfClient /\ InputEntryFound

DropsDeserved ==
  pc # "poll" =>
    \A s \in Active :
      ~ clients'[s].active =>
        \/ peer[clients[s].pid] = "closed"
        \/ up[clients[s].pid] # <<>> /\ Head(up[clients[s].pid]).type = "unknown"
        \/ ShiftedAt(s)

(* A client is thrown out only if it hung up or sent something unknown, or *)
(* a newcomer shifted the poll entries under it.                           *)
DisconnectDeserved == [][DropsDeserved]_vars

ChangedByOwner ==
  \A s \in Visible(wm) :
    LET win == wm.windows[s] IN
    wm'.windows[s] # win =>
      \/ pc = "render"
      \/ pc = "clients" /\ clients[Current].pid = win.pid

(* Nobody but its owner moves or destroys a window, or marks it committed: *)
(* the server does not check the sender, so this rests on ids being        *)
(* private to the client they were given to.                               *)
OnlyOwnerChanges == [][ChangedByOwner]_vars

KeySent(p) ==
  /\ Len(down'[p]) > Len(down[p])
  /\ down'[p][Len(down'[p])].type = "MSG_KEY_EVENT"

KeyToFocusedOwner ==
  \A p \in Pids :
    KeySent(p) => \E s \in Visible(wm) : /\ wm.windows[s].id = focused_window_id
                                        /\ wm.windows[s].pid = p

(* A key event is put on the stream of the process that owns the focused   *)
(* window, and of nobody else.                                             *)
KeysToFocusedOwner == [][KeyToFocusedOwner]_vars
-----------------------------------------------------------------------------
(* Liveness, under FairSpec.                                               *)

(* The server waits in recv for a client that has sent nothing: a newcomer *)
(* in a lower slot has shifted the poll entries, and the entry it reads is *)
(* another client's.  Only that client, or a signal, can wake it.          *)
WaitsOnSilent ==
  /\ pc = "clients" /\ InLoop
  /\ up[clients[Current].pid] = <<>>
  /\ pfds[pfd_idx].pid # clients[Current].pid

(* When a client goes away its windows go too, unless the server exits or  *)
(* is caught waiting on a silent client.                                   *)
WindowsReaped ==
  \A p \in Pids :
    peer[p] = "closed" ~>
      \/ pc = "exit" \/ WaitsOnSilent
      \/ \A s \in Visible(wm) : wm.windows[s].pid # p

(* The loop stands at p's slot and goes on to read from it. *)
Serving(p) ==
  /\ pc = "clients" /\ InLoop
  /\ clients[Current].pid = p
  /\ pfds[pfd_idx].in

(* A request a connected client has sent is read, or the client dropped,   *)
(* or the server exits or is caught waiting on a silent client.            *)
RequestsServed ==
  \A p \in Pids :
    up[p] # <<>> ~>
      Serving(p) \/ ~ Attached(p) \/ pc = "exit" \/ WaitsOnSilent

(* README.md: "Press Ctrl+Alt+Backspace to exit the display server": also   *)
(* when the chord waits behind other input, with the same exception.  A    *)
(* signal ends it too, in a blocked call or not, and the flag is not lost. *)
ExitHonoured ==
  ~ running \/ (\E k \in DOMAIN inq : inq[k].kind = "exit") ~>
    pc = "exit" \/ WaitsOnSilent
-----------------------------------------------------------------------------
(* What the repository says, and the code does not do.                     *)

(* README.md, Protocol, Server -> Client: "MSG_MOUSE_MOVE - Mouse          *)
(* movement": a pointer motion that ends over a window is reported to the  *)
(* window's client while it stays connected.                               *)
MotionOver(p) ==
  /\ pc = "clients" /\ ~ InLoop /\ InputReported
  /\ "move" \in Kinds
  /\ WindowsAt(wm, Dispatched.mouse) # {}
  /\ wm.windows[window_find_at(wm, Dispatched.mouse)].pid = p

MotionReported ==
  \A p \in Pids :
    MotionOver(p) ~>
      \/ \E k \in DOMAIN down[p] : down[p][k].type = "MSG_MOUSE_MOVE"
      \/ peer[p] # "open"
=============================================================================
