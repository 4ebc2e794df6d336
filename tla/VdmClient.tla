------------------------------ MODULE VdmClient ------------------------------
(***************************************************************************)
(* One program on libclient (libclient/client.c) and the stream the VDM    *)
(* display server writes to it.  The connection is a byte stream shared by *)
(* replies and events: window_create takes the next 12 bytes for its       *)
(* reply, event_poll looks at the next 4 and then takes a whole event.     *)
(*                                                                         *)
(* The stream is modelled in 4-byte words.  Every word keeps the value the *)
(* library compares, and, for the properties, the message it belongs to    *)
(* and its position there.  The descriptor of a window's buffer travels    *)
(* with the first word of MSG_WINDOW_CREATED, as the kernel hands it over  *)
(* with the first part of the message that is read.                        *)
(***************************************************************************)
EXTENDS Integers, Sequences, FiniteSets, SequencesExt

CONSTANTS
  MAX_WINDOWS,  \* slots of the server's window table
  Keycodes,     \* key codes the user types
  WindowIds,    \* ids the server's counter may have when it serves a call
  FdNumbers,    \* numbers the server's own descriptors may have
  TextWords,    \* what the text of a key event may hold
  MaxCreates,   \* bound on the calls of window_create
  DownCap       \* words the socket holds before the server's send waits

ASSUME ClientAssumption ==
  /\ MAX_WINDOWS \in Nat \ {0}
  /\ Keycodes \subseteq Nat
  /\ WindowIds \subseteq Nat \ {0}
  /\ FdNumbers \subseteq Nat
  /\ TextWords \subseteq Nat
  /\ MaxCreates \in Nat
  /\ DownCap \in Nat

VARIABLES
  up,       \* requests the server has not read yet
  down,     \* words the client has not read yet
  alive,    \* the server runs
  windows,  \* server: this client's windows, with the request of each
  next_id,  \* server: no later window has an id below this one
  handles,  \* client: the window_t it holds
  calls,    \* client: calls of window_create so far
  lib,      \* client: the library call that is under way
  need,     \* words recv_exact still waits for
  raced,    \* window_create took its reply with a key event in its way
  misread   \* window_create took a word inside a message for a reply's type

vars ==
  <<up, down, alive, windows, next_id, handles, calls, lib, need, raced, misread>>
serverVars == <<windows, next_id>>

MSG_WINDOW_CREATED == 101
MSG_KEY_EVENT      == 102
MSG_MOUSE_MOVE     == 103
MSG_MOUSE_BUTTON   == 104
MSG_WINDOW_RESIZE  == 105
MSG_WINDOW_CLOSE   == 106

(* Mutant of WordsOf: the padding at the end of the key event is left out. *)
MutWordsUnpadded(type) ==
  CASE type = MSG_WINDOW_CREATED -> 3
    [] type = MSG_KEY_EVENT -> 5
    [] type = MSG_WINDOW_CLOSE -> 2
    [] OTHER -> 4

(* sizeof each structure, in words. *)
WordsOf(type) ==
  CASE type = MSG_WINDOW_CREATED -> 3
    [] type = MSG_KEY_EVENT -> 6
    [] type = MSG_WINDOW_CLOSE -> 2
    [] OTHER -> 4

(* The types event_poll has a case for. *)
PolledTypes == MSG_KEY_EVENT .. MSG_WINDOW_CLOSE

Word(type, pos, val, fd) == [type |-> type, pos |-> pos, val |-> val, fd |-> fd]

(* The word that begins with the byte pressed: its value is never that of  *)
(* a message type, whatever the three bytes of text behind it are.         *)
Plain == 1

(* The id comes from a counter all clients share, the third word is the    *)
(* number the buffer's descriptor has in the server: either may happen to  *)
(* be the number of a message type.                                        *)
CreatedMsg(id, number) ==
  <<Word(MSG_WINDOW_CREATED, 1, MSG_WINDOW_CREATED, id),
    Word(MSG_WINDOW_CREATED, 2, id, 0), Word(MSG_WINDOW_CREATED, 3, number, 0)>>

CloseMsg ==
  <<Word(MSG_WINDOW_CLOSE, 1, MSG_WINDOW_CLOSE, 0),
    Word(MSG_WINDOW_CLOSE, 2, 0, 0)>>

KeyMsg(id, code, text) ==
  [k \in 1 .. 6 |->
     Word(MSG_KEY_EVENT, k,
          CASE k = 1 -> MSG_KEY_EVENT [] k = 2 -> id [] k = 3 -> code
            [] k = 4 -> Plain [] OTHER -> text, 0)]
-----------------------------------------------------------------------------
(* The server. *)

Room(msg) == Len(down) + Len(msg) <= DownCap

(* Mutants of ServeCreate: the slot stays taken when shm_create fails; a   *)
(* failed creation is not answered.                                        *)
MutCreateLeaksSlot ==
  /\ Cardinality(windows) < MAX_WINDOWS
  /\ \E id \in WindowIds, number \in FdNumbers :
       /\ id >= next_id
       /\ windows' = windows \cup {[id |-> id, call |-> Head(up).call]}
       /\ next_id' = id + 1
       /\ \/ Room(CreatedMsg(id, number)) /\ down' = down \o CreatedMsg(id, number)
          \/ Room(CloseMsg) /\ down' = down \o CloseMsg

MutCreateSilent ==
  \/ UNCHANGED <<windows, next_id, down>>
  \/ /\ Cardinality(windows) < MAX_WINDOWS
     /\ \E id \in WindowIds, number \in FdNumbers :
          /\ id >= next_id
          /\ Room(CreatedMsg(id, number))
          /\ down' = down \o CreatedMsg(id, number)
          /\ windows' = windows \cup {[id |-> id, call |-> Head(up).call]}
          /\ next_id' = id + 1

(* MSG_CREATE_WINDOW: the table is full (of anybody's windows), shm_create *)
(* fails, or there is a window.  Other clients, and creations that failed, *)
(* take ids in between.                                                    *)
ServeCreate ==
  \/ /\ Room(CloseMsg)
     /\ down' = down \o CloseMsg
     /\ UNCHANGED serverVars
  \/ /\ Cardinality(windows) < MAX_WINDOWS
     /\ \E id \in WindowIds, number \in FdNumbers :
          /\ id >= next_id
          /\ Room(CreatedMsg(id, number))
          /\ down' = down \o CreatedMsg(id, number)
          /\ windows' = windows \cup {[id |-> id, call |-> Head(up).call]}
          /\ next_id' = id + 1

ServeDestroy ==
  /\ windows' = {w \in windows : w.id # Head(up).id}
  /\ UNCHANGED <<next_id, down>>

handle_client_message ==
  /\ alive
  /\ up # <<>>
  /\ up' = Tail(up)
  /\ \/ Head(up).type = "MSG_CREATE_WINDOW" /\ ServeCreate
     \/ Head(up).type = "MSG_DESTROY_WINDOW" /\ ServeDestroy
  /\ UNCHANGED <<alive, handles, calls, lib, need, raced, misread>>

(* The user types while the pointer is over one of the client's windows. *)
broadcast_key(id, code, text) ==
  /\ alive
  /\ Room(KeyMsg(id, code, text))
  /\ down' = down \o KeyMsg(id, code, text)
  /\ UNCHANGED <<up, alive, serverVars, handles, calls, lib, need, raced, misread>>

(* The server exits; what it sent can still be read. *)
Exit ==
  /\ alive
  /\ alive' = FALSE
  /\ up' = <<>>
  /\ UNCHANGED <<down, serverVars, handles, calls, lib, need, raced, misread>>
-----------------------------------------------------------------------------
(* The client. *)

(* window_create up to send_msg; with the server gone it returns NULL. *)
CreateCall ==
  /\ lib = "idle"
  /\ calls < MaxCreates
  /\ calls' = calls + 1
  /\ IF alive
     THEN /\ up' = Append(up, [type |-> "MSG_CREATE_WINDOW", id |-> 0,
                               call |-> calls'])
          /\ lib' = "create"
     ELSE UNCHANGED <<up, lib>>
  /\ UNCHANGED <<down, alive, serverVars, handles, need, raced, misread>>

Taken(n) == SubSeq(down, 1, IF Len(down) < n THEN Len(down) ELSE n)

FdIn(words) == {words[k].fd : k \in DOMAIN words} \ {0}

(* The rest of window_create: no descriptor or another type gives NULL, a  *)
(* descriptor that came with the wrong type is closed.                     *)
NewHandles(words) ==
  IF words = <<>> \/ FdIn(words) = {} \/ Head(words).val # MSG_WINDOW_CREATED
  THEN {}
  ELSE {[id |-> words[2].val, fd |-> fd, call |-> calls] : fd \in FdIn(words)}

(* A key event stands before the reply, or right behind a reply shorter    *)
(* than the 12 bytes that are read for it.                                 *)
KeyInTheWay ==
  /\ \E k \in DOMAIN down : down[k].type = MSG_KEY_EVENT
  /\ Head(down).type # MSG_WINDOW_CREATED

(* The reply is taken to begin with a word in the middle of a message that *)
(* has the value of MSG_WINDOW_CREATED.                                    *)
TypeFromInside ==
  /\ down # <<>>
  /\ Head(down).val = MSG_WINDOW_CREATED
  /\ Head(down).pos # 1

(* recvmsg returns when there is something to read or the server is gone. *)
CanReceive == down # <<>> \/ ~ alive

(* recv_msg_with_fd and what window_create makes of it. *)
CreateReply ==
  /\ lib = "create"
  /\ CanReceive
  /\ down' = SubSeq(down, 4, Len(down))
  /\ handles' = handles \cup NewHandles(Taken(3))
  /\ raced' = (raced \/ KeyInTheWay)
  /\ misread' = (misread \/ TypeFromInside)
  /\ lib' = "idle"
  /\ UNCHANGED <<up, alive, serverVars, calls, need>>

(* recv_exact of n words: it takes what is there and waits for the rest. *)
RecvExact(n) ==
  /\ down' = SubSeq(down, n + 1, Len(down))
  /\ need' = n - Len(Taken(n))
  /\ lib' = IF need' = 0 THEN "idle" ELSE "poll"

(* event_poll needs a window_t.  With nothing to read, and with a type it  *)
(* does not know, it returns 0 and leaves the stream as it is.             *)
event_poll ==
  /\ lib = "idle"
  /\ handles # {}
  /\ down # <<>>
  /\ Head(down).val \in PolledTypes
  /\ RecvExact(WordsOf(Head(down).val))
  /\ UNCHANGED <<up, alive, serverVars, handles, calls, raced, misread>>

(* The loop of recv_exact goes on, or the server is gone and it gives up. *)
RecvMore ==
  /\ lib = "poll"
  /\ \/ down # <<>> /\ RecvExact(need)
     \/ down = <<>> /\ ~ alive /\ lib' = "idle" /\ need' = 0 /\ UNCHANGED down
  /\ UNCHANGED <<up, alive, serverVars, handles, calls, raced, misread>>

(* window_destroy; send_msg's failure is ignored and the window_t freed. *)
window_destroy ==
  /\ lib = "idle"
  /\ \E h \in handles :
       /\ handles' = handles \ {h}
       /\ up' = IF alive
                THEN Append(up, [type |-> "MSG_DESTROY_WINDOW", id |-> h.id,
                                 call |-> 0])
                ELSE up
  /\ UNCHANGED <<down, alive, serverVars, calls, lib, need, raced, misread>>
-----------------------------------------------------------------------------
Init ==
  /\ up = <<>>
  /\ down = <<>>
  /\ alive = TRUE
  /\ windows = {}
  /\ next_id = 1
  /\ handles = {}
  /\ calls = 0
  /\ lib = "idle"
  /\ need = 0
  /\ raced = FALSE
  /\ misread = FALSE

(* The application has no call left to make that could change anything. *)
Finished ==
  /\ ~ alive \/ handles = {}
  /\ calls = MaxCreates
  /\ UNCHANGED vars

Next ==
  \/ handle_client_message
  \/ \E w \in windows, code \in Keycodes, text \in TextWords :
       broadcast_key(w.id, code, text)
  \/ Exit
  \/ CreateCall
  \/ CreateReply
  \/ event_poll
  \/ RecvMore
  \/ window_destroy
  \/ Finished

Spec == Init /\ [][Next]_vars

(* The server serves what it polls, a library call that can go on does,    *)
(* and the application polls for events.                                   *)
FairSpec ==
  /\ Spec
  /\ WF_vars(handle_client_message)
  /\ WF_vars(CreateReply)
  /\ WF_vars(RecvMore)
  /\ WF_vars(event_poll)
-----------------------------------------------------------------------------
Calls == 1 .. MaxCreates

(* Every variable has its type and the stream holds whole words. *)
TypeOK ==
  /\ up \in Seq([type: {"MSG_CREATE_WINDOW", "MSG_DESTROY_WINDOW"}, id: Nat,
                 call: 0 .. MaxCreates])
  /\ \A k \in DOMAIN down :
       /\ down[k].type \in {MSG_WINDOW_CREATED, MSG_KEY_EVENT, MSG_WINDOW_CLOSE}
       /\ down[k].pos \in 1 .. 6
       /\ down[k].fd \in WindowIds \cup {0}
  /\ Len(down) <= DownCap
  /\ windows \subseteq [id: WindowIds, call: Calls]
  /\ \A h \in handles : h \in [id: Nat, fd: WindowIds, call: Calls]
  /\ next_id \in Nat \ {0}
  /\ calls \in 0 .. MaxCreates
  /\ lib \in {"idle", "create", "poll"}
  /\ need \in 0 .. 5
  /\ {alive, raced, misread} \subseteq BOOLEAN

(* A window_t joins the id of one window to the buffer of another only     *)
(* after window_create began to read inside a message, at an id, a         *)
(* descriptor's number or a text that has the value of MSG_WINDOW_CREATED; *)
(* and it never begins there unless a key event raced a reply before.      *)
BufferMatches ==
  /\ ~ misread => \A h \in handles : h.fd = h.id
  /\ misread => raced

(* As long as no window_create found a key event in the way of its reply,  *)
(* the stream is read in step: between calls it starts with a whole event  *)
(* that event_poll takes.  (After such a race event_poll may look at the   *)
(* same word for ever.)                                                    *)
InStep ==
  ~ raced /\ lib = "idle" /\ down # <<>> =>
    Head(down).pos = 1 /\ Head(down).val \in PolledTypes

(* What the stream and the handles look like between any two steps. *)
StreamSound == TypeOK /\ BufferMatches /\ InStep

(* With the same exception, a window_t is the answer to the call that      *)
(* returned it, so the width and height it maps are those of its buffer.   *)
AnswersOwnCall ==
  ~ raced =>
    \A h \in handles, w \in windows : h.id = w.id => h.call = w.call

(* And the server keeps no window the client knows nothing of.             *)
NoOrphan ==
  ~ raced /\ alive /\ lib = "idle" =>
    \A w \in windows :
      \/ \E h \in handles : h.id = w.id
      \/ \E k \in DOMAIN up : up[k].id = w.id

(* Server and client agree on the windows, unless a key event raced. *)
WindowsAnswered == AnswersOwnCall /\ NoOrphan

(* Every call of the library returns, whether the server answers or exits; *)
(* only recv_exact on a stream out of step may wait for good.              *)
CallsReturn == lib # "idle" ~> lib = "idle" \/ (raced /\ lib = "poll")
=============================================================================
