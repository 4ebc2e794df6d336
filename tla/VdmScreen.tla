------------------------------ MODULE VdmScreen ------------------------------
(***************************************************************************)
(* What the VDM display server puts on the screen: the composite buffer    *)
(* and the repaint rule of compositor_render (display-server/compositor.c),*)
(* the two frame buffers and page flips of display-server/drm.c, and the   *)
(* kernel's side of a flip, which completes at some later vertical blank.  *)
(*                                                                         *)
(* The server thread runs the iteration of main.c from poll() to poll();   *)
(* what its clients ask for in one iteration is any sequence of requests   *)
(* on the table of module VdmWindows (module VdmServer has the sockets).   *)
(* An image gives for every place the picture that is topmost there, and   *)
(* says whether the pointer is also seen where it was before.  A copy      *)
(* between buffers is one step: what may be torn is the picture of a       *)
(* buffer that is written while the kernel shows it.                       *)
(***************************************************************************)
EXTENDS VdmWindows

CONSTANTS
  MaxCreates,  \* bound on the windows ever created
  MaxDraws,    \* bound on the pictures drawn into the windows there are
  Scenes       \* what goes on besides requests, one of these in a behaviour

ASSUME ScreenAssumption ==
  /\ MaxCreates \in Nat
  /\ MaxDraws \in Nat
  /\ Scenes \subseteq SUBSET {"draw", "point"}
  /\ Pids # {}

VARIABLES
  scene,      \* whether clients draw and whether the user moves the pointer
  wm,         \* window_manager_t
  drawn,      \* which picture each window's shared memory holds
  moved,      \* the pointer is no longer where it was drawn last
  composite,  \* comp->composite_buf
  buffers,    \* drm->buffers
  front_buf,
  back_buf,
  flipping,   \* drm->flipping
  drm_in,     \* POLLIN on drm.fd, as poll() left it
  scanout,    \* kernel: the buffer the display shows
  queued,     \* kernel: a flip to front_buf waits for the vertical blank
  event,      \* kernel: a flip-complete event can be read
  pc

kernelVars == <<scanout, queued, event>>
bufVars    == <<composite, buffers, front_buf, back_buf, flipping>>
tableVars  == <<scene, wm, drawn, moved>>
vars == <<kernelVars, bufVars, tableVars, drm_in, pc>>

Bufs == {0, 1}

Pictures == [id: 1 .. MaxCreates, n: 0 .. MaxDraws]

(* Not painted by compositor_init, and the 0x1a of a repaint. *)
Unset      == [id |-> 0, n |-> 0]
Background == [id |-> 0, n |-> 1]

Images ==
  [paint: [Places -> Pictures \cup {Unset, Background}], trail: BOOLEAN]
-----------------------------------------------------------------------------
(* Clients draw into their windows' memory whenever they like. *)
Draw(s) ==
  /\ "draw" \in scene
  /\ s \in Visible(wm)
  /\ \A r \in Visible(wm) : drawn[r] < MaxDraws
  /\ drawn' = [drawn EXCEPT ![s] = @ + 1]
  /\ UNCHANGED <<kernelVars, bufVars, scene, wm, moved, drm_in, pc>>

(* The vertical blank: the kernel shows the buffer it was given. *)
VerticalBlank ==
  /\ queued
  /\ queued' = FALSE
  /\ event' = TRUE
  /\ scanout' = front_buf
  /\ UNCHANGED <<bufVars, tableVars, drm_in, pc>>
-----------------------------------------------------------------------------
(* The server's iteration. *)

Poll ==
  /\ pc = "poll"
  /\ drm_in' = event
  /\ pc' = "serve"
  /\ UNCHANGED <<kernelVars, bufVars, tableVars>>

(* One request.  shm_create clears a new window's memory, shm_destroy       *)
(* gives it back.                                                          *)
Request ==
  /\ pc = "serve"
  /\ \/ /\ FreeWindows(wm) # {}
        /\ wm.next_id <= MaxCreates
        /\ wm' = window_create(wm, 0, CHOOSE p \in Pids : TRUE)
        /\ UNCHANGED drawn
     \/ \E s \in Visible(wm) :
          LET id == wm.windows[s].id IN
          \/ /\ \/ wm' = window_mark_committed(wm, id)
                \/ \E x \in Places : wm' = window_move(wm, id, x)
             /\ UNCHANGED drawn
          \/ /\ wm' = window_destroy(wm, id)
             /\ drawn' = [drawn EXCEPT ![s] = 0]
  /\ UNCHANGED <<kernelVars, bufVars, scene, moved, drm_in, pc>>

(* page_flip_handler, called by drmHandleEvent for the event it reads. *)
page_flip_handler ==
  /\ flipping' = FALSE
  /\ event' = FALSE

(* main.c after the client loop: drm_handle_event if poll() reported the   *)
(* descriptor, and compositor_route_input, which may move the pointer.     *)
EndServe ==
  /\ pc = "serve"
  /\ pc' = "compose"
  /\ IF drm_in THEN page_flip_handler ELSE UNCHANGED <<flipping, event>>
  /\ moved' \in {FALSE, "point" \in scene}
  /\ drm_in' = FALSE
  /\ UNCHANGED <<scanout, queued, scene, wm, drawn, composite, buffers,
                 front_buf, back_buf>>

(* Mutant of Paint: the memset to the background is left out. *)
MutPaintOver ==
  [x \in Places |->
     IF WindowsAt(wm, x) = {} THEN composite.paint[x]
     ELSE LET s == window_find_at(wm, x)
          IN  [id |-> wm.windows[s].id, n |-> drawn[s]]]

(* memset and composite_window on every visible window in slot order: at   *)
(* each place the last one painted stays.                                  *)
Paint ==
  [x \in Places |->
     IF WindowsAt(wm, x) = {} THEN Background
     ELSE LET s == window_find_at(wm, x)
          IN  [id |-> wm.windows[s].id, n |-> drawn[s]]]

(* Mutant of Compose: the first window found dirty is the only one painted *)
(* but all are marked clean.                                               *)
MutComposeFirstOnly ==
  /\ pc = "compose"
  /\ pc' = "copy"
  /\ composite' =
       [paint |-> IF Dirty(wm)
                    THEN LET s == FirstSlot({r \in Visible(wm) :
                                     wm.windows[r].has_pending_commit})
                         IN  [composite.paint EXCEPT ![wm.windows[s].x] =
                                [id |-> wm.windows[s].id, n |-> drawn[s]]]
                    ELSE composite.paint,
        trail |-> composite.trail \/ moved]
  /\ moved' = FALSE
  /\ wm' = IF Dirty(wm) THEN Composited(wm) ELSE wm
  /\ UNCHANGED <<kernelVars, scene, drawn, buffers, front_buf, back_buf,
                 flipping, drm_in>>

(* compositor_render up to compositor_draw_cursor: everything is painted   *)
(* again if some visible window has a commit pending, and nothing is       *)
(* otherwise; then the pointer is drawn over what is there.                *)
Compose ==
  /\ pc = "compose"
  /\ pc' = "copy"
  /\ composite' =
       IF Dirty(wm)
       THEN [paint |-> Paint, trail |-> FALSE]
       ELSE [composite EXCEPT !.trail = @ \/ moved]
  /\ moved' = FALSE
  /\ wm' = IF Dirty(wm) THEN Composited(wm) ELSE wm
  /\ UNCHANGED <<kernelVars, scene, drawn, buffers, front_buf, back_buf,
                 flipping, drm_in>>

(* memcpy to drm->buffers[drm->back_buf]. *)
CopyBack ==
  /\ pc = "copy"
  /\ pc' = "flip"
  /\ buffers' = [buffers EXCEPT ![back_buf] = composite]
  /\ UNCHANGED <<kernelVars, tableVars, composite, front_buf, back_buf,
                 flipping, drm_in>>

(* Mutant of FlipRefused: the buffers stay swapped. *)
MutRefusedSwaps ==
  /\ front_buf' = back_buf
  /\ back_buf' = front_buf
  /\ UNCHANGED <<flipping, queued>>

(* drm_page_flip, when no flip is pending: the kernel takes the request,   *)
(* or refuses it and the buffers are swapped back.                         *)
FlipQueued ==
  /\ front_buf' = back_buf
  /\ back_buf' = front_buf
  /\ flipping' = TRUE
  /\ queued' = TRUE

FlipRefused ==
  UNCHANGED <<flipping, queued, front_buf, back_buf>>

(* The first drm_page_flip of the frame; on failure the server waits.      *)
FirstFlip ==
  /\ pc = "flip"
  /\ \/ /\ flipping
        /\ pc' = "wait"
        /\ UNCHANGED <<front_buf, back_buf, flipping, queued>>
     \/ /\ ~ flipping
        /\ FlipQueued
        /\ pc' = "poll"
     \/ /\ ~ flipping
        /\ FlipRefused
        /\ pc' = "wait"
  /\ UNCHANGED <<scanout, event, tableVars, composite, buffers, drm_in>>

(* drm_wait_flip: while (flipping) read an event when there is one. *)
drm_wait_flip ==
  /\ pc = "wait"
  /\ \/ /\ flipping
        /\ event
        /\ page_flip_handler
        /\ UNCHANGED pc
     \/ /\ ~ flipping
        /\ pc' = "again"
        /\ UNCHANGED <<flipping, event>>
  /\ UNCHANGED <<scanout, queued, tableVars, composite, buffers,
                 front_buf, back_buf, drm_in>>

(* The second drm_page_flip, whose result nobody looks at. *)
SecondFlip ==
  /\ pc = "again"
  /\ pc' = "poll"
  /\ \/ flipping /\ UNCHANGED <<front_buf, back_buf, flipping, queued>>
     \/ ~ flipping /\ FlipQueued
     \/ ~ flipping /\ FlipRefused
  /\ UNCHANGED <<scanout, event, tableVars, composite, buffers, drm_in>>
-----------------------------------------------------------------------------
(* After compositor_init and drm_create_framebuffers: both frame buffers   *)
(* are black, the composite buffer is as malloc left it.                   *)
Init ==
  /\ scene \in Scenes
  /\ wm = window_manager_init
  /\ drawn = [s \in WSlots |-> 0]
  /\ moved = FALSE
  /\ composite = [paint |-> [x \in Places |-> Unset], trail |-> FALSE]
  /\ buffers = [b \in Bufs |-> composite]
  /\ front_buf = 0
  /\ back_buf = 1
  /\ flipping = FALSE
  /\ drm_in = FALSE
  /\ scanout = 0
  /\ queued = FALSE
  /\ event = FALSE
  /\ pc = "poll"

(* The steps of the server thread that do not wait for a client. *)
Server ==
  \/ Poll
  \/ EndServe
  \/ Compose
  \/ CopyBack
  \/ FirstFlip
  \/ drm_wait_flip
  \/ SecondFlip

Next ==
  \/ Server
  \/ Request
  \/ VerticalBlank
  \/ \E s \in WSlots : Draw(s)

Spec == Init /\ [][Next]_vars

FlipTaken == (FirstFlip \/ SecondFlip) /\ queued'

(* The server thread runs, an iteration serves finitely many requests, the *)
(* display reaches its vertical blanks, and the kernel, which refuses a    *)
(* flip while another process owns the display, does not refuse for ever.  *)
FairSpec ==
  /\ Spec
  /\ WF_vars(Server)
  /\ WF_vars(VerticalBlank)
  /\ SF_vars(FlipTaken)
-----------------------------------------------------------------------------
(* Every variable has its type; the two buffer indices are 0 and 1. *)
TypeOK ==
  /\ scene \in Scenes
  /\ wm \in WindowTable
  /\ drawn \in [WSlots -> 0 .. MaxDraws]
  /\ composite \in Images
  /\ buffers \in [Bufs -> Images]
  /\ front_buf \in Bufs /\ back_buf = 1 - front_buf
  /\ moved \in BOOLEAN /\ flipping \in BOOLEAN /\ drm_in \in BOOLEAN
  /\ queued \in BOOLEAN /\ event \in BOOLEAN
  /\ scanout \in Bufs
  /\ pc \in {"poll", "serve", "compose", "copy", "flip", "wait", "again"}

(* The driver's flag and the kernel's state never drift apart, through     *)
(* refused flips and events read in either place: while flipping there is  *)
(* exactly one flip pending or one event unread, and otherwise neither, so *)
(* drm_wait_flip always has an event to wait for and drmModePageFlip is    *)
(* never called with a flip pending.                                       *)
FlagTracksKernel ==
  /\ flipping => queued # event
  /\ ~ flipping => ~ queued /\ ~ event
  /\ drm_in => event

(* The display shows back_buf exactly while a flip waits for its vertical  *)
(* blank, and front_buf otherwise.  The copy of a frame therefore writes   *)
(* the buffer on display if it starts before the last flip has completed,  *)
(* which compositor_render does not look at until after the copy, and in   *)
(* no other case.                                                          *)
TornOnlyWhilePending == scanout = (IF queued THEN back_buf ELSE front_buf)

(* What drm.c keeps says what the kernel and the display do, always. *)
FlipsTracked == TypeOK /\ FlagTracksKernel /\ TornOnlyWhilePending

Screen == buffers[scanout]

Shows(id, n) == \E x \in Places : Screen.paint[x].id = id /\ Screen.paint[x].n >= n

(* Window id holds its picture n or a later one, and no other covers it. *)
OnTop(id, n) ==
  \E s \in Visible(wm) : /\ wm.windows[s].id = id
                         /\ drawn[s] >= n
                         /\ window_find_at(wm, wm.windows[s].x) = s

Committed(id) ==
  \E s \in Visible(wm) : wm.windows[s].id = id /\ wm.windows[s].has_pending_commit

(* A commit reaches the screen: the picture the window held, or a later    *)
(* one, is shown, unless the window is destroyed or another one covers it. *)
CommitShown ==
  \A id \in 1 .. MaxCreates, n \in 0 .. MaxDraws :
    Committed(id) /\ OnTop(id, n) ~> Shows(id, n) \/ ~ OnTop(id, n)

(* A repaint erases what is no longer there: windows destroyed before it   *)
(* and pointers it has left behind are gone from the screen soon after,    *)
(* unless the pointer moves on.                                            *)
(* Without a repaint, which only a commit causes, both stay.               *)
RepaintErases ==
  /\ \A id \in 1 .. MaxCreates :
       pc = "compose" /\ Dirty(wm) /\ id \notin VisibleIds(wm) ~> ~ Shows(id, 0)
  /\ pc = "compose" /\ Dirty(wm) ~> ~ Screen.trail \/ moved
=============================================================================
