--------------------------- MODULE VdmScreenProofs ---------------------------
(***************************************************************************)
(* What the VDM display server keeps about page flips is what the kernel   *)
(* and the display do, for any number of windows, places and pictures.     *)
(***************************************************************************)
EXTENDS VdmScreen, VdmWindowsProofs

(* FlipsTracked is not inductive: the pictures in the buffers have their   *)
(* type because the window table is sound and its ids are bounded, and the *)
(* event poll() reported is still there when drm_handle_event reads it     *)
(* because only the client loop lies between.                              *)
ScreenInv ==
  /\ FlipsTracked
  /\ TableOK(wm)
  /\ wm.next_id <= MaxCreates + 1
  /\ drm_in => pc = "serve"

-----------------------------------------------------------------------------
(* What a repaint puts at a place is a picture of a window, or nothing. *)
LEMMA PaintType ==
  ASSUME ScreenInv
  PROVE  Paint \in [Places -> Pictures \cup {Unset, Background}]
<1>1. ASSUME NEW x \in Places, WindowsAt(wm, x) # {}
      PROVE  [id |-> wm.windows[window_find_at(wm, x)].id,
              n |-> drawn[window_find_at(wm, x)]] \in Pictures
  <2> DEFINE s == window_find_at(wm, x)
  <2>1. s \in Visible(wm) /\ s \in WSlots
    BY <1>1, FindAtTable DEF Visible
  <2>2. wm.windows[s].id \in 1 .. wm.next_id - 1 /\ wm.next_id \in Nat
    BY <2>1 DEF ScreenInv, TableOK, WindowTable
  <2>3. drawn[s] \in 0 .. MaxDraws
    BY <2>1 DEF ScreenInv, FlipsTracked, TypeOK
  <2>4. wm.windows[s].id \in 1 .. MaxCreates
    BY <2>2, ScreenAssumption DEF ScreenInv
  <2> HIDE DEF s
  <2>5. QED
    BY <2>3, <2>4 DEF Pictures, s
<1>2. QED
  BY <1>1 DEF Paint

(* The two buffers of drm_init and no flip pending satisfy the invariant. *)
LEMMA InitScreen == Init => ScreenInv
<1> SUFFICES ASSUME Init PROVE ScreenInv
  OBVIOUS
<1>1. TableOK(wm) /\ wm.next_id = 1
  BY InitTable DEF Init, window_manager_init
<1>2. composite \in Images
  BY DEF Init, Images
<1>3. /\ ~ moved /\ ~ flipping /\ ~ drm_in /\ ~ queued /\ ~ event
      /\ moved \in BOOLEAN /\ flipping \in BOOLEAN /\ drm_in \in BOOLEAN
      /\ queued \in BOOLEAN /\ event \in BOOLEAN
  BY Zenon DEF Init
<1>4. drawn \in [WSlots -> 0 .. MaxDraws] /\ buffers \in [Bufs -> Images]
  BY <1>2, ScreenAssumption DEF Init
<1>5. /\ front_buf \in Bufs /\ back_buf = 1 - front_buf /\ scanout \in Bufs
      /\ scanout = front_buf /\ pc = "poll" /\ scene \in Scenes
  BY DEF Init, Bufs
<1>6. wm \in WindowTable /\ wm.next_id <= MaxCreates + 1
  BY <1>1, ScreenAssumption DEF TableOK
<1>7. QED
  BY <1>1, <1>2, <1>3, <1>4, <1>5, <1>6 DEF ScreenInv, FlipsTracked, TypeOK,
     FlagTracksKernel, TornOnlyWhilePending

(* A client draws: only the picture in its window changes. *)
LEMMA DrawInv ==
  ASSUME ScreenInv, NEW s \in WSlots, Draw(s)
  PROVE  ScreenInv'
<1>1. drawn' \in [WSlots -> 0 .. MaxDraws]
  <2>1. drawn \in [WSlots -> 0 .. MaxDraws] /\ drawn[s] < MaxDraws
    BY DEF ScreenInv, FlipsTracked, TypeOK, Draw
  <2>2. QED
    BY <2>1, ScreenAssumption DEF Draw
<1>2. UNCHANGED <<kernelVars, bufVars, scene, wm, moved, drm_in, pc>>
  BY DEF Draw
<1>3. QED
  BY <1>1, <1>2 DEF ScreenInv, FlipsTracked, TypeOK, FlagTracksKernel,
     TornOnlyWhilePending, kernelVars, bufVars

(* The vertical blank turns a pending flip into an event and shows the     *)
(* buffer the driver already calls front_buf.                              *)
LEMMA VerticalBlankInv ==
  ASSUME ScreenInv, VerticalBlank
  PROVE  ScreenInv'
BY DEF ScreenInv, FlipsTracked, TypeOK, FlagTracksKernel,
   TornOnlyWhilePending, VerticalBlank, bufVars, tableVars

(* poll, which notes whether a flip event can be read, keeps the invariant. *)
LEMMA PollInv ==
  ASSUME ScreenInv, Poll
  PROVE  ScreenInv'
BY DEF ScreenInv, FlipsTracked, TypeOK, FlagTracksKernel,
   TornOnlyWhilePending, Poll, kernelVars, bufVars, tableVars

(* A request changes the window table and the pictures. *)
LEMMA RequestInv ==
  ASSUME ScreenInv, Request
  PROVE  ScreenInv'
<1>1. TableOK(wm)' /\ wm'.next_id <= MaxCreates + 1
  <2>1. CASE /\ FreeWindows(wm) # {}
             /\ wm.next_id <= MaxCreates
             /\ wm' = window_create(wm, 0, CHOOSE p \in Pids : TRUE)
    <3>1. (CHOOSE p \in Pids : TRUE) \in Pids /\ 0 \in Slots
      BY ScreenAssumption, SizesAssumption DEF Slots
    <3>2. wm.next_id \in Nat
      BY DEF ScreenInv, TableOK, WindowTable
    <3>3. TableOK(wm') /\ wm'.next_id = wm.next_id + 1
      BY <2>1, <3>1, CreateTable DEF ScreenInv
    <3>4. QED
      BY <2>1, <3>2, <3>3, ScreenAssumption
  <2>2. CASE \E s \in Visible(wm) :
               \/ wm' = window_mark_committed(wm, wm.windows[s].id)
               \/ \E x \in Places : wm' = window_move(wm, wm.windows[s].id, x)
    <3>1. SameWindows(wm, wm')
      BY <2>2, MoveTable, CommitTable DEF ScreenInv
    <3>2. TableOK(wm')
      BY <3>1, SameTable DEF ScreenInv
    <3>3. QED
      BY <3>1, <3>2 DEF ScreenInv, SameWindows
  <2>3. CASE \E s \in Visible(wm) : wm' = window_destroy(wm, wm.windows[s].id)
    BY <2>3, DestroyIdTable DEF ScreenInv
  <2>4. QED
    BY <2>1, <2>2, <2>3 DEF Request
<1>2. drawn' \in [WSlots -> 0 .. MaxDraws]
  <2>1. drawn \in [WSlots -> 0 .. MaxDraws]
    BY DEF ScreenInv, FlipsTracked, TypeOK
  <2>2. drawn' = drawn \/ \E s \in WSlots : drawn' = [drawn EXCEPT ![s] = 0]
    BY DEF Request, Visible
  <2>3. QED
    BY <2>1, <2>2, ScreenAssumption
<1>3. UNCHANGED <<kernelVars, bufVars, scene, moved, drm_in, pc>>
  BY DEF Request
<1>4. QED
  BY <1>1, <1>2, <1>3 DEF ScreenInv, FlipsTracked, TypeOK, TableOK,
     FlagTracksKernel, TornOnlyWhilePending, kernelVars, bufVars

(* drm_handle_event runs only with an event to read: the flag goes with it. *)
LEMMA EndServeInv ==
  ASSUME ScreenInv, EndServe
  PROVE  ScreenInv'
<1>1. FlagTracksKernel'
  <2>1. FlagTracksKernel /\ flipping \in BOOLEAN /\ queued \in BOOLEAN
        /\ event \in BOOLEAN /\ drm_in \in BOOLEAN
    BY DEF ScreenInv, FlipsTracked, TypeOK
  <2>2. ~ drm_in' /\ queued' = queued
    BY Zenon DEF EndServe
  <2>3. CASE drm_in
    <3>1. flipping /\ event /\ ~ queued
      BY <2>1, <2>3 DEF FlagTracksKernel
    <3>2. ~ flipping' /\ ~ event'
      BY <2>3, Zenon DEF EndServe, page_flip_handler
    <3>3. QED
      BY <2>2, <3>1, <3>2 DEF FlagTracksKernel
  <2>4. CASE ~ drm_in
    <3>1. flipping' = flipping /\ event' = event
      BY <2>4 DEF EndServe
    <3>2. QED
      BY <2>1, <2>2, <3>1 DEF FlagTracksKernel
  <2>5. QED
    BY <2>3, <2>4
<1>2. /\ flipping' \in BOOLEAN /\ event' \in BOOLEAN
      /\ moved' \in BOOLEAN /\ drm_in' \in BOOLEAN
  <2>1. flipping \in BOOLEAN /\ event \in BOOLEAN
    BY DEF ScreenInv, FlipsTracked, TypeOK
  <2>2. flipping' \in BOOLEAN /\ event' \in BOOLEAN /\ drm_in' \in BOOLEAN
    BY <2>1, Zenon DEF EndServe, page_flip_handler
  <2>3. moved' \in BOOLEAN
    <3>1. moved' \in {FALSE, "point" \in scene}
      BY DEF EndServe
    <3>2. ("point" \in scene) \in BOOLEAN
      OBVIOUS
    <3>3. QED
      BY <3>1, <3>2, Zenon
  <2>4. QED
    BY <2>2, <2>3
<1>3. /\ UNCHANGED <<scanout, queued, scene, wm, drawn, composite, buffers,
                     front_buf, back_buf>>
      /\ pc' = "compose" /\ ~ drm_in'
  BY DEF EndServe
<1>4. QED
  BY <1>1, <1>2, <1>3 DEF ScreenInv, FlipsTracked, TypeOK, TableOK,
     TornOnlyWhilePending

(* compositor_render draws the composite buffer only, and keeps the invariant. *)
LEMMA ComposeInv ==
  ASSUME ScreenInv, Compose
  PROVE  ScreenInv'
<1>1. composite' \in Images
  <2>1. composite \in Images /\ moved \in BOOLEAN
    BY DEF ScreenInv, FlipsTracked, TypeOK
  <2>2. [composite EXCEPT !.trail = @ \/ moved] \in Images
    BY <2>1 DEF Images
  <2>3. [paint |-> Paint, trail |-> FALSE] \in Images
    BY PaintType DEF Images
  <2>4. QED
    BY <2>2, <2>3 DEF Compose
<1>2. TableOK(wm)' /\ wm'.next_id <= MaxCreates + 1
  <2>1. SameWindows(wm, Composited(wm)) /\ TableOK(Composited(wm))
    BY CompositedTable, SameTable DEF ScreenInv
  <2>2. QED
    BY <2>1 DEF ScreenInv, Compose, SameWindows
<1>3. /\ UNCHANGED <<kernelVars, scene, drawn, buffers, front_buf, back_buf,
                     flipping, drm_in>>
      /\ pc = "compose" /\ pc' = "copy" /\ moved' = FALSE
  BY DEF Compose
<1>4. QED
  BY <1>1, <1>2, <1>3 DEF ScreenInv, FlipsTracked, TypeOK, TableOK,
     FlagTracksKernel, TornOnlyWhilePending, kernelVars

(* The copy into the back buffer keeps the invariant: it may tear only while a flip is pending. *)
LEMMA CopyBackInv ==
  ASSUME ScreenInv, CopyBack
  PROVE  ScreenInv'
BY DEF ScreenInv, FlipsTracked, TypeOK, FlagTracksKernel, Bufs,
   TornOnlyWhilePending, CopyBack, kernelVars, tableVars

(* A flip is asked for only when none is pending, and a flip that is       *)
(* refused leaves the indices as they were.                                *)
LEMMA FlipInv ==
  ASSUME ScreenInv, FirstFlip \/ SecondFlip
  PROVE  ScreenInv'
<1>1. /\ UNCHANGED <<scanout, event, scene, wm, drawn, moved, composite, buffers,
                     drm_in>>
      /\ pc \in {"flip", "again"} /\ pc' \in {"poll", "wait"}
  BY DEF FirstFlip, SecondFlip, tableVars
<1>2. ~ drm_in
  BY <1>1 DEF ScreenInv
<1>3. CASE UNCHANGED <<front_buf, back_buf, flipping, queued>>
  BY <1>1, <1>2, <1>3 DEF ScreenInv, FlipsTracked, TypeOK, TableOK,
     FlagTracksKernel, TornOnlyWhilePending
<1>4. CASE ~ flipping /\ FlipQueued
  <2>1. flipping' /\ queued' /\ flipping' \in BOOLEAN /\ queued' \in BOOLEAN
    BY <1>4, Zenon DEF FlipQueued
  <2>2. ~ queued /\ ~ event /\ scanout = front_buf
    BY <1>4 DEF ScreenInv, FlipsTracked, FlagTracksKernel, TornOnlyWhilePending
  <2>3. /\ front_buf' \in Bufs /\ back_buf' = 1 - front_buf'
        /\ scanout' = back_buf'
    BY <1>1, <1>4, <2>2 DEF ScreenInv, FlipsTracked, TypeOK, FlipQueued, Bufs
  <2>4. ~ event' /\ event' \in BOOLEAN /\ ~ drm_in' /\ drm_in' \in BOOLEAN
    BY <1>1, <1>2, <2>2 DEF ScreenInv, FlipsTracked, TypeOK
  <2>5. QED
    BY <1>1, <2>1, <2>3, <2>4 DEF ScreenInv, FlipsTracked, TypeOK, TableOK,
       FlagTracksKernel, TornOnlyWhilePending
<1>5. QED
  BY <1>3, <1>4, Zenon DEF FirstFlip, SecondFlip, FlipRefused

(* drm_wait_flip reads the event of the pending flip and clears the flag with it. *)
LEMMA WaitFlipInv ==
  ASSUME ScreenInv, drm_wait_flip
  PROVE  ScreenInv'
<1>1. /\ UNCHANGED <<scanout, queued, scene, wm, drawn, moved, composite, buffers,
                     front_buf, back_buf, drm_in>>
      /\ pc = "wait" /\ pc' \in {"wait", "again"}
  BY DEF drm_wait_flip, tableVars
<1>2. ~ drm_in
  BY <1>1 DEF ScreenInv
<1>3. CASE flipping /\ event /\ page_flip_handler
  <2>1. ~ queued /\ ~ queued'
    BY <1>1, <1>3 DEF ScreenInv, FlipsTracked, TypeOK, FlagTracksKernel
  <2>2. ~ flipping' /\ ~ event' /\ flipping' \in BOOLEAN /\ event' \in BOOLEAN
    BY <1>3, Zenon DEF page_flip_handler
  <2>3. QED
    BY <1>1, <1>2, <2>1, <2>2 DEF ScreenInv, FlipsTracked, TypeOK, TableOK,
       FlagTracksKernel, TornOnlyWhilePending
<1>4. CASE UNCHANGED <<flipping, event>>
  BY <1>1, <1>2, <1>4 DEF ScreenInv, FlipsTracked, TypeOK, TableOK,
     FlagTracksKernel, TornOnlyWhilePending
<1>5. QED
  BY <1>3, <1>4, Zenon DEF drm_wait_flip

(* One step of the server or of the display keeps the invariant. *)
LEMMA NextScreen == ScreenInv /\ [Next]_vars => ScreenInv'
<1> SUFFICES ASSUME ScreenInv, [Next]_vars PROVE ScreenInv'
  OBVIOUS
<1>1. CASE UNCHANGED vars
  BY <1>1 DEF vars, kernelVars, bufVars, tableVars, ScreenInv, FlipsTracked,
     TypeOK, TableOK, FlagTracksKernel, TornOnlyWhilePending
<1>2. QED
  BY <1>1, DrawInv, VerticalBlankInv, PollInv, RequestInv, EndServeInv,
     ComposeInv, CopyBackInv, FlipInv, WaitFlipInv DEF Next, Server

-----------------------------------------------------------------------------
(* drm->flipping says what the kernel has pending, through refused flips   *)
(* and events read by drm_handle_event or drm_wait_flip, so that the       *)
(* server never waits for an event that cannot come; and the display shows *)
(* the back buffer exactly while a flip is pending, which is the only time *)
(* the copy of compositor_render can tear it.                              *)
THEOREM FlipsCorrect == Spec => []FlipsTracked
<1>1. ScreenInv => FlipsTracked
  BY DEF ScreenInv
<1>2. QED
  BY <1>1, InitScreen, NextScreen, PTL DEF Spec
=============================================================================
