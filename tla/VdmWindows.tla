----------------------------- MODULE VdmWindows -----------------------------
(***************************************************************************)
(* The window table of the VDM display server (display-server/window.c     *)
(* with the pixel buffers of display-server/shm.c).                        *)
(*                                                                         *)
(* The table is one value, wm, as it is one struct in the code; every      *)
(* function of window.c is an operator from a table to a table or to a     *)
(* slot.  Titles, sizes and pixels are left out.  A position is one        *)
(* coordinate and a window covers the single place it stands at, which     *)
(* keeps what window_find_at decides: which windows overlap a point and    *)
(* which of them is on top.                                                *)
(***************************************************************************)
EXTENDS Integers, FiniteSets

CONSTANTS
  MAX_CLIENTS,  \* slots of the client table (64 in socket.h)
  MAX_WINDOWS,  \* slots of the window table (128 in window.h)
  Pids,         \* the client processes; each makes one connection
  NoPid,        \* the pid of a slot that was never used
  Places        \* where a window or the pointer can be

ASSUME SizesAssumption ==
  /\ MAX_CLIENTS \in Nat \ {0}
  /\ MAX_WINDOWS \in Nat \ {0}
  /\ NoPid \notin Pids
  /\ 0 \in Places

Slots  == 0 .. MAX_CLIENTS - 1
WSlots == 0 .. MAX_WINDOWS - 1

Window ==
  [visible: BOOLEAN, id: Nat, pid: Pids \cup {NoPid}, client_idx: Slots,
   x: Places, has_pending_commit: BOOLEAN]

(* A slot without a window.  Every reader of a slot looks at visible first *)
(* and window_create clears the slot before it fills it, so what an        *)
(* earlier window left in the other fields does not matter.                *)
BlankWindow ==
  [visible |-> FALSE, id |-> 0, pid |-> NoPid, client_idx |-> 0,
   x |-> 0, has_pending_commit |-> FALSE]

WindowTable == [windows: [WSlots -> Window], window_count: Int, next_id: Nat]

window_manager_init ==
  [windows      |-> [s \in WSlots |-> BlankWindow],
   window_count |-> 0,
   next_id      |-> 1]
-----------------------------------------------------------------------------
Visible(wm) == {s \in WSlots : wm.windows[s].visible}

VisibleIds(wm) == {wm.windows[s].id : s \in Visible(wm)}

(* The first slot a loop from 0 stops at, and the last one it remembers.   *)
FirstSlot(S) == CHOOSE s \in S : \A t \in S : s <= t
LastSlot(S)  == CHOOSE s \in S : \A t \in S : t <= s

FreeWindows(wm) == WSlots \ Visible(wm)

WindowsWithId(wm, id) == {s \in Visible(wm) : wm.windows[s].id = id}

(* window_find: the first visible slot with that id. *)
window_known(wm, id) == WindowsWithId(wm, id) # {}
window_find(wm, id)  == FirstSlot(WindowsWithId(wm, id))

(* window_find_at: the loop keeps the last visible window over the place,  *)
(* so higher slots are on top of lower ones.                               *)
WindowsAt(wm, place)      == {s \in Visible(wm) : wm.windows[s].x = place}
window_find_at(wm, place) == LastSlot(WindowsAt(wm, place))

(* Mutant of window_create: next_id is read and not advanced. *)
MutCreateKeepsId(wm, idx, pid) ==
  [windows      |-> [wm.windows EXCEPT ![FirstSlot(FreeWindows(wm))] =
                       [visible |-> TRUE, id |-> wm.next_id, pid |-> pid,
                        client_idx |-> idx, x |-> 0,
                        has_pending_commit |-> FALSE]],
   window_count |-> wm.window_count + 1,
   next_id      |-> wm.next_id]

(* window_create in the first free slot. *)
window_create(wm, idx, pid) ==
  [windows      |-> [wm.windows EXCEPT ![FirstSlot(FreeWindows(wm))] =
                       [visible |-> TRUE, id |-> wm.next_id, pid |-> pid,
                        client_idx |-> idx, x |-> 0,
                        has_pending_commit |-> FALSE]],
   window_count |-> wm.window_count + 1,
   next_id      |-> wm.next_id + 1]

(* window_create when shm_create fails: the id is used up, the slot hidden *)
(* again and the window not counted.                                       *)
window_create_failed(wm) == [wm EXCEPT !.next_id = @ + 1]

(* window_destroy of the windows in S, one after the other. *)
DestroySlots(wm, S) ==
  [windows      |-> [s \in WSlots |->
                       IF s \in S THEN BlankWindow ELSE wm.windows[s]],
   window_count |-> wm.window_count - Cardinality(S),
   next_id      |-> wm.next_id]

window_destroy(wm, id) ==
  IF window_known(wm, id) THEN DestroySlots(wm, {window_find(wm, id)}) ELSE wm

(* The table with another window in slot s. *)
SetWindow(wm, s, win) ==
  [windows      |-> [wm.windows EXCEPT ![s] = win],
   window_count |-> wm.window_count,
   next_id      |-> wm.next_id]

window_move(wm, id, place) ==
  LET s == window_find(wm, id) IN
  IF window_known(wm, id)
  THEN SetWindow(wm, s, [wm.windows[s] EXCEPT !.x = place])
  ELSE wm

window_mark_committed(wm, id) ==
  LET s == window_find(wm, id) IN
  IF window_known(wm, id)
  THEN SetWindow(wm, s, [wm.windows[s] EXCEPT !.has_pending_commit = TRUE])
  ELSE wm

(* Mutant of WindowsOfClient: the client_idx test is lost. *)
MutWindowsOfAnybody(wm, idx) == Visible(wm)

(* The slots of the windows a client owns, whatever their ids. *)
WindowsOfClient(wm, idx) ==
  {s \in Visible(wm) : wm.windows[s].client_idx = idx}

(* compositor_render repaints only if some visible window has a commit     *)
(* pending, and then repaints all of them.                                 *)
Dirty(t) == \E s \in Visible(t) : t.windows[s].has_pending_commit

Composited(t) ==
  [t EXCEPT !.windows =
     [s \in WSlots |-> IF t.windows[s].visible
                       THEN [t.windows[s] EXCEPT !.has_pending_commit = FALSE]
                       ELSE t.windows[s]]]
-----------------------------------------------------------------------------
(* The table is sound: its counter counts the visible windows, their ids   *)
(* differ, and next_id is above all of them.                               *)
TableOK(t) ==
  /\ t \in WindowTable
  /\ t.next_id >= 1
  /\ t.window_count = Cardinality(Visible(t))
  /\ \A s \in Visible(t) : t.windows[s].id \in 1 .. t.next_id - 1
  /\ \A s, r \in Visible(t) : t.windows[s].id = t.windows[r].id => s = r
=============================================================================
