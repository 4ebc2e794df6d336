-------------------------- MODULE VdmWindowsProofs --------------------------
(***************************************************************************)
(* What the functions of window.c do to any window table, of any size.     *)
(***************************************************************************)
EXTENDS VdmWindows, FiniteSetTheorems, WellFoundedInduction, TLAPS

-----------------------------------------------------------------------------
(* The first-fit loops: a set of slots has a least and a greatest member.  *)

(* "Less than" as the relation the library's well-founded minimum asks for. *)
LEMMA LessRel ==
  ASSUME NEW t \in Nat, NEW s \in Nat, t < s
  PROVE  <<t, s>> \in OpToRel(<, Nat)
BY DEF OpToRel

(* A loop from 0 upwards stops: every non-empty set of slots has a first. *)
LEMMA LeastExists ==
  ASSUME NEW S, S \subseteq Nat, S # {}
  PROVE  \E s \in S : \A t \in S : s <= t
<1>1. PICK s \in S : \A t \in S : ~ (<<t, s>> \in OpToRel(<, Nat))
  BY NatLessThanWellFounded, WFMin, Zenon
<1>2. \A t \in S : ~ (t < s)
  BY <1>1, LessRel, Zenon
<1>3. QED
  BY <1>2

(* A loop that overwrites its result ends with the last slot of a set. *)
LEMMA GreatestExists ==
  ASSUME NEW n \in Nat, NEW S, S \subseteq 0 .. n, S # {}
  PROVE  \E s \in S : \A t \in S : t <= s
<1> DEFINE T == {n - s : s \in S}
<1>1. T \subseteq Nat
  OBVIOUS
<1>2. T # {}
  <2>1. PICK s \in S : TRUE
    OBVIOUS
  <2>2. n - s \in T
    BY <2>1
  <2>3. QED
    BY <2>2
<1>3. PICK t \in T : \A u \in T : t <= u
  BY <1>1, <1>2, LeastExists
<1>4. PICK s \in S : t = n - s
  OBVIOUS
<1>5. \A r \in S : n - s <= n - r
  BY <1>3, <1>4
<1>6. QED
  BY <1>5

(* FirstSlot picks a member of the set it is given. *)
LEMMA FirstSlotIn ==
  ASSUME NEW S, S \subseteq Nat, S # {}
  PROVE  FirstSlot(S) \in S
BY LeastExists DEF FirstSlot

(* LastSlot picks a member of the set it is given. *)
LEMMA LastSlotIn ==
  ASSUME NEW n \in Nat, NEW S, S \subseteq 0 .. n, S # {}
  PROVE  LastSlot(S) \in S
BY GreatestExists DEF LastSlot

(* The slot sets of both tables are finite sets of naturals. *)
LEMMA SlotSets ==
  /\ Slots \subseteq Nat /\ WSlots \subseteq Nat
  /\ IsFiniteSet(Slots) /\ IsFiniteSet(WSlots)
<1>1. IsFiniteSet(0 .. MAX_CLIENTS - 1) /\ IsFiniteSet(0 .. MAX_WINDOWS - 1)
  BY SizesAssumption, FS_Interval
<1>2. QED
  BY <1>1, SizesAssumption DEF Slots, WSlots

(* The windows shown are finitely many, so they can be counted. *)
LEMMA VisibleFinite ==
  ASSUME NEW t, NEW S, S \subseteq Visible(t)
  PROVE  IsFiniteSet(S) /\ S \subseteq WSlots /\ Cardinality(S) \in Nat
BY SlotSets, FS_Subset, FS_CardinalityType DEF Visible

(* A slot that window_destroy has cleared is still a window_t. *)
LEMMA BlankIsWindow == BlankWindow \in Window
BY SizesAssumption DEF BlankWindow, Window, Slots
-----------------------------------------------------------------------------
(* window_manager_init makes a sound, empty table. *)
LEMMA InitTable ==
  TableOK(window_manager_init) /\ Visible(window_manager_init) = {}
<1>1. Visible(window_manager_init) = {}
  BY DEF Visible, window_manager_init, BlankWindow
<1>2. window_manager_init \in WindowTable
  BY BlankIsWindow DEF window_manager_init, WindowTable
<1>3. window_manager_init.window_count = 0 /\ window_manager_init.next_id = 1
  BY DEF window_manager_init
<1>4. QED
  BY <1>1, <1>2, <1>3, FS_EmptySet DEF TableOK

(* window_create fills one free slot with a window of a new id. *)
LEMMA CreateTable ==
  ASSUME NEW t, TableOK(t), FreeWindows(t) # {},
         NEW idx \in Slots, NEW pid \in Pids
  PROVE  LET u == window_create(t, idx, pid)
             f == FirstSlot(FreeWindows(t))
         IN  /\ TableOK(u)
             /\ f \in WSlots \ Visible(t)
             /\ Visible(u) = Visible(t) \cup {f}
             /\ u.next_id = t.next_id + 1
             /\ u.windows[f].id = t.next_id
             /\ u.windows[f].pid = pid
             /\ u.windows[f].client_idx = idx
             /\ \A s \in Visible(t) : u.windows[s] = t.windows[s]
<1> DEFINE u == window_create(t, idx, pid)
           f == FirstSlot(FreeWindows(t))
           new == [visible |-> TRUE, id |-> t.next_id, pid |-> pid,
                   client_idx |-> idx, x |-> 0, has_pending_commit |-> FALSE]
<1>t. /\ t \in WindowTable
      /\ t.windows \in [WSlots -> Window]
      /\ t.next_id \in Nat
      /\ t.window_count \in Int
  BY DEF TableOK, WindowTable
<1>1. f \in WSlots \ Visible(t)
  BY FirstSlotIn, SlotSets DEF FreeWindows
<1>2. new \in Window
  BY <1>t, SizesAssumption DEF Window
<1>3. /\ u.windows = [t.windows EXCEPT ![f] = new]
      /\ u.window_count = t.window_count + 1
      /\ u.next_id = t.next_id + 1
  BY DEF window_create
<1>4. u \in WindowTable
  <2>1. u = [windows |-> [t.windows EXCEPT ![f] = new],
             window_count |-> t.window_count + 1, next_id |-> t.next_id + 1]
    BY DEF window_create
  <2>2. [t.windows EXCEPT ![f] = new] \in [WSlots -> Window]
    BY <1>t, <1>2
  <2>3. QED
    BY <2>1, <2>2, <1>t DEF WindowTable
<1>5. u.windows[f] = new /\ \A s \in WSlots \ {f} : u.windows[s] = t.windows[s]
  BY <1>1, <1>3, <1>t
<1>6. Visible(u) = Visible(t) \cup {f}
  BY <1>1, <1>5 DEF Visible
<1>7. Cardinality(Visible(u)) = Cardinality(Visible(t)) + 1
  BY <1>1, <1>6, VisibleFinite, FS_AddElement
<1>8. \A s \in Visible(t) : u.windows[s] = t.windows[s]
  BY <1>1, <1>5 DEF Visible
<1>9. TableOK(u)
  <2>1. \A s \in Visible(u) : u.windows[s].id \in 1 .. u.next_id - 1
    BY <1>3, <1>5, <1>6, <1>8, <1>t DEF TableOK
  <2>2. \A s \in Visible(t) : u.windows[s].id # t.next_id
    BY <1>8, <1>t DEF TableOK
  <2>3. \A s, r \in Visible(u) : u.windows[s].id = u.windows[r].id => s = r
    BY <1>5, <1>6, <1>8, <2>2 DEF TableOK
  <2>4. QED
    BY <2>1, <2>3, <1>3, <1>4, <1>7, <1>t DEF TableOK
<1>10. QED
  BY <1>1, <1>3, <1>5, <1>6, <1>8, <1>9

(* shm_create fails: only the id is used up. *)
LEMMA CreateFailedTable ==
  ASSUME NEW t, TableOK(t)
  PROVE  LET u == window_create_failed(t)
         IN  /\ TableOK(u)
             /\ Visible(u) = Visible(t)
             /\ u.windows = t.windows
             /\ u.next_id = t.next_id + 1
<1> DEFINE u == window_create_failed(t)
<1>t. /\ t \in WindowTable
      /\ t.windows \in [WSlots -> Window]
      /\ t.next_id \in Nat
  BY DEF TableOK, WindowTable
<1>1. /\ u \in WindowTable
      /\ u.windows = t.windows
      /\ u.window_count = t.window_count
      /\ u.next_id = t.next_id + 1
  BY <1>t DEF window_create_failed, WindowTable
<1>2. Visible(u) = Visible(t)
  BY <1>1 DEF Visible
<1>3. \A s \in Visible(u) : u.windows[s].id \in 1 .. u.next_id - 1
  BY <1>t, <1>1, <1>2 DEF TableOK
<1>4. QED
  BY <1>t, <1>1, <1>2, <1>3 DEF TableOK

(* Destroying any set of visible windows leaves the others as they were. *)
LEMMA DestroyTable ==
  ASSUME NEW t, TableOK(t), NEW S, S \subseteq Visible(t)
  PROVE  LET u == DestroySlots(t, S)
         IN  /\ TableOK(u)
             /\ Visible(u) = Visible(t) \ S
             /\ u.next_id = t.next_id
             /\ \A s \in Visible(t) \ S : u.windows[s] = t.windows[s]
<1> DEFINE u == DestroySlots(t, S)
<1>t. /\ t \in WindowTable
      /\ t.windows \in [WSlots -> Window]
      /\ t.next_id \in Nat
      /\ t.window_count \in Int
  BY DEF TableOK, WindowTable
<1>1. IsFiniteSet(S) /\ IsFiniteSet(Visible(t)) /\ Cardinality(S) \in Nat
      /\ Cardinality(Visible(t)) \in Nat /\ S \subseteq WSlots
  BY VisibleFinite
<1>2. /\ u.windows = [s \in WSlots |-> IF s \in S THEN BlankWindow ELSE t.windows[s]]
      /\ u.window_count = t.window_count - Cardinality(S)
      /\ u.next_id = t.next_id
  BY DEF DestroySlots
<1>3. u \in WindowTable
  BY <1>t, <1>1, <1>2, BlankIsWindow DEF WindowTable, DestroySlots
<1>4. Visible(u) = Visible(t) \ S
  BY <1>2 DEF Visible, BlankWindow
<1>5. \A s \in Visible(t) \ S : u.windows[s] = t.windows[s]
  BY <1>2 DEF Visible
<1>6. Cardinality(Visible(u)) = Cardinality(Visible(t)) - Cardinality(S)
  <2>1. Visible(t) \cap S = S
    OBVIOUS
  <2>2. QED
    BY <2>1, <1>1, <1>4, FS_Difference
<1>7. QED
  BY <1>t, <1>2, <1>3, <1>4, <1>5, <1>6 DEF TableOK

(* A table that differs from a sound one only in positions and pending     *)
(* commits is sound.                                                       *)
SameWindows(t, u) ==
  /\ u \in WindowTable
  /\ u.window_count = t.window_count
  /\ u.next_id = t.next_id
  /\ \A s \in WSlots :
       /\ u.windows[s].visible = t.windows[s].visible
       /\ u.windows[s].id = t.windows[s].id
       /\ u.windows[s].pid = t.windows[s].pid
       /\ u.windows[s].client_idx = t.windows[s].client_idx

(* A step that leaves the ids and the visible slots alone keeps TableOK. *)
LEMMA SameTable ==
  ASSUME NEW t, NEW u, TableOK(t), SameWindows(t, u)
  PROVE  TableOK(u) /\ Visible(u) = Visible(t)
<1>1. Visible(u) = Visible(t)
  BY DEF SameWindows, Visible
<1>2. \A s \in Visible(t) : u.windows[s].id = t.windows[s].id
  BY DEF SameWindows, Visible
<1>3. QED
  BY <1>1, <1>2 DEF SameWindows, TableOK

(* window_find returns a visible window with the id asked for. *)
LEMMA FindTable ==
  ASSUME NEW t, NEW id, window_known(t, id)
  PROVE  /\ window_find(t, id) \in Visible(t)
         /\ window_find(t, id) \in WSlots
         /\ t.windows[window_find(t, id)].id = id
<1>1. WindowsWithId(t, id) \subseteq Nat /\ WindowsWithId(t, id) # {}
  BY SlotSets DEF WindowsWithId, Visible, window_known
<1>2. window_find(t, id) \in WindowsWithId(t, id)
  BY <1>1, FirstSlotIn DEF window_find
<1>3. QED
  BY <1>2 DEF WindowsWithId, Visible

(* window_destroy takes away at most the window of that id. *)
LEMMA DestroyIdTable ==
  ASSUME NEW t, TableOK(t), NEW id
  PROVE  LET u == window_destroy(t, id)
         IN  /\ TableOK(u)
             /\ u.next_id = t.next_id
             /\ \A s \in Visible(u) : s \in Visible(t) /\ u.windows[s] = t.windows[s]
<1> DEFINE S == {window_find(t, id)}
<1>1. CASE ~ window_known(t, id)
  BY <1>1 DEF window_destroy
<1>2. CASE window_known(t, id)
  <2>1. S \subseteq Visible(t) /\ window_destroy(t, id) = DestroySlots(t, S)
    BY <1>2, FindTable DEF window_destroy
  <2> HIDE DEF S
  <2>2. QED
    BY <2>1, DestroyTable
<1>3. QED
  BY <1>1, <1>2

(* window_find_at returns a visible window over the place. *)
LEMMA FindAtTable ==
  ASSUME NEW t, NEW place, WindowsAt(t, place) # {}
  PROVE  window_find_at(t, place) \in Visible(t)
<1>1. MAX_WINDOWS - 1 \in Nat /\ WindowsAt(t, place) \subseteq 0 .. MAX_WINDOWS - 1
  BY SizesAssumption DEF WindowsAt, Visible, WSlots
<1>2. window_find_at(t, place) \in WindowsAt(t, place)
  BY <1>1, LastSlotIn DEF window_find_at
<1>3. QED
  BY <1>2 DEF WindowsAt

(* Writing fields of one window other than id, owner and visible does so.   *)
LEMMA SetWindowTable ==
  ASSUME NEW t \in WindowTable, NEW s \in WSlots, NEW win \in Window,
         win.visible = t.windows[s].visible, win.id = t.windows[s].id,
         win.pid = t.windows[s].pid, win.client_idx = t.windows[s].client_idx
  PROVE  SameWindows(t, SetWindow(t, s, win))
<1>1. t.windows \in [WSlots -> Window]
  BY DEF WindowTable
<1>2. [t.windows EXCEPT ![s] = win] \in [WSlots -> Window]
  BY <1>1
<1>3. SetWindow(t, s, win) \in WindowTable
  BY <1>2 DEF SetWindow, WindowTable
<1>4. QED
  BY <1>1, <1>3 DEF SetWindow, SameWindows

(* window_move changes a place only. *)
LEMMA MoveTable ==
  ASSUME NEW t, TableOK(t), NEW id, NEW place \in Places
  PROVE  SameWindows(t, window_move(t, id, place))
<1>t. t \in WindowTable /\ t.windows \in [WSlots -> Window]
  BY DEF TableOK, WindowTable
<1>1. ASSUME NEW win \in Window
      PROVE  LET v == [win EXCEPT !.x = place]
             IN  /\ v \in Window
                 /\ v.visible = win.visible /\ v.id = win.id
                 /\ v.pid = win.pid /\ v.client_idx = win.client_idx
  BY DEF Window
<1>2. CASE window_known(t, id)
  BY <1>t, <1>1, <1>2, FindTable, SetWindowTable, Zenon DEF window_move
<1>3. CASE ~ window_known(t, id)
  BY <1>t, <1>3 DEF window_move, SameWindows
<1>4. QED
  BY <1>2, <1>3

(* window_mark_committed changes a flag only. *)
LEMMA CommitTable ==
  ASSUME NEW t, TableOK(t), NEW id
  PROVE  SameWindows(t, window_mark_committed(t, id))
<1>t. t \in WindowTable /\ t.windows \in [WSlots -> Window]
  BY DEF TableOK, WindowTable
<1>1. ASSUME NEW win \in Window
      PROVE  LET v == [win EXCEPT !.has_pending_commit = TRUE]
             IN  /\ v \in Window
                 /\ v.visible = win.visible /\ v.id = win.id
                 /\ v.pid = win.pid /\ v.client_idx = win.client_idx
  BY DEF Window
<1>2. CASE window_known(t, id)
  BY <1>t, <1>1, <1>2, FindTable, SetWindowTable, Zenon DEF window_mark_committed
<1>3. CASE ~ window_known(t, id)
  BY <1>t, <1>3 DEF window_mark_committed, SameWindows
<1>4. QED
  BY <1>2, <1>3

(* compositor_render clears the commits and leaves the windows as they are. *)
LEMMA CompositedTable ==
  ASSUME NEW t, TableOK(t)
  PROVE  SameWindows(t, Composited(t))
<1>t. t \in WindowTable /\ t.windows \in [WSlots -> Window]
  BY DEF TableOK, WindowTable
<1>1. ASSUME NEW win \in Window
      PROVE  LET v == [win EXCEPT !.has_pending_commit = FALSE]
             IN  /\ v \in Window
                 /\ v.visible = win.visible /\ v.id = win.id
                 /\ v.pid = win.pid /\ v.client_idx = win.client_idx
  BY DEF Window
<1>2. \A s \in WSlots : t.windows[s] \in Window
  BY <1>t
<1> DEFINE ws == [s \in WSlots |-> IF t.windows[s].visible
                       THEN [t.windows[s] EXCEPT !.has_pending_commit = FALSE]
                       ELSE t.windows[s]]
<1>3. \A s \in WSlots : ws[s] \in Window
  BY <1>1, <1>2
<1>4. ws \in [WSlots -> Window]
  BY <1>3
<1>5. \A s \in WSlots :
        /\ ws[s].visible = t.windows[s].visible /\ ws[s].id = t.windows[s].id
        /\ ws[s].pid = t.windows[s].pid /\ ws[s].client_idx = t.windows[s].client_idx
  BY <1>1, <1>2
<1>6. /\ Composited(t) = [t EXCEPT !.windows = ws]
      /\ Composited(t).windows = ws
      /\ Composited(t).window_count = t.window_count
      /\ Composited(t).next_id = t.next_id
      /\ Composited(t) \in WindowTable
  BY <1>t, <1>4 DEF Composited, WindowTable
<1>7. QED
  BY <1>5, <1>6 DEF SameWindows
=============================================================================
