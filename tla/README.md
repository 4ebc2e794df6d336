# Verification of pigOS

pigOS is two systems in one repository. One is a hobby operating system: a
single-threaded kernel with a shell, a file system in memory, users, a package
manager, drivers and a network stack. The other is VDM, a display server for
Linux with its client library, which pigOS ships as its graphical side. This
directory models the parts of both that keep state other parts rely on, checks
them with TLC and proves with TLAPS, for every value of the constants, all of
the safety properties that the passing runs check (section 6).

All paths below are relative to `src/pigOS/`.

## 1. Inventory

| Part | Source | State | Operations | Talks to |
|---|---|---|---|---|
| VDM event loop | `vdm/project/display-server/main.c` | `running`, poll array, loop indices | one iteration: poll, accept, clients, input, route, deliver, render | everything below |
| VDM sockets | `socket.c`, `socket.h` | 64 client slots, `client_count` | accept, send, send with descriptor, shutdown | clients, by messages |
| VDM windows | `window.c`, `shm.c` | 128 window slots, `window_count`, `next_id` | create, destroy, find, find at, move, commit | event loop |
| VDM input and routing | `input.c`, `compositor.c` | event flags, pointer, focus | dispatch, route, render | libinput, windows |
| VDM page flipping | `drm.c`, `tty.c` | front, back, `flipping` | flip, wait, handle event | the kernel's DRM |
| VDM client library | `libclient/client.c` | connection, windows | connect, create, commit, move, destroy, poll | server, by messages |
| VDM demos | `demo/*.c` | their own | | client library |
| pigFS | `kernel/pigfs.h` | built-in table, 64 run-time slots, 64 deleted names and their copy at 0x600000 | resolve, ls, cat, touch, rm, cd, find, grep | shell, users, rpk, menuconfig |
| Users and groups | `kernel/users.h` | two tables | adduser, deluser, usermod, groupadd, su | pigFS |
| rpk | `shell/rpk.h` | installed flags, list of commands | install, remove | pigFS |
| menuconfig | `shell/menuconfig.h`, `kernel.c` `rt_cfg` | settings, configuration file | load, edit, save, read at boot | pigFS |
| Boot and poing | `kernel/kernel.c`, `kernel/poing/poing.h` | unit table | boot, reboot, halt, start, stop | all of the kernel |
| PS/2, VGA, logs, heap | `drivers/`, `kernel/logger.h`, `kernel/mem.h` | rings, cursor, bump pointer | poll, push, get, print, allocate | shell |
| Network | `drivers/net/network.h`, `lwip/port/netif/` | descriptor rings, TCP callbacks | send, receive, connect with time-outs | devices, lwIP |
| Crypto and clients | `crypto/` | TLS session, websocket | handshake, records, Discord | network |
| Shell | `shell/shell.h`, `lash.h`, `vi.h` | line, history | the commands of `sh_dispatch` | all of the kernel |
| larpshell | `shell/larpshell/` (Go) | jobs, variables | parse, expand, run, wait | Linux processes |
| Text window manager, games | `wm/wm.h`, `shell/games/` | window list | draw | VGA |

Left aside: `lwip/src`, `bash-completion` and `stb_truetype.h` are third-party;
`project/`, `display-server/`, `drivers/*.h` at the top level, `kernel/poing.h`
and the `*.backup` files are older copies that the build does not use.

Hard behaviour, and where it is:

- **Interleaving.** The display server is one thread, but clients connect, send
  and die between its system calls, and it keeps working with what `poll()`
  said earlier. All of its hard cases come from there.
- **Blocking.** Its `recv` and `send` block, so one client can stop all.
- **Ordering.** Input is dispatched, routed and delivered through shared flags.
- **Restart.** The kernel keeps one thing across a reboot, the deleted names.
- **Limits.** No table of the kernel gives a slot back.
- **Devices.** The network cards and the display work on the same memory as
  the drivers, and a completion may come after the time-out that gave it up.
- **Streams.** Replies and events share one byte stream to each VDM client, and
  lwIP's callbacks run inside the loops that wait for them.
- **Processes.** larpshell collects its children in several places at once.

The full list, line by line, is under "hazards" in `PROJECT.json`. What makes
each modelled part correct is stated as properties in section 4.

## 2. Modules

```
VdmWindows <- VdmServer <- MCVdmServer        PigPath <- PigFs <- PigOs <- MCPigOs
   ^   ^          ^                                                | ^
   |   VdmScreen  |                              FileStore <-(implements)
   |        ^     |                                                  |
   |  VdmScreenProofs                                            PigOsProofs
VdmWindowsProofs <- VdmServerProofs

VdmClient <- VdmClientProofs    Jobs <- JobsProofs    Nic <- NicProofs    Http <- HttpProofs
```

An arrow means EXTENDS (VdmScreenProofs and VdmServerProofs both extend
VdmWindowsProofs); `PigOs` implements `FileStore` through `INSTANCE`. The
modules of the last row stand alone and are their own TLC modules.

**VdmWindows** is the window table as one value. Each function of `window.c` is
an operator. Pixels, titles and sizes are left out and a place stands for a
point of the screen, which keeps what `window_find_at` decides: which windows
are under a point and which is on top.

**VdmServer** is the event loop with its sockets, input and clients. The
variable `pc` is the part of the iteration that comes next: `poll`, `accept`,
`clients` (one step per slot), `key`, `mouse`, `render`, `exit`. A call that
blocks is a step that is not enabled: `recv` on a silent client, `send` to a
client whose buffer holds `SockCap` messages. `Interrupted` is a signal that
ends such a call (the handlers are installed without `SA_RESTART`). The poll
entries carry the pid they were made for, which the code does not have, and
`accepted` is the slot `socket_server_accept` returned in this iteration, which
main.c does not look at; both serve the properties only. `RequestKinds`,
`InputKinds` and `Signals` choose what the environment does in a run. A client
process makes one connection,
sends any sequence of the requests of libclient about windows it holds, or a
message of unknown type, reads what it is sent, and closes or dies at any
moment. `compositor_render` is here what it does to the window table.

**VdmScreen** is the other half of `compositor_render` and `drm.c`: the
composite buffer, two frame buffers, the flag `flipping` and the kernel's side
of a flip. An image says for every place whose picture is on top and whether an
old pointer is seen as well. The server's iteration is shortened to any requests
on the table of VdmWindows followed by the steps of a frame; the vertical blank
comes at any moment, and the kernel may refuse a flip.

**VdmClient** is one program on libclient and the bytes the server sends it, in
words of four bytes. Each word carries the value the library compares and, for
the properties, the message it was part of. `window_create` takes three words
whatever they are; `event_poll` looks at one and takes a message of the size it
stands for; `recv_exact` waits for the rest. The server creates, refuses,
destroys, sends keys and exits. The ids it gives out rise and have gaps, since
`next_id` is shared by all clients, and the descriptor number in a reply is
arbitrary: either may be the number of a message type, and so may a word of an
error text. `raced` records that a reply was taken with a key in its way,
`misread` that a word inside a message was taken for the type of a reply.

**PigPath** is `fs_resolve` and `path_normalize`. A path is its components and
whether its text ends in a slash, because every `strcmp` of the kernel tells
`/home/bob` from `/home/bob/`. `Meaning` is an independent definition of what a
relative path means.

**PigFs** is the file system: the constant built-in table, the run-time table
that hides it, the list of deleted names and its copy, and one action per
command that changes one of them. `fs_ls` and `fs_cat` are what the commands
show. `cat` of the built-in network log prints the log in memory, `net_log`, or
a constant line while that is empty. A command that only prints an
error is no step.

**PigOs** puts users, groups, rpk, menuconfig, the network log, boot, reboot,
halt and power cuts on top. The kernel is one thread without interrupts, so a
command is one step. Passwords and sessions are left out. The table
of groups is a table of words as far as `usermod` needs it to be: in a full
group it writes first over the group's own counter (the compiler may store the
incremented counter before or after, so both outcomes are there) and from then
on over the name, the members and the counter of the groups that follow. A write
past the whole table is not followed. `added` records who was added to which
group and `over` the first group that was written past its end.
`menuconfig_faults` is `mcfg_load` on a file with text in it: its loop steps
over the final zero and reads on to the end of the mapped gigabyte, where the
machine, having no interrupt table, starts again.

**FileStore** is what all that promises: a set of named files, a set of names
that are gone, and the steps write, remove, delete and restart. Under the
mapping `Store` a file is a slot in use that is not hidden, and a name is gone
when either copy of the list has it. Slots that leak, slots hidden for good and
full tables become stuttering steps, and adduser writes its bundle in one step.

**Jobs** is job control of larpshell: the job table, `waitForeground`,
`reapZombies`, fg, bg, kill, the goroutine that forwards SIGTSTP and the one
that waits for a background pipeline. Processes stop, are continued by a
SIGCONT from kill (`Resume`) and end at any time; `wait4` reports each stop and
each end once, to whoever asks first. Signals to a job's group reach its first
process, since each process was given its own group. A pipeline of which a
later command cannot be started leaves the earlier ones to nobody
(`StartFails`).

**Nic** is the RTL8139 and the virtio card, their drivers and `eth0_up`. The
card is a second actor on the same memory: it reads transmit buffers while they
may be filled again and fills receive memory while it is read. Time-outs count
polls. `eth0_up` starts the card, may send lwIP's gratuitous ARP, and only then
clears the ring and the transmit index (`eth0_clear`); a model starts between
the two halves of `rtl_hw_init`, which has the same gap. The RTL8139's transmit
loop polls bit 31 of the status, which is not the bit that says the card is
done, so the loop may end at any poll. `seen`, `wire` and `result` record what
the properties compare; `before` and `spoilt` name the frames that a bring-up or
the reuse of a buffer overtook.

**Http** is `http_request_sync` over lwIP's callbacks. Its loops of polls are
loops here, with small counts. lwIP, inside a poll, takes one frame at a time to
`tcp_connected_cb`, `tcp_recv_cb` or its default callback, or frees the
connection; the server sends any segment of the window again, closes and resets.
The caller's buffer is counted in bytes: `Copy` takes what fits of a segment and
frees all of it, and `clipped` records the segment that did not fit. A connection
that was closed with its window untouched stays in FIN_WAIT_1 (`lingering`) with
its callback in place, and the server's late FIN reaches the next request
through the global flag.

Definitions named `Mut...` are deliberate mistakes in the definition that
follows each; PROJECT.json pairs each property with one that breaks it.

## 3. Runs

| Run | Instance | Size | Shows |
|---|---|---|---|
| server_tables | 2 clients, 2 slots, 2 windows, keys and motions, SIGTERM | 779k states | tables, counters, ids, ownership, key delivery |
| server_poll | 4 clients, 3 slots, 1 window, SIGINT | 1.5M | pairing of slots and poll entries |
| server_live | 3 clients, 2 slots, 1 window, SIGTERM, exit chord | 282k | windows reaped, requests served, exit honoured |
| mouse | 1 client, motion | 1.6k to the error | no motion is ever reported |
| screen | 2 windows, 2 places, 2 pictures or a moving pointer | 288k | the flip's flag, tearing, what the screen shows |
| client | 5 calls, 2 windows, ids 1, 101, 102, 2 keys, 14 words | 324k | framing of the client's stream |
| fs_files | 4 path arguments, 5 slots, 2 deleted names | 33k | the file system, and that it implements FileStore |
| fs_users | 2 places for users, 3 groups, 7 slots | 524k | users, groups and homes, and FileStore again |
| fs_config | 2 packages, menuconfig, 2 logs, a new group, 4 slots | 28k | packages, paths, the live log |
| jobs | 3 processes, 3 jobs | 311k | job table, foreground wait, reaping |
| nic | 3 cells, 2 transmit and 2 receive buffers, 5 events | 629k | both card drivers |
| http | 4 segments, window 3, pool 3, 5 bytes, 2 requests | 1.1M | a request over lwIP |

Why the bounds are enough. Three clients for two slots is the smallest instance
in which a newcomer takes a slot below a client that was already polled, and in
which the table is full. `server_poll` has one more of each: with three slots a
newcomer that shifted the entries can be dropped by another's hang-up, and the
entries stay shifted for the client behind it. Two windows let one hide the
other and let a slot be reused while an id of its earlier window is in flight.
`SockCap = 1` makes every send and every request meet a full buffer.
`server_live` has creation as its only request, to stay small.

In pigFS five slots hold the three files of every boot and two more, so the
table fills within a few commands; the built-in tree of MCPigOs has one file or
directory of each kind the code tells apart, and one argument ends in two
slashes, of which `path_normalize` leaves one. `DELETED_MAX = 2` equals the number of names the
run can delete; in the kernel, too, the list is long enough: 64 entries for the
23 built-in names that are not protected. `rm` at a full list cannot happen and
is not what the run is about.
In `fs_users` seven slots hold the files of the boot, a home with its two files
and one more, so a user can be added after a file of that home was made and
removed. The only group that commands name is the second of the three of the
boot: it has two places and one member, so it is full after one command, and then
every word of the third, to which adduser adds, can be written over. The table
has no room for a fourth; `fs_config` adds one, and fills it, in a table with one
place for a user. `fs_config` has four slots, one more than the boot needs, since
its properties never speak of two files that the commands made, and two texts of
the network log, so that it can change behind a saved copy.

In `screen`, `Scenes` lets either the clients draw or the pointer move in one
behaviour, since no rule of the compositor joins the two. Two places let windows
overlap and be apart. In `client` the stream holds two
key events and a short message, so a reply can stand behind a key, and the table
of two windows is full and refuses; the second key code, two of the
three ids and one of the two descriptor numbers are numbers of message types, so
that a stream out of step is misread in each of the ways it can be. Three
processes are a pipeline and one more. Three cells with frames of one and two
let the receive ring wrap and be filled; two transmit slots wrap; a time-out of
two polls has a first and a last poll. In `http` the answer is longer than the
window, the pool is as large as the window, so that what one request loses is
missing in the next, two frames may come in one poll, and the caller's five
bytes end in the middle of the third segment of two, or just behind the last, of
one, if one before it was lost.

Symmetry over the clients is used in `server_tables` and `server_poll` only,
which have no liveness properties. Deadlock is checked in every run but `http`,
where the shell idles after the last request.

## 4. Properties

A run checks some properties as one, named conjunction; its parts are
definitions of their own and carry the comments.

Of the display server:

- `IInv`: types, `CountsMatch`, `OwnersConnected`, `IdsDistinct`, `IdsPrivate`,
  `KnownToOwner`: the tables and everything in flight stay consistent when
  slots are reused at any moment.
- `OnlyOwnerChanges`: no client moves, commits or destroys the window of
  another. The server does not check the sender; it holds because ids are
  never reused and each reaches one client. A program that guesses ids is
  outside the model: clients use the ids libclient gave them.
- `KeysToFocusedOwner`: a key reaches the process that owns the focused window.
- `EntriesMatch` (`EntryOfClient`, `InputEntryFound`) and `DisconnectDeserved`:
  the two indices of the client loop stay paired at a slot unless a client was
  accepted there or into a lower one in the same iteration. That it may have
  been dropped again since is part of the exception: another client's hang-up,
  read in the newcomer's place, does that, and the entries stay shifted.
- `WindowsReaped`, `RequestsServed`, `ExitHonoured`: progress, with one named
  exception, `WaitsOnSilent`.
- `FlipsTracked`: types; `FlagTracksKernel`, through refused flips and events
  read in two places the flag says what the kernel has pending;
  `TornOnlyWhilePending`, the copy of a frame writes what is on display only
  when the last flip is not complete.
- `CommitShown`, `RepaintErases`: what is committed is seen, what is gone is
  erased by the next repaint. Nothing else causes a repaint.
- `StreamSound`: types; `BufferMatches`, no handle joins an id to another
  window's memory unless `window_create` took a word inside a message for the
  type of its reply, which it does only after a key raced a reply; `InStep`, the stream is read
  message by message as long as no key stood in the way of a reply.
- `WindowsAnswered` (`AnswersOwnCall`, `NoOrphan`) and `CallsReturn`: the rest of
  the protocol, with the same exception.

Of the kernel:

- `TablesSound`: types; `LiveUnique`, at most one live slot per name, whatever
  was made and removed; `MirrorMatches` and `NoDoubleDelete`, the deleted names
  and their copy agree after each command, each listed once; `CriticalKept`, no
  sequence of commands deletes a protected file.
- `DeletedStays`: what is deleted stays so through reboots.
- `MessagesTrue`: `RemovedIsGone`, what `rm` removed is gone, unless it hid a
  built-in file; `TouchedExists`, touch makes a file one can find, unless the
  name is deleted.
- `OnlyNamedChange`: what `cat` shows of a path changes only by a command that
  names the path, or by a restart; the live network log changes with every
  command that uses the card.
- `LsAgrees`: `ls` shows the names under which something can be found, at any
  depth, with two exceptions: a directory with a slash at the end of its name
  shows no built-in files, and a built-in file whose directory was removed is
  found by `cat` but not shown (`CutOff`).
- `GroupsTrue`: what `groups` shows of a group is who was added to it, and they
  are users of the table; `usermod` on a full group ends that for this group and
  those behind it, never for one before it.
- `HomeComplete`, `CmdsAreInstalled`: the tables of users and packages agree
  with the files they made and with each other.
- `ResolvesAsMeant`: `fs_resolve` against `Meaning`, from a directory whose name
  has no slash at its end and no "." or ".." in it (`mkdir /..` makes one: an
  absolute argument is taken as it is typed); `CdUpLeaves`.
- `RefinesStore`: every step of the kernel is a step of FileStore or none.

Of the network:

- `ResultsTrue` (`OkMeansSent`, `ReuseIsLate`, `WireInOrder`, `RtlNeverTwice`):
  what the result of a transmission says after time-outs and bring-ups, and what
  it does not; when a buffer is filled that the card may still read.
- `FramesInOrder`: reception, always right on the virtio card, on the RTL8139
  until its ring has been filled once and if no frame came during bring-up.
- `BuffersSound`: types, and `BuffersKept`, no receive buffer is lost.
- `Flows` (`OutputReturns`, `FramesTaken`): neither direction stops.
- `PoolSound` (types, `PbufsOwned`, `WindowSpent`) and `AnswerKept`
  (`ReadInOrder`, `LostIsHeld`, `OnlyLastClipped`): where each segment of the
  answer is, read or not, and that only the last one read can lack its tail.
  `PcbKnown`: when the connection may be used. `RequestReturns`.

Of larpshell:

- `NeverForgotten`: a live job can always be named. `JobTableSound`: types, and
  `TableTruthful`, the table is right about jobs that were neither pipelines nor
  brought back by fg, except that one continued by kill stays listed as Stopped.
- `ShellReturns`, `EndNoticed`: progress, with the exceptions they name.

**Fairness.** Each `FairSpec` assumes that the program's own thread runs when it
can, which is the scheduler's doing. Beyond that: in VdmServer, that a client
reads what it is sent, as the demos do, whose main loops call `event_poll`;
without it a client that stops reading blocks the server in `send` for good. In
VdmScreen, that the display reaches its vertical blanks and that the kernel does
not refuse flips for ever (strong fairness, as refusals may alternate with other
steps). In VdmClient, that the server serves and the application polls. In Jobs,
that the user types a next line and that `wait4` of any child passes over no
child for ever, however often another one stops. In Nic, that `net_poll` is
called again and again: the commands that wait for the network do so, the idle
prompt does not, so `Flows` speaks of the time while such a command runs. In Http
only the thread is fair; `RequestReturns` needs no more, but the real counts are
large: after a FIN or a reset the loops end only after up to 20,000,000 times
5,000,000 polls. Nothing is assumed of clients that send, connect or die, of the
user's input, of processes, cards, the network or lwIP's timers.

## 5. What the code does otherwise

1. **No mouse events** (`compositor.c:227`): routing clears the flag that
   delivery tests next. Run `mouse`.

The other deviations are the exceptions that the passing properties name:

2. **Poll entries shift** (`main.c:304`). Entries are made before `accept`,
   slots are read after it. Another client's hang-up may close the newcomer
   (`DisconnectDeserved`), after which the entries stay shifted for the clients
   behind it until the next `poll`, or the server waits in `recv` for the
   newcomer, and keys, other clients and Ctrl+Alt+Backspace with it
   (`WaitsOnSilent`).
3. **Without libinput** (`main.c:304`) the bound `nfds - 2` cuts off the last
   client; with `HasLibinput = FALSE` `RequestsServed` fails.
4. **A key before the reply** (`client.c:139`) makes `window_create` fail and
   leave its window on the server, and puts the stream out of step (`raced`). A
   later call may then take an id, a descriptor number or a key code for the type
   of its reply, and the handle it makes joins an id to the memory of another
   window (`misread`).
5. **Tearing and trails** (`compositor.c:162-184`): the copy does not wait for
   the pending flip; closed windows and old pointers stay until a commit.
6. **touch after rm** (`pigfs.h:516`): the new file is hidden by the deleted
   name, and each try uses a slot.
7. **cd ..** (`pigfs.h:216`) never leaves a home directory, whose name ends in
   a slash; the comment above says it is copied without.
8. **The receive ring** (`rtl8139.h:129`, `network.h:294`): old headers are
   taken for frames once the ring was filled; a frame that arrives while eth0
   comes up puts driver and card out of step (`InStep`).
9. **Late completions** (`rtl8139.h:115`, `virtio.h:294`): after a time-out a
   buffer is reused while the card reads it, and on virtio every later ERR_OK
   may be that of an earlier frame. On the RTL8139 ERR_OK says nothing about the
   wire: the loop asks bit 31, `rtl_send` asks 0x2000. The ARP that `eth0_up`
   sends before it sets the transmit index to 0 (`network.h:295`) may leave
   after frames that were sent later (`before`).
10. **Lost segments** (`network.h:399, 405`): the callback overwrites an unread
    pbuf; the window and the pool are never given back (`network.h:418`). The
    tail of a segment that does not fit the caller's buffer is acknowledged and
    freed unread (`network.h:416`, `clipped`).
11. **A freed connection** (`network.h:460`) is used after a reset (`spoiled`),
    and the late FIN of an earlier one ends the reading of the next
    (`lwip/src/core/tcp.c:427`, `lingering`).
12. **Pipelines and fg** (`jobs.go:349-371`): a pipeline that stops in part
    hangs the shell while the rest runs; `fg` enters a job twice (`exposed`).
13. **kill and SIGCONT** (`builtins.go:171`): a stopped job that kill continues
    runs while it is listed as Stopped, and its end is not noticed.
14. **usermod on a full group** (`users.h:129`) writes over its counter and then
    over the groups behind it, whose names and members change (`over`).
15. **Files below a removed directory** (`pigfs.h:523`): `rm -r` of a built-in
    directory hides the directory and not its files, which `cat` still finds;
    and `ls` of a directory whose name ends in a slash (`mkdir /wm//`) does not
    show the built-in files below it (`pigfs.h:384`).
16. **The live log** (`pigfs.h:497`): what `cat` shows of the built-in network log
    changes with every command that uses the card.

Noticed and not modelled further: SIGUSR1 ends the server, because `setup_signals`
replaces the logger's handler (`main.c:40`, README of vdm, line 125); settings
of menuconfig are saved to a file that a reboot clears, though it says "Reboot
to apply changes" (`menuconfig.h:243`); opening menuconfig after saving
restarts the machine (`menuconfig.h:97`); `rmdir` does not ask whether the
directory is empty; `rpk remove` leaves the file in `/usr/bin`.

## 6. Proofs

Every safety property that a passing run checks is also a theorem, for every
value of the constants: any number of slots, windows, clients, processes, jobs,
buffers, segments, users and packages, any built-in tree and any arguments.

| Module | Theorem | Statement: `Spec =>` |
|---|---|---|
| VdmServerProofs | `Invariance` | `[]IInv` |
| | `TypesCorrect`, `CountsCorrect`, `OwnersCorrect`, `IdsCorrect`, `PrivacyOfIds` | its parts `[]TypeOK`, `[]CountsMatch`, `[]OwnersConnected`, `[]IdsDistinct`, `[]IdsPrivate` |
| | `OwnersOnly`, `KeysCorrect` | `OnlyOwnerChanges`, `KeysToFocusedOwner` |
| | `LoopInvariance`, `EntriesCorrect`, `DropsCorrect` | `[]LoopInv`, `[]EntriesMatch`, `DisconnectDeserved` |
| VdmScreenProofs | `FlipsCorrect` | `[]FlipsTracked` |
| VdmClientProofs | `ClientInvariance`, `StreamCorrect`, `WindowsCorrect` | `[]ClientInv`, `[]StreamSound`, `[]WindowsAnswered` |
| PigOsProofs | `TablesCorrect`, `DeletionsStay`, `StoreRefined` | `[]TablesSound`, `DeletedStays`, `RefinesStore` |
| | `OthersUntouched`, `MessagesCorrect`, `ListingsCorrect` | `OnlyNamedChange`, `MessagesTrue`, `[]LsAgrees` |
| | `PathsCorrect`, `UpCorrect` | `[]ResolvesAsMeant`, `CdUpLeaves` |
| | `HomesCorrect`, `GroupsCorrect`, `CommandsCorrect` | `HomeComplete`, `[]GroupsTrue`, `[]CmdsAreInstalled` |
| JobsProofs | `JobsInvariance`, `JobsRemembered`, `JobsTruthful` | `[]JobsInv`, `[]NeverForgotten`, `[]JobTableSound` |
| NicProofs | `NicInvariance`, `BuffersCorrect`, `ResultsCorrect`, `FramesCorrect` | `[]NicInv`, `[]BuffersSound`, `[]ResultsTrue`, `[]FramesInOrder` |
| HttpProofs | `PoolCorrect`, `AnswerCorrect`, `PcbCorrect` | `[]PoolSound`, `[]AnswerKept`, `[]PcbKnown` |

`VdmWindowsProofs` has the lemmas on what each function of `window.c` does to
any table; `VdmServerProofs` and `VdmScreenProofs` use it.

**Assumptions.** `SizesAssumption`: both tables have a slot, 0 is a place,
`NoPid` is no client. `ServerAssumption`: the kinds of signals and input are
those the code knows, bounds are naturals. `ScreenAssumption`, `JobsAssumption`,
`HttpAssumption`: bounds and sizes are naturals, and there is a client.
`NicAssumption`: also that a frame is smaller than the receive ring.
`ClientAssumption`: ids are positive, and ids, descriptor numbers, key codes and
words of texts are any naturals.
`FsAssumption`: the root is built in, built-in names have no slash at their end,
arguments are made of components. `OsAssumption`: three slots for the files of
a boot, three groups, no more packages than command slots (27 and 32 in
`rpk.h`), and a group in the table starts with its name, which is not empty.
`TreeAssumption`: `/etc` is protected (`pigfs.h:524`) and nothing below a home
directory is built in (`pigfs.h:12`). TLC evaluates each on the runs.

**The inductive invariants.** Hardly a property is inductive as it stands. What
each part needs, and why:

- *Server* (`IInv`). That a slot is reused safely (`OwnersConnected`) needs that
  `handle_client_disconnect` destroys exactly the windows with that slot's
  index. That the counters match (`CountsMatch`) needs ids to be distinct, since
  windows are destroyed by id. That ids are distinct needs that `next_id` is
  above every id in the table, in a message, in a client's hands and in the
  focus. That only owners change windows needs that the owner of a window is the
  only one who knows its id (`KnownToOwner`), which needs that a client's id came
  from its own reply (`IdsPrivate`). The rest is types, `TableOK` (ids are
  positive and below `next_id`), that an active slot has a real pid, and that
  `accept` finds the connection `poll` reported.
- *Poll entries* (`LoopInv`). `EntryOfClient` speaks only of the entry the loop
  is at. `EntriesLeft` says of all entries still to come that there is a rising
  map from them to the slots still to come; as long as nothing is shifted it
  gives each its own client, and the one just accepted is the only client
  without an entry. `ConnectedOnce`: a process is in one slot or in the backlog,
  once. `Reported`: a hang-up that `poll` reported is one for good, and a request
  it reported is there until the loop comes to it.
- *Screen* (`ScreenInv`). `FlipsTracked`, the table of VdmWindows with bounded
  ids (the pictures in the buffers are of windows), and that an event `poll` saw
  is still there when `drm_handle_event` reads it.
- *Client* (`ClientInv`). The words on their way are whole messages one behind
  the other, of which only the first may have lost its beginning (`Chain`): so
  however far out of step the reader is, an id and a descriptor that it takes
  together belong together if the type before them was one. `Numbered`: requests
  to create are this client's own and ids are below `next_id`. As long as no key stood before a reply, one
  request or reply at most is under way and only inside a call (`InTurn`), and
  every window of the table is held, given back or about to be reported
  (`Agreed`).
- *Kernel* (`OsInv`). `FsInv`: one live slot for a name, the list and its copy
  equal, each listed name built in, unprotected and listed once. `LiveUnique`
  needs the list, since `memfs_create` looks only at slots that are not hidden,
  and a hidden slot stays hidden because names never leave the list. `UsersInv`
  has `GroupsTrue` with what the overrun needs: every word that could be read as
  a member is the index of a user or 0, in groups not yet in use too, and a write
  past a group's end lands behind it. `RpkInv` has `CmdsAreInstalled`; the list of commands has room because it has no
  repetitions and there are fewer packages than places. `HomeComplete` needs
  `SkelInv`: the two files of the skeleton are always there and are no
  directories, as `rm` protects them and `rmdir` takes directories only.
- *Refinement.* Each command is shown to be one of the kinds of step that
  FileStore has, under the mapping: it writes one name or the bundle of a user,
  clears a slot, lists a built-in name, starts again, or leaves the files alone.
- *Jobs* (`JobsInv`). That a job which lives is never forgotten, and that the
  table is right, need that a foreground command outside `exposed` is one
  process that no entry names and nobody else can collect (`Foreground`), that
  the goroutines wait only for processes of pipelines (`WaitersExposed`), that
  whatever is named was started (`Started`) and that there is room for the job
  the shell may enter (`RoomLeft`).
- *Cards* (`NicInv`). Where the thread can be (`Places`) and how many events
  there were (`Counts`). Sending (`TxInv`): on virtio one buffer is used, and
  with nothing left over from a time-out the card has the frame being sent or has
  sent it; on the RTL8139 the card may have any buffer, no two hold the same
  frame, none that it has holds one already sent, and each was filled as many
  calls ago as its distance from the current one says, unless a bring-up or a
  time-out came between (`Late`). Receiving on virtio (`VirtioRx`): what was taken and
  the used ring together are what arrived. Receiving on the RTL8139 (`RtlRx`):
  until the ring was filled once its frames lie one behind the other and the
  driver stands at the first it has not taken. `BuffersKept` is inductive with
  these.
- *HTTP* (`HttpInv`). `PoolSound` and `AnswerKept` with where the thread can be
  (`Control`), that no pbuf is ahead of what was acknowledged and the one to be
  read is behind all that was read (`Behind`), that the thread reads only while
  the buffer has room, so that a segment that was cut is the last (`Control`),
  and that a connection nobody reset, closed or gave up is open (`Open`).

**Induction over data.** The library's induction theorems cannot be used by the
installed provers, so where it is needed (the cleaning of the job table, the
fold that walks a path, the depth of a path) a proof takes the set of
counterexamples, picks its least element (`LeastNatural`, from the
well-foundedness of the naturals) and shows that there is none. `Depth` and
`cleanupDoneJobsLocked` are recursive functions; that the function they choose
exists is shown in the same way.

**What proving changed in the models.** `EntryOfClient` used to except a slot
only while the newcomer was still connected. That was true for two slots, the
size TLC had, and not inductive for three: the counterexample is in section 5,
item 2; hence `accepted` and the larger instance of `server_poll`. `LsAgrees`
was false for directories whose name ends in a slash, which no argument of the
run had then. `ResolvesAsMeant` was false from a directory named "..", for the same
reason. Both now name the exception.

**Only model-checked.** Liveness, which is out of the prover's reach:
`WindowsReaped`, `RequestsServed`, `ExitHonoured`, `CommitShown`,
`RepaintErases`, `CallsReturn`, `Flows`, `RequestReturns`, `ShellReturns`,
`EndNoticed`; and the violation found in run `mouse`.

## 7. Plan

The models are complete as far as section 8 allows and their safety properties
are proved. What is left:

1. Steps that liveness rests on and that can be proved without fairness: that
   the client loop of the server decreases a measure in each step, and the same
   for the loops of Http and of `cleanupDoneJobsLocked`.
2. For VdmScreen, what an image shows of a window that is not being redrawn.

## 8. Not modelled

- **Third-party code and copies.** Most of the repository's lines: lwIP (Http
  has the part of it that receives for one connection), `stb_truetype.h` three
  times, bash-completion, and older copies of the parts above.
- **e1000.** Its descriptors and the data read for them overlap in memory; what
  it does depends on bytes the card writes over its own descriptors.
- **TLS, websocket, Discord, cryptography.** Sequential code without retries;
  what could be wrong is arithmetic, beyond TLC at its real widths.
- **PS/2, VGA, logs, heap, poing units.** One thread calls producer and consumer
  of each ring in turn, and each table has one writer. The heap matters where it
  overlaps the deletion store (see the hazards), which needs addresses.
- **Text.** Fonts, pixels, formatting, the parser and the expansions of
  larpshell, line editing, games and the text window manager.
- **Process substitution** of larpshell (`expansion.go:1428`) runs a second
  `waitForeground` in a goroutine. It takes any child, so it is a fourth place
  that can collect a status another one waits for; what Jobs says holds for
  lines without it.
- **Writes past the whole table of groups.** They hit whatever the linker put
  there.
- **Dead code.** `rtl_send`, `rtl_recv`, `tcp_connect_sync`, `fs_restore`.
