# PlexOS in TLA+

PlexOS is a 32-bit hobby kernel: one address space, one thread (the loop
`gui_run` in `src/gui/gui.c`), interrupt handlers for timer, keyboard and mouse,
and no processes. What can go wrong in it is therefore of three sorts: an
interrupt, or a device, between two instructions of the loop, a long sequence of
legal calls that breaks a data structure nobody re-checks, and one call of
several failing.
The modules here model the parts where that happens, TLC checks them on small
instances, and TLAPS proves the results that carry the rest for every size.

## 1. Inventory

| Component | State | Operations | Hard part |
|---|---|---|---|
| heap, `kernel/heap.c` | `heap_brk`, list of `block_t` | kmalloc kcalloc kfree kmalloc_used (krealloc has no caller) | whole-block reuse, exhaustion, "zeroed" promise held by kfree |
| keyboard, `drivers/keyboard.c` | decoder flags, two rings | IRQ1 handler, kbd_has_*/kbd_get* | handler between load and store of a reader; full ring; prefix codes |
| file system, `fs/vfs.c` | tree of `fs_node_t`, `cwd`, `node_count` | mkdir touch write append rm set_cwd | two different lookups of one path; partial failure; accounting by hand |
| shell, `fs/shell.c` | `sh_hist` | cd mkdir touch write rm cp mv; cat head tail grep wc du tree find ls stat cal history; about 40 that print a read-out | commands made of several calls whose results are not looked at; loops that cut text or walk the tree |
| window manager, `gui/gui.c` | `wins`, `zorder`, `zcount`, `start_open` | gui_open gui_close z_bring, the loop | windows that come and go in the middle of a turn; animations that must end |
| terminal, `apps/terminal.c` | screen, input line, history | key, draw | two histories, a position in one that shifts; `priv` larger than its block |
| editor, `apps/editor.c` | `buf`, `len`, `cursor`, `path` | key, click, draw | gaps opened and closed in a buffer at its limit; saving into a tree that has changed |
| file manager, `apps/fileman.c` | path, row index, counter | key, click, draw | an index into a list other windows change |
| browser, `apps/browser.c` | address bar, history, position | key, click, draw | navigating from the middle of a full history |
| calculator, `apps/calc.c`, `calc_engine.c` | expression, result | key, click, calc_eval | precedence and errors in a recursive parser |
| settings, `apps/sysmon.c` | tab, message | key, click | none of its own: its network tab calls the driver |
| mouse, `drivers/mouse.c` | packet phase, position, buttons | IRQ12 handler, mouse_init | lost bytes, i8042 shared with the keyboard |
| boot LEDs, `kernel/mb2.c` | none | led_blink | answers of the i8042 taken by IRQ1 |
| network, `drivers/e1000.c` | two descriptor rings, `enabled` | net_poll net_tx_test net_set_enabled | descriptors change owner while the card works |
| frames, `kernel/pmm.c` | bitmap, counters | pmm_init alloc free | memory map against reported size; nothing allocates |
| timer, `kernel/timer.c` | `ticks` | IRQ0, sleep | wrap-around |
| clock, `drivers/rtc.c` | none | rtc_read | a year out of range |
| idt, gdt, paging, boot, pci, ata, fb, bochs, intel_disp, gpu, serial, cpu, power, lib | tables, registers | start-up, device access | none that states tell apart |

How they interact: every allocation of the file system and of `gui_open` goes
to the heap and may fail; the keyboard handler and `gui_run` share the rings; a
key or a click becomes one call of an application; the terminal calls the shell,
the shell calls the file system and `gui_open`; editor and file manager call the
file system themselves; `gui_run` calls `net_poll` once a turn, and the shell and
the settings send a test frame or switch the network; the timer only counts.

What makes each correct: the heap hands out disjoint zeroed blocks and accounts
for every byte; the keyboard loses nothing but what a full ring drops, and
reorders nothing within a ring; the file system stays a tree; the desktop's
stack, focus and memory agree with each other; animations end; every frame is
counted once and a confirmed one has left; an application changes only what it
shows, opens what it says is selected, and its histories keep what is recent;
a tool that prints lines or walks the tree leaves out nothing within its limits; the
calendar runs on from month to month.

## 2. Modules

    Allocator      what an allocator promises             <- Heap  <- HeapProofs
    BoundedFifo    what a bounded queue promises          <- Ring  <- RingProofs
    Ring           both rings of the keyboard driver      <- Keyboard (two instances)
    Keyboard       decoder, rings and input loop          <- KeyboardProofs
    Vfs            operators: one per function of vfs.c,
                   and cd, cp and mv                      <- Shell <- MCShell, ShellProofs
    Gui            the window manager and the loop        <- GuiProofs
    Ps2            the i8042 and all who read its buffer  <- Ps2Proofs
    Net            the e1000 rings, refines BoundedFifo   <- NetProofs
    Recent         what a history promises                <- Terminal, Browser
    Text           operators: lines of a text             <- Editor, Apps
    Calendar       cal and the clock it reads             <- Apps
    Editor, Files, Terminal, Browser, Calc   one window of each application
    Apps           such a window among others             <- MCApps, AppsProofs

**Heap** keys the block list by payload address (list order is address order
because a block is appended when it is carved); `BytesOf` adds up in that order,
as the loop of kmalloc_used does. One action per call; `held` is a
history of the pointers callers own, so double frees, which no caller makes, are
not enabled. `Write` is the environment: an owner stores into its own block.

**Ring** splits `kbd_getchar` into the load of the slot and the store of the
tail, in either order, since neither variable is volatile; a push is one step
since it runs with interrupts off. **Keyboard** instantiates it for `circ` and
`extbuf` and adds the decoder, the input loop of `gui_run` test by test, and an
external keyboard that sends make and break codes (set 1, with the fake shifts of
the grey cursor keys). Scan codes are the names of the keys. In the layout
tables the entry for the keypad minus stands one place too early, so that it is
the code of keypad-9 that types a minus: the model has it so.

**Vfs** works on `[node, cwd, count]`. A path is what its characters say to
`split_parent` and `fs_resolve`: absolute or not, its components, a slash after
it. A text is a sequence of characters. Every allocation may fail: nodes when
`MaxNodes` are live, buffers nondeterministically. A walk along a path (`Resolve`)
and the addition of the heap are recursive functions, as everything recursive is
here, so that theorems can be proved about the modules. The commands that make
several calls (`CdTo`, `CopyFile`, `Move`) are operators too, since the shell of any
terminal may run them. **Shell** has one action per
command, and `reply`, a history of what the last cd, cp or mv claims. The initial
tree is the bare root; `fs_init` seeds it with calls the model can make itself.

**Gui** has one action per branch of the loop: keys (any number, with the window
looked up once, as in the code), one look at the mouse, the end of
minimisations, a frame. Geometry is abstracted: a click may hit any visible
window, because a drag can put a window anywhere. Any window may turn out to be
a terminal and close itself or open another. Of a closed slot only the dragging
flag is kept, the one stale field `gui_open` must clear for a reason. The
handler of a key that reaches a closed window works on a NULL `priv`; what it
does to this module is bounded by what a terminal can do.

**Ps2** has the hardware as external actions: each device queues what it has to
send, `Deliver` puts the next byte into the one output buffer and requests an
interrupt, and a command enqueues its answer. The boot code is a program counter
through keyboard_init, mouse_init and the sixth led_blink, which all poll with
interrupts enabled, so that a handler may take what they wait for and they may
take what a handler waits for. A bounded poll gives up when nothing is coming any
more. A read may leave the request of the byte behind (controllers differ), and
the keyboard's handler then reads without a byte, or one of the mouse. Of bytes
only what the code tells apart is kept: whose they are, whether bit 3 is set,
whether they can pass for 0xFA or 0xFE. What is taken for the command byte and
is not it makes any command byte with bit 1 set.

**Net** splits the driver at its accesses to what it shares with the card:
`net_poll` into the test of the done bit, its clearing, and the write of the tail
(`PollTest`, `PollClear`, `PollReturn`; no compiler may reorder them, since the
status is a byte and the volatile write of the register may alias it), `net_tx_test` into filling the descriptor, writing the tail and
looking for the done bit (`TxFill`, `TxTail`, `TxAnswer`). `CardReceives`,
`CardSends` and `Plug` may happen between any two of them: the card owns what
lies from its head up to the tail. Frames are numbered as they arrive or are
handed over; a frame that finds no descriptor is lost. `net_init` is the initial
state, with or without a card, and `net_irq` does not occur: `E_IMS` is 0.
The bounded wait of `net_tx_test` reads a status that is not volatile, so it may
be as short as one look.

The applications run one event at a time, called by `gui_run`. **Editor** has the
buffer as an array of bytes that `memmove` shifts, one action per key and button.
**Files** keeps the path and the row, and resolves and counts anew in every
event, as `fm_selected` does; the clamping of the row is a step of its own
(`Draw`), because it is made when a frame is drawn and events come in between. Of
its messages two are told apart, the one that names a selected folder and the one
that a file was made (`status`). What +File writes is cut by the code itself: 17
characters of a text of 18, without its newline.
**Terminal** has both histories, the window's, which compares what was typed, and
the shell's, which compares what follows the leading blanks and then cuts it.
**Browser** has the address bar and the history. **Calc** builds the tree its
parser computes with, instead of a number, and skips blanks where it does.
**Text** has operators: the loops of the tools, each as the code has it, with the
characters each copies of a line (`GrepCut` 140, `HeadCut` 180, `EditCut` 150 in
the code), and, apart from them, what a line is. **Calendar** is a machine with
one variable, the page printed last; its arguments and the clock are chosen
anew for every page, and the counting of days it is compared with is apart. **Apps** opens a window of one kind
(`Kinds`) on the seeded tree, closes and reopens it, and lets another terminal
change the tree, the current directory and the shell's history between any two
events (`Elsewhere`: mkdir, touch, rm, cd, write, cp and mv, which include what the
save of another editor and +File in another file manager do). All kinds are variables of one specification, of which a
behaviour uses one; a kind `reader` writes every sample text and reads it with
every tool.

## 3. Runs

| Run | Bounds | What it shows |
|---|---|---|
| heap | 84 bytes, requests 0 8 9 17 | every order of calls until the heap is exhausted; reuse of larger blocks, rounding, the last bytes |
| keyboard | rings of 3 and 2 slots, 5 keys, 4 key events | both rings fill, wrap and drop; the handler falls into every gap of the loop |
| shell | 4 nodes, 2 names, 6 paths, texts of 0 and 1 characters | folder, file in it and shadow; every allocation fails at every place |
| gui | 3 slots, animations of 1 tick | full desktop, window above and below, slots reused while dragged |
| ps2 | one blink, the mouse moves during boot | losing bytes to the polls of led_blink blocks nothing and shifts no packet for ever |
| net | rings of 3, 5 frames in, 4 out | both rings wrap, fill and run dry, the tail meets the head, the network is switched off and the cable pulled at any point |
| apps | 2 free nodes, buffer of 3 bytes, screen of 4 lines, histories of 2, texts of 4 characters, lines cut after 1 to 3, walks of 1 level, expressions of 5 of 7 characters, 1 command elsewhere | every application at its limits, on a tree that changes under it; every tool on every text, with lines longer than it copies; trees deeper and wider than the walks go; expressions with two operators, signs or parentheses, and a blank anywhere (`/` stands for `*` and `%`, which the parser treats alike; the decimal point is left out for time); all months of 1970 to 2100 |
| mv_loses | 3 nodes | violated: `mv f f` removes f and answers Spostato (docs.html:55) |
| cd_elsewhere | 4 nodes, no truncation | violated: cd into an existing directory stays where it was without an error (docs.html:46) |
| stray_key | 2 slots | violated: keys after `exit` in one turn reach the closed window (gui.c:286) |
| dead_keyboard | no blink, a key pressed during boot | violated: its scan code becomes the command byte and disables the keyboard (docs.html:124) |
| says_otherwise | as apps, the file manager only, one row clicked | violated: another window adds or removes an entry, and Invio opens another folder than "Selezionato: %s - premi Apri/Invio" names (fileman.c:143) |

`PartsCap` is 16 in the code; 1 makes a depth of two exceed it. Paths of the
shell run: `a`, `..`, `a/b`, `a/`, `/`, `../b`. `MaxEvents` bounds key events,
`MaxText` the growth of a file by append. `MAXW` is 12 and an animation lasts 12
ticks in the code; the protocol does not depend on either number. Rings of 3
are the smallest with a descriptor that is neither the first nor the last; the
driver compares indices with nothing but each other. A buffer of `BufSize` =
`Limit` + 1 is tighter than the code's 4096 for 4090, so that a missing byte
shows. `MaxSel` and `MaxCounter` bound the row and the counter of the file
manager, `OtherPaths` what the other terminal is about: what the window shows.
`Inputs` are the lines that are typed: blank, repeated, with blanks around them, a
command and more behind it, which is also longer than an entry (`HistLine`). `GrepHits` is 60 in
the code, `DuDepth` 16, `TreeDepth` 8, `TreeWidth` 40 and `FindDepth` 12; each is met
and exceeded in the apps run. `MCMonths` and `MCYears` are the numbers that
follow cal, with those next to its limits, and `ClockYears` lie on both sides of the
year rtc_read corrects. `OtherTexts` is what the others write: a text too long
for the editor, or for a buffer that is there.

Properties that tell more than a type:

* heap: `Tiled` (no overlap), `HeldAreLive` (no leak, no double owner),
  `FreeAreZero`, `NoByteLost`, `BlocksStay`, and `IsAllocator`, the refinement.
* keyboard: `InStep` (no stuck shift or prefix), `InOrder` (each ring refines
  BoundedFifo, and a reader in the middle of a read still owns its slot),
  `DropsOnlyWhenFull`, `EverythingIsRead` (liveness).
* shell: `TreeLinks`, `Connected`, `CwdIsLive`, `CountIsExact`, `FitsBuffer`,
  `CpCopies`.
* ps2: `NothingStuck` (nobody leaves a byte in the buffer for good),
  `Resynchronised` (after movements stop resembling first bytes the packets are
  in phase for ever); both are liveness.
* net: `RxIsFifo` (the receive ring refines BoundedFifo, so no frame is counted
  twice or out of order and the card never writes into the buffer being read),
  `TxSound` (what is answered as sent has been sent, once and in order), `FramesRead`
  (liveness: every frame is counted and every descriptor returns to the card).
* apps: `TypeOK` (the buffer is always a terminated text, every index is within
  what it indexes), `Histories` (screen and histories refine Recent, and the
  positions in them are what is shown), `ChangesAreLocal` (a window changes one name
  of the folder it shows, and Salvato is true), `LinesAgree` (head, tail, grep, wc,
  cat and the browser print the beginnings of the lines of a text, and grep leaves out
  no line that it could have printed), `EditorShows` (screen, caret, Home and End go by
  the same lines), `WalksAgree` (find, du, tree, stat and ls agree on what lies below a
  node, as far down as each goes),
  `CalcParses` (the parser accepts the grammar and builds its only tree),
  `MonthsRunOn` (each day once, in order, in full rows, whatever was typed, and a month
  begins in the column behind the end of the one before).
* gui: `ZOrder` (so `z_bring` never writes past its array), `OneFocus`,
  `PrivWhileOpen`, `DragIsGrab`, `AnimationsEnd` (liveness).

Fairness. In Keyboard, `Irq1` and `GuiRun` are weakly fair: the processor takes a
pending interrupt and the loop never blocks. In Gui, each step of the loop and
the tick are weakly fair: keys are drained faster than they are typed, the rest
is straight-line code, the timer interrupts for ever. Nothing a user does is
fair. In Ps2, the boot code, the end of its bounded polls and pending interrupts
are weakly fair; `Deliver` is strongly fair for each device, because the
controller gives each its turn although another's byte may fill the buffer in
between. In Net, `PollStart`, the steps of a poll that has begun and those of a test
that has begun are weakly fair: the loop calls `net_poll` in every turn and no
call waits for ever. Sending, switching, the cable and the card itself are not
fair; `FramesRead` is conditional on a network that stays switched on. Apps has
no fairness and no liveness: each event is one call that returns. `Early` says what the user does during boot and `Blinks` is n of
`led_blink(n)`, 6 in the code: each blink is the same two calls, and one blink
already ends with either answer outstanding. A key pressed during boot is kept
out of the ps2 run because dead_keyboard shows what it does. `AnimationsEnd` is conditional on a mouse button that stays up, since a
user who presses minimise again restarts the animation.

What the violated runs show is written down under `findings` in `PROJECT.json`, with the
line of the code and the line that says otherwise. says_otherwise has the counter
stopped; with `MaxCounter = 1` and nobody else at work (`MaxOthers = 0`) the same
property fails for another reason: a window opened again counts from 1, and +File
overwrites `nuovo_file_1.txt` and answers "File creato." (fileman.c:119).

The tools of the shell do not all keep what the repository says of them either. The
properties ask of them what they do and should do, and neither demand nor forbid
the following:

* `cal` prints every month one column too far to the right: (h+6)%7 is 0 on a Sunday,
  while the comment at shell.c:507 says `0=lun` and the header at shell.c:509 begins
  with Lu. `MonthsRunOn` compares the months with each other.
* `tail` counts a line more than there are when a text ends in a newline
  (shell.c:433), so that `tail -1` of most files prints nothing, against "First / last N
  lines" (docs.html:64). `LinesAgree` takes n lines or one less in that case only.
* `grep` looks for its pattern in the first 140 characters of a line (shell.c:411),
  against "Print lines containing a pattern" (docs.html:63). `LinesAgree` asks for
  the lines it has copied whole.
* The sixth blink of `led_blink` may not be seen: the keyboard's handler takes the
  acknowledge kbd_ack waits for, and the mask is not sent (mb2.c:29), against "n lampeggi
  CapsLock = stadio n" (mb2.c:35).
* `find` without a path searches the current directory and prints the root in front, so
  that what it prints leads to the node only when the two are the same. Nothing says
  otherwise, and `WalksAgree` compares the names.

What the tools print is not cut at the 2048 bytes of the terminal's buffer but in cat,
whose loop is compared with a cut at any size.

## 4. Proofs

Every theorem is proved from the named assumptions on the constants alone, for
every value they allow, and TLC evaluates the assumptions on every run. No
safety property of a passing run is without its theorem but those of what loops
print or compute, in the run apps: `LinesAgree`, `EditorShows`, `WalksAgree`,
`CalcParses` and `MonthsRunOn`. Three theorems go beyond the runs: `RemovesLeaves`
(`OnlyLeavesGo`: rm and mv take a leaf only), `MinimizedStands` (`MinimizedIsStill`) and
`OneWindowMoves` (`OneMoves`: a step moves one window on the stack at most).

| Module | From | Proves |
|---|---|---|
| HeapProofs | `HeapAssumption`: sizes are naturals, `Zero` is no stored value | `TypeOK`, `Tiled`, `HeldAreLive`, `FreeAreZero`, `NoByteLost`, `BlocksStay`, `IsAllocator` |
| RingProofs, KeyboardProofs | rings of at least 2 slots, no key is the prefix 0xE0 | `TypeOK`, `InStep`, `InOrder`, `DropsOnlyWhenFull` |
| ShellProofs | `ShellAssumption`: room for the root; paths are paths and texts are texts | `TypeOK`, `TreeLinks`, `Connected`, `CwdIsLive`, `CountIsExact`, `FitsBuffer`, `CpCopies`, `OnlyLeavesGo` |
| GuiProofs | MAXW of at least 2 (gui_init opens two windows) | `TypeOK`, `ZOrder`, `OneFocus`, `PrivWhileOpen`, `DragIsGrab`, `MinimizedIsStill`, `OneMoves` |
| Ps2Proofs | `Ps2Assumption`: `Blinks` is a natural | `TypeOK` |
| AppsProofs | `AppsAssumption`: the bounds are numbers, a text fits the buffer with its terminator, the banner fits the screen, Enter is a key of the editor, links are addresses, no text or key is the terminator, one of the sample texts is the longest and those written elsewhere are among them, a new file is not called `.` or `..` | `TypeOK`, `Histories`, `ChangesAreLocal` |
| NetProofs | `NetAssumption`: a receive ring of at least 2 descriptors (one always stays with the driver), a transmit ring of at least 1 | `TypeOK`, `TxSound`, `RxIsFifo` |

**HeapProofs** proves `Spec => []IInv`, the conjunction of TypeOK, Tiled,
HeldAreLive and FreeAreZero, which is inductive as it stands: a reused block is
known to be disjoint from the others because it was already tiled, a fresh one
because everything tiled ends at the break, and zero because of FreeAreZero.
Action steps are lemmas of their own; `BlocksStay` and `Implements`
(`Spec => IsAllocator`) follow from them. `NoByteLost` needs more: disjoint blocks
may leave gaps. `GapFree` says that every block but the first begins where another
ends and that one ends at the break, and `BytesAddUp` goes up the addresses: what
is used and free below an address is where the last block below it ends.

Such arguments rest on induction. The library's takes a predicate, which the
provers cannot instantiate; `SetInduction` states it of a set and follows from the
pigeonhole principle on finite sets. With it, the function that a recursive
definition describes exists (`LoopExists` in ShellProofs). A path is followed, the
heap added up and the lines of an output printed by such functions.

**RingProofs** proves, for every size of at least 2, the invariant `RingInv`
(a reader that has loaded but not stored still owns its slot) and from it
`RingSpec => IsFifo`. The heart is that a push writes the slot behind the last
one (`PushIsPut`) and a store of the tail removes exactly the one loaded
(`AdvanceIsTake`), in the arithmetic of the wrapped index.

**GuiProofs** proves, for every animation length too, all safety properties of the
gui run, with the bound on `zorder` in TypeOK. They follow from one
invariant, `GInv`, whose parts need each other: a window that opens is put on the
stack once because its slot was free and a free slot is not on the stack; the
window that inherits the focus of a closed one is open because the stack holds
open windows only; a click can forget no drag because the button was up, and
then nothing was dragged. The lemmas about `z_bring`, `gui_open` and `gui_close`
are stated on any desktop and each action cites them; the bound on `zorder` is
the pigeonhole principle on a stack without repetition.

**KeyboardProofs** cites RingProofs for both rings by INSTANCE: between pushes of
the handler and steps of `gui_run`, each ring of the driver takes a step of `Ring`
or none, so `InOrder` follows from the theorem about any ring. `InStep` is not
inductive, since it speaks of an empty wire only. `DecoderInv` says what the bytes
still on the wire will do: a prefix is followed by its byte (`Paired`), and
when the last event of a shift key, on the wire or remembered in `shift`, is a
press, then a shift key is held (`LastShift`); a byte behind a prefix is none, which
is what keeps the fake shifts of the cursor keys out.

**ShellProofs** has one invariant, `Good(s)`, of a state s of the file system
rather than of the variable, because a command makes several calls, each of which
may fail, and has to keep it in between. Its parts need each other. The list of
children names a node once (`Linked`), or `fs_rm` would leave a second entry behind
when it removes the first. Each node has a depth (`Ranked`), which the local
`TreeLinks` does not give: two directories that are each other's parents satisfy
it. The depth is a function, and attaching or removing a leaf changes it in one
place; from it follows `Connected`, since the parents of a node reach the root in
as many steps. The current directory is live because `fs_rm` refuses it, and not
because nobody removes it: mv of a directory goes through `fs_rm` as well.
`fs_rm` takes a leaf only, which keeps the depth of all the others. `CpCopies`
rests on what `fs_write_file` leaves alone (`WriteGood`): a success leaves the text
where the path leads, since the walk looks at names and links only (`SameLookup`),
and every other text as it was. A last group of lemmas says what the calls leave
alone: `Adds(s, t, d, name)` is a step from s to t that adds or overwrites one name
of directory d, `RmTakes` one that takes a name away. The second lookup of
`fs_write_file` must find the file that the first created in d, and a new first
child does not change where a path of directories leads (`DirStays`).

**AppsProofs** has the windows on that file system. Editor, Files, Terminal and
Apps each bring a copy of the operators of Vfs; a group of lemmas shows that they
are the same functions (`MakingIsOne` to `CopyingIsOne`), so that all ShellProofs
says of `Good` holds here, with the paths and texts the windows use for `Paths` and
`Texts`. `AppsInv` is the conjunction of `Good(fs)` and one invariant of each
application. That of the editor says what its array holds: `Terminated(buf, len)`
is kept by memmove because the terminator moves along (`BackspaceKeeps`) and has
room (`TypeKeeps`). What it loads must not hold the terminator, which `Good` gives: every text of the
tree is one of the texts the windows may write (`NoTerminator`). A command elsewhere
keeps `Good` because each of the calls it is made of does (`ElsewhereKeeps`). The file manager's row may be beyond the list, and its folder
gone or a file: `Good` makes a selected row a live child of the folder shown
(`SelectedLives`). From `AppsInv` follow that the tree stays one in every window
(`TreeStaysGood`), `TypeOK`, and `ChangesAreLocal` by `Adds` and `RmTakes`: the path of a name in the folder shown is split into that folder and
that name (`InFolder`), a save that answers Salvato has reached its last step
(`SaveIsLocal`). `Histories` is the conjunction of four refinements of Recent and
what the positions show. `Grown` is a list to which entries were pushed, at most
cap of them kept: two in a row are one (`GrownOn`), so that an output pushed line by
line is a single step of Recent (`PushAllGrows`). No entry repeats the one before it
because `app_terminal_key` and `sh_push` compare, but for an entry of the shell's
that was cut after the comparison.

**NetProofs** splits the invariant into the rings. `TxInv` says that the frames the
card still has are in the order they were handed over and newer than all that
went out, and what `net_tx_test` may conclude in each state of its call; that the
tail can run into the head, which hides all frames from the card, breaks none of
it, which is why `TxSound` holds although no room is ever checked. `RxInv` says whose
each descriptor is: the tail is the one behind `rx_cur`, the done ones are exactly
those from the next frame of the driver up to the card's head, and while the
driver handles a frame the card does not come round to it. From it each step of
card and driver maps to a step of BoundedFifo or to none. The arithmetic of the
wrapped indices is in lemmas on distances (`Gaps`).

**Ps2Proofs** has the type of the controller and of the boot code: whoever reads,
with a byte or without, gets a byte a device sent, and the packet index stays
within `b[3]`.

Only model-checked are:

* liveness, which is beyond the prover: `EverythingIsRead`, `AnimationsEnd`,
  `FramesRead`, `NothingStuck` and `Resynchronised`;
* what loops print: `LinesAgree`, `EditorShows`, `WalksAgree` and `CalcParses`.
  What the loops of the tools, the walks of du, tree and find, and the parser compute,
  for every text, tree and expression, is an induction over the recursive functions and
  folds they are;
* `MonthsRunOn`, of which the run checks every month there is: the years are those the
  code allows, so a proof would add nothing.

## 5. Not modelled, and why

`PROJECT.json` lists every component. Start-up code, tables, device registers
and drawing have no state that properties could relate. The frame bitmap of
`pmm.c` is filled once and never used, since nothing calls `pmm_alloc_frame`;
its counters are only printed.

Within the modelled parts: kstrdup (no caller), heap_used_peak (never read),
ctrl and alt (never read), window positions, titles and colour schemes, the
power buttons of the start menu (they end the system), what status lines say
(but for Salvato, a selected folder and a new file), the lengths at which names
and paths are cut, and the terminal's output at 2048 bytes, tabs as blanks, the floating-point
arithmetic of the calculator, the text of the browser's pages.

The terminal's state, `term_t`, takes 10516 bytes, and `gui_open` allocates 8192
for every window. The seventh entry of its history straddles the
end of the block if it is long, the eighth begins in the payload of the next one, and
`hcount` and `hpos` always lie behind the block, 2304 bytes into the next; `gui_init`
opens the file manager right behind the first terminal. Heap lets an owner write
only into its own block and Terminal keeps a window's state to itself, so both
hold only as long as nobody else uses the bytes behind a terminal's block. What
overlapping owners do to each other is a matter of byte layouts and is left out.

Met on the way and left at that, because nothing depends on it or no state tells
it: `total_kb*1024` (pmm.c:25) is 0 for the 4 GB the line before admits, and the
extension at pmm.c:64 marks free what the memory map reserves; the clock's
registers are read one by one (rtc.c:14); `net_irq` replaces any handler of its
interrupt line (e1000.c:151); an exponent of a billion keeps the desktop busy
(calc_engine.c:37); the prompt is cut before its tail is chosen (terminal.c:54);
blocks of the heap are never merged (heap.c:18); a click on the taskbar does not
stop a window that is sliding down (gui.c:379); characters typed within one turn
overtake cursor keys (gui.c:290).

## 6. Plan

1. Done: heap, rings, keyboard, file system and shell commands, window manager,
   the i8042 shared by keyboard, mouse and LED code, the network rings, the
   applications and the shell's tools.
2. Done: proofs of every safety property of the runs but those of what loops print.
3. Next: that what `find` prints are the nodes below, by induction over the depth of
   `Ranked`; that the rows of head, tail and grep are the lines of a text.
4. Then: the position and the buttons the mouse handler writes while the loop
   reads them; the file system over the heap.
