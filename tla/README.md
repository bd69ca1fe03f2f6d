# A TLA+ model of veni

veni is a small i386 kernel: it boots, sets up segments, interrupts, paging and a heap, mounts a file
system that lives in memory, and runs a scenario of file calls in `kernel_main`. There is one processor,
one thread and, from the end of `kearly` on, interrupts. These modules model the parts that keep state of
their own, check them with TLC on small instances and prove what matters most of them with TLAPS for
every value of the constants.

All paths below are under `src/kernel/` unless they begin with `src/`.

## 1. The system

| Component | Code | State | Operations | Talks to |
|---|---|---|---|---|
| RAM file system | `kernel/filesystem/ramfs.c` | `inodes[64]`; per directory `entries[256]`; per file one heap buffer | create, open, read, write, close, unlink, mkdir, rmdir, stat | heap (malloc, free), `strtok` |
| Virtual file system | `kernel/filesystem/vfs.c` | mount table, tree of nodes, `vfs_files[32]` | vfs_create, open, read, write, lseek, close, unlink, mkdir, rmdir, stat, mount, unmount | ramfs through `ops`, heap, `strtok` |
| Kernel heap | `kernel/memory/heap.c` | list of block headers, the break | kheap_init, kmalloc, kfree, sbrk | vmm, pmm |
| Virtual memory manager | `kernel/memory/vmm.c` | page directory and tables | vmm_init, map_page, unmap_page, get_physical_address | pmm |
| Physical memory manager | `kernel/memory/pmm.c` | bitmap of frames, `used_pages` | pmm_init, pmm_alloc_page, pmm_free_page | - |
| Keyboard | `arch/i386/drivers/keyboard/keyboard.c`, `kernel/kb_keys.c` | ring buffer of 128 packets, modifier flags, key tables | interrupt handler; available, getkey, readkey, key_to_ascii | interrupts, ports |
| Interrupts | `arch/i386/interrupts/` | IDT, handler table, masks of two PICs | irq_handler, install, mask, end of interrupt | every driver |
| Timer | `arch/i386/drivers/pit/pit.c` | tick counter | handler, set frequency | interrupts |
| Terminal | `arch/i386/tty.c` | row, column, colour, screen, the cursor's registers | putchar, backspace, write, scroll, clear | printf, interrupt and exception handlers |
| Formatted output | `src/libc/stdio/printf.c` | - | printf | terminal, serial line |
| Boot | `arch/i386/kearly.c`, `kernel/kernel.c` | - | order of initialisation; the scenario | all |
| The rest | `arch/i386/gdt.c`, `io.c`, `serial.c`, the rest of `src/libc`, build files | none that matters | - | - |

What is hard in it, and what makes each part correct:

* **ramfs**: slots and buffers are reused in whatever order calls free them; entries are removed by
  shifting; a path is looked up, cut at its last slash and looked up again. Correct when the table is
  always a tree, every buffer has one owner, nothing is lost, and each call does to the tree something a
  file system may do.
* **vfs**: `vfs_create` interleaves its own `strtok` with those of the lookups it calls, ignores the
  result of mkdir, and can fail half way (malloc, descriptors) after ramfs has made the file. A tree of
  nodes caches what ramfs has and is never told of removals. Correct when the walk keeps the path it was
  given, a descriptor returned is of that path, and the two trees agree.
* **memory**: splits and merges rewrite the links of up to three headers; `sbrk` allocates and maps page
  by page and may stop half way; paging takes frames from the same allocator that serves the heap, and
  writes its tables at their physical addresses. Correct when the list tiles the heap, pointers in use
  have their bytes, pages under blocks stay mapped to one frame, and no frame has two uses.
* **keyboard, terminal**: handlers interrupt the kernel code that uses the same state, and their stubs do
  not save its registers. Correct when no key is torn, reordered or read twice by a read whose registers
  nothing took, and when what an interrupted call leaves spoils no later one: the ring is a queue again,
  and a clear and a panic mend the page whatever it was.
* **interrupts**: two controllers that rank their lines and must be told of each end, masks in two ports,
  and an order of set-up in which each step relies on the one before. Correct when every end of interrupt
  ends its own line, the masks are those asked for, and whatever asks on an open line is served.

`PROJECT.json` lists every hazard at its line with the properties aimed at it.

## 2. Modules

| Module | What it is |
|---|---|
| `Ramfs` | `ramfs.c`, every operation; its properties |
| `FsTree` | the abstract file system: a map from paths to directories and files with bytes |
| `RamfsTree` | the refinement of `FsTree` by `Ramfs` |
| `Vfs` | `vfs.c` with `strtok`'s static position, over `Ramfs` |
| `Pmm`, `Vmm`, `Heap` | the three layers of memory, each extending the one below |
| `KeyQueue` | the abstract queue of keys, with the calls that read it |
| `Keyboard` | `keyboard.c`: the handler, the ring buffer and its reader, a refinement of `KeyQueue` |
| `Irq` | `kearly`'s interrupt set-up, `pic.c`, `isr.c`, `isr_a.S`, `pit.c`, with the two controllers and the devices |
| `TtyPage` | the abstract terminal: lines, a place to type at, a cursor |
| `Tty` | `tty.c` store by store, under interrupts and exceptions that print: a refinement of `TtyPage` |
| `Printf` | `printf.c`: the text it sends and the number it returns |
| `MCRamfs`, `MCVfs`, `MCHeap`, `MCKeyboard`, `MCTty`, `MCPrintf` | scancodes, names, paths, bytes, texts and request sizes for TLC |
| `LeastNat`, `RamfsProofs`, `VfsProofs`, `MemoryProofs` (`Pmm` and `Heap`), `KeyboardProofs`, `TtyProofs`, `IrqProofs`, `PrintfProofs` | the proofs |

Operators whose comment begins with `Slip:` are not the code: each is a plausible mistake in the
definition next to it, kept to show which property would notice it (`mutants` in `PROJECT.json`).

### How state and actions correspond to the code

**Ramfs.** `inodes` is the static table. A record keeps `used`, `type`, `data` (the buffer, or `NULL`),
`capacity`, the `entries` in order, and in `bytes` the first `size` bytes of the buffer; so `size` is
`Len(bytes)`. A freed slot keeps its record, as in C. `bufs` is the set of buffers that are allocated in
the heap. A path is the sequence of the parts between its slashes with `Empty` for what lies between two
slashes or after the last: `strtok` skips it, `strrchr` does not, and the difference shows
(`create("a/")` makes an entry with an empty name). `Trunc` is what `strncpy` keeps of a name. Paths of
255 characters and more are not modelled. An action's last parameter is what the call returns;
`ramfs_read`, `ramfs_close`, `ramfs_stat` and the lookup change nothing and are operators (`ramfs_open`
is the lookup). `size_t` is modulo `WORD`. Once a write has gone outside its buffer anything may follow
in C, so `overrun` ends the behaviour. malloc may fail at any call: the heap is shared and its free space
is not tracked here.

**Vfs.** An absolute path is the sequence of its parts; the root is the empty sequence. A node is an
element of `Node`, `nodes` its contents (kept after `free`), `live` the allocated ones. Only `vfs_create`
is several steps: `CreateEnter` up to the first token, one step per turn of the loop (`CreateDescend`
when the directory's node is there, `CreateDir` when it has to be made), and `CreateFile`. Its locals are
in `call`; `rest` is what `strtok(NULL, "/")` has still to return. `mkdir` calls `ramfs_find_inode`,
which runs `strtok` over a copy of `current_path`, so on return the static position is behind the token
where that lookup ended: `Leftover`. That copy is in a dead stack frame; the calls that run until the
next `strtok` (malloc, strncpy) are taken not to reach that deep, so its bytes are still there. No other
call runs inside a `vfs_create`, as there is one thread and no handler uses files. `Garbage` is what a
field nobody sets can hold, `NullName` what is read at address 0 where a name should be.

**Pmm, Vmm, Heap.** A frame is its number and `NoPage`, frame 0, is also `NULL`. `Vmm` has a directory of
tables and one entry per virtual page. `Heap` has addresses as numbers, and a header per address in
`header`. `kmalloc` is one step when the list can serve it; otherwise `kmalloc_sbrk` moves the break,
`SbrkAlloc` and `SbrkMap` alternate page by page, and `SbrkDone` inserts the new block, splits it and
gives it. The initial heap of `kheap_init` takes the same way. `map_page` clears a new table at its
physical address, and only the first `TableSize` frames are mapped to themselves (`vmm.c:27`): for a
table in a later frame that is a page fault, and with no frame left it is the directory, frame 0, that is
cleared. `stopped` ends the behaviour in both cases (`Writable`). Callers free a pointer they hold, once;
the check of `magic` then never fails and is left out.

**Keyboard.** One turn of the handler's loop, one scancode, is one step: interrupt gates keep interrupts
off until it returns, and a turn more in the same interrupt looks to the reader like one more interrupt.
The reader's steps are its two looks at the indices, the two four-byte moves that copy a packet, the move
of the tail and the return; the handler may come between any of them. `reader` holds where it is and what
it has copied, `got` what the call returned. The stub of an interrupt saves no register (`isr_a.S:29`),
and EAX, ECX and EDX are the handler's afterwards. `reader.lost` says that one may have come since the
reader loaded its own: then a test goes either way (`Finds`), the new tail may be what the handler left
(`LeftIndex`; its last store is the 32 of `pic_send_eoi`) and so may the packet the caller gets
(`LeftPacket`, which also stands for one copied from a wrong slot or in two halves that do not belong
together). A call of `io_wait` makes the reader load its registers anew. `down`, the keys of shift, ctrl
and alt whose press has come and whose release has not, is the typist's, for `FlagNeedsKey`. The packets
between tail and head are the queue of `KeyQueue`; a key dropped is a stutter there. A read whose
registers were lost may answer anything there (`Misread`) and leave any queue.

**Irq.** `imr`, `irr` and `isr` are the registers of the two 8259As, as sets of bits; what they pass on
(`Passed2`, `Passed1`), their acknowledge (`Interrupt`), the spurious line 7 of each (`Spurious`) and
their non-specific end of interrupt (`Ends`) are hardware, modelled as `pic.c` programs it: edge
triggered, fully nested, the second chip on line 2 of the first. `IrqInit` leaves open which lines the
firmware masked and which devices asked already. `stage` counts through `kearly`'s calls; `pic_remap`
forgets every request, as ICW1 does. A call of `irq_set_mask` or `irq_clear_mask` is one step (`Masks`,
`Unmasks`): the only caller is `kearly`, before `sti`, when nothing comes between the read of the port
and its write, and the model allows others there in any order. `InLine` includes numbers that are no
line: the shift leaves the byte from line 16 on and, as the processor takes its count modulo 32, comes
back to it from line 40 on (`Shifted`). `handling` is the handler that runs and where it is: its body,
the end of interrupt (two writes for a line of the second chip), `iret`. Of `keyboard_handler` there is
what its device sees: each turn of the loop reads a scancode (`keyboard_reads`), and it ends when the
status port says there is none; the rest of a turn is `Keyboard`'s. `asked`, `early` and `lost` are
history.

**Tty.** Each store of `tty.c` to the screen, to `terminal_row` and `terminal_column`, and each `outb` to
the cursor's registers, is a step. The two variables are not `volatile`, and what GCC makes of the file
keeps them in registers: at each use the model takes either the copy the call has (`RowSeen`,
`ColumnSeen`) or what is in memory then. A store that the next one undoes (`terminal_column` at the
width, `terminal_row` at the height) may be left out. `terminal_backspace` loads the column it tests and
decrements once. `irq_handler` may come between any two steps of a kernel call, and `exception_handler`
between any two steps of either; it never returns. `page`, `torn` and `irqs` are history: the terminal at
the end of the last call that ran alone or was the outermost, and whether an interrupt came since, and
how many.

The stub of an interrupt saves no register. In a call one has come in (`Lost`), each value the call may
have in EAX, ECX or EDX may be what the handler left (`Or`): a row or a column, before and after it is
counted up, may be `LeftNumber` (32, the command `pic_send_eoi` sends last), a character `LeftGlyph`, and
so on with the position, the bytes sent and the ports they are sent to (`Sent`). `CharLost` is a newline
forgotten after it was looked at, `StoreMisses` a store whose address was in such a register: what it
changes is not modelled, and the behaviour ends ("wild"). The registers of a handler and of the panic are
never lost: gates keep interrupts off there.

`TtyPage` has one step per character. A call that was interrupted may leave any page there (`Settle`).
While the place is off the page nothing is promised of what is typed (`Stray`), but a clear mends it.

**Printf.** One action per branch of the loop of `printf.c`, a turn each, from a call to its return;
`maxrem` is a `size_t` (`Room`), and each action says whether it looks at it (`Checks`) or not (`Sends`).
`Stands` is what a format stands for, piece by piece (`Piece`: a character, `%%`, a conversion), with
numerals by division and not by the chunks and the digit loops. A call supplies an argument to each
conversion (`SuppliedAssumption`): C leaves what `va_arg` finds otherwise undefined. `printf` is not
composed with `Tty`, whose handlers type a given text.

## 3. Runs

| Run | Checks | Shows |
|---|---|---|
| `ramfs_tree` | `TypeOK` `TreeOK` `KindOK` `BuffersOwned` `UniqueNames` `ImplementsTree` | any callers: directories unlinked with entries in them, growth and failed mallocs, writes with a gap and writes whose end wraps |
| `ramfs_files` | `NoOrphans` `NeverFull` `NoOverrun` | callers that unlink files only (what the comment above `ramfs_unlink` says it is for) and offsets that do not wrap; names cut to the same 31 characters, doubled and trailing slashes |
| `vfs_names` | `VfsTypeOK` `WalkKeepsPath` `NodesOwned` `SiblingNames` `CreateOpensPath` `CreateReturns` | paths of up to three parts, unlink and rmdir at any time between calls, one descriptor, too few inodes and nodes |
| `vfs_mounts` | `MountsLive` `FilesBacked` | `/` and a directory below it mounted and unmounted in any order, twice too, a path with no token left; files read and written, none removed; files become nodes one, two and three parts below a mount, and directories of ramfs have no node |
| `heap_blocks` | `HeapTypeOK` `BlocksTile` `HeldFits` `Coalesced` `BlocksMapped` `FramesApart` `BlocksStay` | requests of up to a page, four pointers held, six frames; growths until the frames end |
| `vfs_deep` | `WalkKeepsPath` | *violated*: four parts, two new directories: the third part becomes the file |
| `keyboard` | `KbTypeOK` `FlagNeedsKey` `ImplementsQueue` `GetkeyReturns` | a reader interrupted between any two steps, its registers lost or not, a ring of three slots that fills up, both shifts, caps lock and a key the table does not know |
| `heap_remap` | `BlocksStay` | *violated*: after a request larger than a page the break is inside a page, and the next growth maps that page to a new frame under a block in use |
| `irq` | `IrqTypeOK` `InServiceMatched` `MaskAsAsked` `NoneLost` `KeyPending` `Served` | a timer, a keyboard, a device on line 3 that has no handler and two on the second chip (lines 8 and 12), spurious interrupts, masks set and cleared for lines of both chips, for the cascade and for two numbers past the byte; any state of the controllers before `kearly` |
| `tty` | `TtyTypeOK` `PanicShows` `ImplementsPage` | two lines of two cells, calls interrupted at any step by a message or by a handler that prints nothing, with the registers lost or not, rows and columns off the page, an exception at any step of either |
| `printf` | `PrintsText` | every format of up to three characters over five, and longer ones with two conversions or a string and 64 characters; texts of `INT_MAX` characters and of more |
| `heap_kernel` | `KernelKept` | *violated*: the frames of the kernel image are handed out |

The bounds. Four inodes are the root, a directory, one inside it and one more: enough to free a slot and
take it again at every level, and to lose what is below a directory. Two names and the empty one give
collisions in a directory; `ramfs_files` has more names than a directory can get. Offsets 0 and 1 with
one byte of data write at the start, append, overwrite and leave a gap; 7 with `WORD = 8` wraps. Buffers
and nodes are interchangeable (symmetry), except in `vfs_names`, which checks liveness. In `Vfs`, paths
share prefixes so that a name is a file for one call and a directory for the next; `WORD = 64` never
wraps, as `MaxOffset` keeps offsets at 2 or below. In `Heap` addresses count units of four bytes and a
page is 32 of them instead of 1024, with headers, alignment and slack at their sizes, so that a page
holds four blocks and every kind of neighbourhood occurs. A page table has four entries there and four
frames are mapped to themselves, so that the heap's first table can be written, as in the kernel.
`FramesApart` and the others are checked up to the last frame; that the heap gets no further than its
first table whatever frames there are is proved, not run. The keyboard's ring has three slots instead of
128, two of which can be full: the indices wrap, and a push meets a reader at every step with one packet
waiting or two. All keys of `MCScan` are pressed; only the shifts and caps lock are released, as the
release of a key that is queued differs from its press in `pressed` alone.

`irq` has a device for each way to a handler (its own, none, through the cascade), two through the
cascade so that one can wait below the other, and a tick count that wraps at 3. A page of 2 by 2 wraps
after two characters and scrolls after four, so that each message scrolls inside a scroll. A register
that is lost holds 2 (`LeftNumber`), a row and a column just off the page, and a call begins at rows and
columns up to 2 (`MaxPlace`); bytes of two values (`BYTE`) make the cursor's position take two of them.
One interrupt comes in a call; the proofs have any number. With an `INT_MAX` of 127 two strings and a
character between them reach it or pass it by one.

Deadlock is checked, but for the runs where a behaviour really stops: at `overrun` (`ramfs_tree`), and in
a panic or a store that misses (`tty`).

**Fairness** is assumed in three places: `FairVfsSpec` has weak fairness of the steps of a `vfs_create`
that has begun, `FairKbSpec` of those of a reader, and `FairIrqSpec` of those of a handler. The processor
goes on with what it is in: there is no scheduler, and handlers return. `FairIrqSpec` has two strong
conditions more. The status port says "empty" at times while `keyboard_handler` asks for ever
(`keyboard_ends`): a key takes milliseconds and a turn of the loop microseconds. And an interrupt that is
signalled again and again is taken (`Interrupt(i)`): the processor acknowledges at the next instruction
after `iret`, before kernel code can mask the line. `Served` says the rest: a line whose turn keeps
coming is served, one below lines that always ask is not promised anything. Nothing says that a call must
begin, a key be typed or a device ask.

### What does not hold

Three disagreements are runs (above). Others show as the conditions that properties and theorems need,
and the models contain the behaviour.

*Files.* A directory that is unlinked loses its inodes (`NoOrphans` needs `FilesNext`); names that agree
in 31 characters are added twice (`UniqueNames` needs `Trunc` to be the identity); a write whose end
wraps leaves its buffer (`NoOverrun`). `vfs_unlink` leaves the node, so that the file can still be opened
(`FilesBacked` is checked while nothing is removed; `vfs.c:297` has it as a TODO); `vfs_create("/")`
makes a file with an empty name; `vfs_unmount` leaks the nodes below the root (`NodesOwned` is checked
without it); nobody sets the `fs_fd` of a directory's node (`Garbage`). When the inodes have run out, a
`vfs_create` of four parts below directories that have nodes but no inodes gets the same parts from
`strtok` again and again: it makes nodes until memory ends, which here is the end of `Node`
(`CreateReturns` is checked on shorter paths).

*Memory.* A growth of two pages or more that runs out of frames half way keeps those it has mapped, while
the comment at `heap.c:35` says "roll back": the break is. The next growth maps other frames over them,
and they are lost; no property forbids that (`FramesApart` says that none gets a second use). The heap
ends after its first page table, 4 MB, although `HEAP_END` is 256 MB on: with 4096 frames, the frame of a
second table is always past the first 1024, where `map_page` cannot write it (`OneTableCorrect`). A
bitmap whose last word is partial is not cleared (`CountAgrees` needs whole words); a request close to
2^32 wraps in `Needed` (`NoWrap` excludes it from the proofs).

*Interrupts.* The stubs save no registers. A key may be read twice, torn, or not be one that was typed,
when an interrupt came while the reader held registers (`lost` in `KeyQueue`); it may even make
`keyboard_getkey` return from an empty ring. A call of the terminal that was interrupted may leave the
row at 32, below the page: `++terminal_row == VGA_HEIGHT` is then not true any more and nothing scrolls
until a clear, or until the row is rubbed back (`Stray` in `TtyPage`); or store outside the screen
("wild"). Without any register lost, such a call may still type over the handler's message and leave the
cursor's registers mixed until the next call. Releasing one shift key clears the flag while the other is
down (`FlagNeedsKey` is the half that holds); a key pressed before `pic_remap` leaves a scancode that
nothing asks to be read (`early` in `KeyPending`); after `pic_disable` clearing the mask of a line above
7 opens nothing, as the cascade stays masked (`Open`); a mask call for a number from 40 on changes a line
of the second chip (`LinesFit` excludes it from the proof).

*Formatted output.* `%d` of the least int prints no number (`PrintsText` excludes it), and `%p` and `%zu`
do not look for room (nor does `PrintsText` say anything of long texts with them).

## 4. Proofs

`tlapm` checks the following for all values of the constants that satisfy the named `ASSUME`s.

`RamfsProofs`: `Spec => []IInv` (**Invariance**), with

    IInv == TypeOK /\ TreeOK /\ KindOK /\ BuffersOwned /\ SizeFits

None of the parts but `TypeOK` is inductive alone. That an entry leads to a slot in use (`TreeOK`)
survives a removal only because no other entry shares its target; freeing `inodes[i].data` keeps
`BuffersOwned` only if a directory has no data and a freed slot's stale pointer is not counted
(`KindOK`); and a write keeps `SizeFits` only when the pointer is `NULL` exactly at capacity 0. The parts
speak of freed slots too, because their records stay. The argument goes by the two changes the operations
make to the table, adding an entry (`AddPreserves`) and removing one (`RemovePreserves`), and the write
(`StorePreserves`); each operation is then shown to be one of them (`CreateStep`, `UnlinkStep`,
`RmdirStep`, `WriteStep`). From it:

* **TypeCorrect**, **TreeCorrect**, **KindCorrect**, **BuffersCorrect**, **SizeCorrect**: its parts.
* **NeverFullCorrect**: `entries[256]` never fills up with 64 inodes, by counting: entries lead to
  different inodes, none to the root.
* **NoOverrunCorrect**: if no `offset + size` in use reaches `WORD`, no write leaves its buffer.
* **UniqueNamesCorrect**: if no name in use is cut, no directory has a name twice.
* **NoOrphansCorrect**: if entries are at least as many as inodes, callers that unlink files only
  (`FilesSpec`) lose no inode.
* **TreeImplemented**: if no name in use is cut, every step of ramfs is a step of `FsTree` or changes
  nothing there (`ImplementsTree`). Both trees are functions on all paths, so the argument is about what
  a path leads to before and after a step: an entry added gives one path an end (`EndsAdded`), one
  removed takes the ends of the paths through it (`EntryRemoved`), a write changes none. A path to a slot
  in use has fewer parts than there are inodes, because no two of its prefixes lead to one inode; so the
  mapping's bound on the length of a path leaves none out.

`VfsProofs`, for any mounts, paths, calls and failures: `VfsSpec => []VInv` (**VfsInvariance**), with

    VInv == IInv /\ Shapes /\ MountsLive /\ NodesHeld /\ CurrentLive

`vfs.c` is one caller of ramfs among others, so `IInv` is kept by the same lemma (`StepInvariant`), and
**TableUnderVfs** follows. That every mount keeps a live root of its own (**MountsCorrect**, with
unmounts) needs `NodesHeld`: a child is live, has one parent and is no root, so that `vfs_unmount` frees
a node nobody leads to. `CurrentLive` says that the node a `vfs_create` has got to is live.
**VfsTypeCorrect** is another part. The other results have conditions:

* **NodesCorrect**: no allocated node is lost, while nothing is unmounted (`vfs_unmount` leaks what is
  below the root).
* **SiblingsCorrect** and **UniqueNamesUnderVfs**: siblings have different names, among the nodes and in
  ramfs, if no name is cut.
* **WalkCorrect** (`WalkKeepsPath`): no part of a path is lost, if paths have at most three parts
  (`ShortPaths`). The pointer of `strtok` is moved only by a turn that makes a directory inside a
  directory, and on such a path that turn has one token left, and nothing after it. With four parts it
  fails, as the run `vfs_deep` shows.
* **OpensCorrect** (`CreateOpensPath`): if besides no name is cut and paths have no empty part and are no
  mount's (`PlainPaths`). `PathInv` adds to the walk that `current` is where `current_path` leads
  (`CurrentWalk`); the file is then made at the path the walk has gone along, and its node too.
* **FilesCorrect** (`FilesBacked`): if no name is cut, paths have at most three parts, none empty or
  spelled as the bytes at address 0 are (`PlainNames`), and nothing is removed (`vfs_unlink` leaves the
  node). `Backed` says it of every walk from every root; a new node is reached by one walk only
  (`WalkUnique`), the one its file was made along, and without removals what a path leads to in ramfs
  stays (`EndsKept`). A path that is a mount's is allowed here: its file is made under no path at all
  (`EmptyCall`).

`Tokens` and `Walk` are shown to exist by least counterexamples, as below. What a step does to a walk is
in lemmas about two trees, before and after (`WalkGrows`, `WalkStays`).

`KeyboardProofs`, for any size of the ring, any table and anything an interrupt leaves in the registers:
**KbTypeCorrect**; **FlagCorrect** (`FlagNeedsKey` is inductive given the types: a release clears every
flag its key could have been the reason for); and **QueueCorrect**, that every step of the driver is a
step of `KeyQueue` or changes nothing there. Its strengthening is `ReaderInv`: a reader past its look
whose registers are its own has a packet, and what it has copied is still the packet at the tail, because
the handler moves only the head and never writes the slot at the tail of a ring that is not empty. What a
push and a move of the tail do to `Unread` is arithmetic modulo `BUFFER_SIZE`, in the lemmas
`PushAppends` and `AdvanceTails`. Once registers are lost there is nothing to keep but the shapes, and
`LostSlips` says that whatever the read does then is a `Misread` of the abstract queue: the indices stay
in the ring, so what is between them is a queue.

`MemoryProofs`, of the bitmap: **CountCorrect**, under `WholeWords` (the frames are a multiple of the
bits of a word, as with the 4096 of the one caller).

Of the heap, for any sizes of page, header, alignment and slack, any requests and any failure of `sbrk`:
**TilesCorrect**, **HeldCorrect**, **CoalescedCorrect**, **HeapTypeCorrect** and **CountUnderHeap**
(`CountAgrees` for the frames paging and the heap take). They assume `NoWrap`, that no sum of sizes
reaches 2^32 (with the heap's end at 0xE0000000: requests of less than 512 MB), and `FramesForInit`, that
the frames the first page table maps exist. The invariant is `HInv`; its core is `Tiled`: blocks do not
overlap, `next` leads to the block that begins where this one ends, `prev` to the one that ends where
this one begins, the first block is at `HEAP_START` and one ends at the end. `BlocksTile` alone is not
inductive: it says nothing of a block nobody leads to, nor that the header a split writes is in no other
block. `Tiled` is a statement about a map of headers, not about the state, so that it can be carried
through the middle of `kfree` and of `kmalloc` (`SplitKeeps`, `AbsorbTiles`, `AppendKeeps`, `FreeTiles`).
`MergedBut` is `Coalesced` with one block left out, which is what holds there. That the `while` of
`merge_free_blocks` turns once at most is `MergeNextOnce`.

The frames under the heap are the subject of **FramesInvariance**, for requests of any size and growths
that fail half way, until a new table cannot be written. Its strengthening, `FramesInv`, is that a frame
has one use (`FramesApart`: the directory, one table, one page of the heap, or in the hand of an `sbrk`,
and taken in the bitmap in each case), and that the pages of the heap are mapped as far as an `sbrk` has
come, the break having moved before (`MappedSoFar`). **ApartCorrect** is its first part. A growth that
fails leaves pages mapped past the break; the next one maps other frames there, which takes a use from
the old frames and gives none a second.

**OneTableCorrect** assumes besides that the heap begins where a table does (`HeapAtTable`, as 0xD0000000
does) and says that all the heap's pages are in one table. It counts: when a page of a second table is to
be mapped, all `TableSize` pages of the first have frames of their own, so the lowest frame that is free
is past the first `TableSize`, and the table cannot be written.

**MappedCorrect** (`BlocksMapped`) and **StayCorrect** (`BlocksStay`) need `PageRequests`, that a request
with its header takes at most a page: the break then stays between pages (`Aligned`). A larger growth
maps the last page of the heap anew and leaves its own last page unmapped: the run `heap_remap`.

`TtyProofs`, for any width, height, texts and any number of interrupts, whatever they leave in the
registers: **TtyTypeCorrect**, from **TtyInvariance**. `IInv` says for every place of a call what its
loop index and its character may be, and who can be in the middle of a call. Rows and columns stay
naturals whatever is left in a register, as each decrement is of what the test before it has seen. One
lemma per step.

**PageCorrect** is the refinement: every store is a step of `TtyPage` or a stutter. It assumes
`CursorFits`, that a position fits the two bytes of the cursor registers (80 * 25 < 2^16). Its invariant
`Tracks` (**TrackInvariance**) says, for each place of a call nothing has interrupted, what the stores so
far have made of the screen, the place and the registers, in terms of the page as it was, if that page
had its place on it; for a clear, whatever it was. Of a call in which an interrupt has come nothing is
tracked: its end is a `Settle` of the abstract page. **PanicCorrect** (`PanicShows`) is about a call that
may have interrupted any other, torn or not: the panic begins by clearing the page, so that what was half
done no longer matters, and `PanicInv` follows what it has written. The page a text leaves, `Written`, is
a recursive function, shown to exist first.

`IrqProofs`, for any devices, any calls and any width of the tick count: **IrqTypeCorrect**,
**ServiceCorrect**, **MasksCorrect**, **NoneLostCorrect** and **KeysCorrect**. `Flow` says that
interrupts are on only with `kearly` done and no handler running, `Service` what is in service at each
place of a handler (at most its own line and the cascade, so that the first in service is the right one
to end). **MasksCorrect** is for calls that name lines up to 39 (`LinesFit`): that such a call changes
its own line's bit and no other, or none when there is no such line, is `ShiftFacts`.

`PrintfProofs`, for every format, all arguments a call supplies and any width of an int: **TextCorrect**
(`PrintsText`, with its two exceptions), from **PrintfInvariance**. The strengthening, `PrintInv`, is
that the call has reached some character of the format with some arguments read (`Reached`): what is left
of both is their rest, the text is what was sent followed by what the format stands for from there
(`From`), and `written` is the length of what was sent as long as an int holds it (`Counted`); of the
formats without `%p` and `%zu` it always is. A turn then has to take whole pieces (`Advances`): a chunk
is the one-character pieces up to the next `%` (`FromRun`), and only the first conversion that fits is
one (`OneConv`). The digit loops write what division gives (`DecimalIs`, `SignedIs`), by the least number
of digits whose power of ten is larger (`LengthUnique`, `NumeralNext`), with powers as a recursive
function (`PowerFacts`): the provers know none.

`ramfs_find_inode` is a recursive function, so `RamfsProofs` first shows that it exists (`WalkExists`)
and what one more part does (`LastTurn`), by least counterexamples (`LeastNat`) in place of the library's
induction theorem. What holds of every path is then shown on sets of paths that have the empty path and
with a path each path one part longer (`PathInduction`). The text from a character on (`From`) and the
digits of a number are shown to exist in the same way.

Every property of a passing run is proved so, under the conditions named above, but three:
`CreateReturns`, `GetkeyReturns` and `Served` need fairness, and only TLC checks them.

## 5. Not modelled

* `unmap_page` has no caller; TLB flushes and control registers are hardware.
* `vfs_stat(path, NULL)`, as `kernel_main` calls it, writes at address 0, which is mapped: the result is
  modelled, the store is not.
* `pmm_free_page` has no caller: it is in `PmmNext` and its proof, and no run.
* The registers the stubs do not save (`isr_a.S:29`) are lost in `Keyboard` and `Tty` only. `Ramfs`,
  `Vfs`, `Heap` and `Printf` are modelled without interrupts: no handler touches their state, but one
  that comes while such code holds a register can spoil anything it does. What memory a store through a
  lost address changes is not modelled in `Tty` either.
* What follows when a new page table cannot be written (`stopped` in `Heap`); `heap_blocks` runs out of
  frames before that.
* The rate of the timer. (The comment at `pit.c:16` says mode 2, `PIT_MODE` selects 3.)
* `pic_get_irr` and `pic_get_isr` read two registers and have no caller. Colours.
* Segments, ports, the serial line and the byte copies of the C library: no state.
* The tables of `key_to_ascii` have no state. (`KEY_F12` is 74 and they have 74 entries.)
* `kernel_main` is one scenario of the calls `Vfs` takes in any order.

## 6. What could come next

An abstract allocator that `Heap` implements; `FilesBacked` for the paths of four parts that lose their
last ones (where a directory of ramfs without a node makes it fail).
