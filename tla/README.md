# MachiKania native C: models, checks and proofs

This directory holds TLA+ models of the operating system in the repository: a
PIC32 (32 KiB of data RAM, no MMU, no threads) that draws video by interrupt,
reads a PS/2 keyboard, keeps FAT volumes in its program flash and on an SD card,
and runs a C compiler, an assembler, a linker and the programs they make, all in
one address space. The models are about the parts of it that a unit test hardly
reaches: interrupts that cut into the program, devices that do not answer,
power that fails, globals that outlive the command that set them; and about the
translations, where what goes in and what comes out must mean the same for far
more programs than anybody would write down as tests.

## 1. Inventory

The repository has no threads. Concurrency is between the program and three
families of interrupts: Timer5 (100 us, `T5Handler`) and change notice
(`CNHandler`, higher priority) for the keyboard, and the T2/OC chain for video.
Everything else is one sequence of calls, but it is restarted in the middle:
`exit()` and the exception handler enter `main()` again with every global as it
was; only the reset button clears `.bss`.

| component | state it keeps | operations | hard part | what makes it correct |
|---|---|---|---|---|
| Key code ring (`ps2keyboard.c`) | `keycodebuf`, `keycodebufp1`, `keycodebufp2`, `vkey` | store in `readscancode()` (interrupt), `ps2readkey()` (program) | two actors, two pointers, two-step increment and wrap | keys come out in order and once; a slot is not reused under the reader; dropped only when full |
| PS/2 commands (`ps2keyboard.c`) | `ps2status`, `ps2statuscount`, `ps2sending`, `ps2sendError`, `ps2receivecommand`, port registers | `ps2init()`, `ps2command()`, `ps2statusprogress()`, `CNHandler`, DMA | two interrupt levels, timeouts racing answers, resend requests | every command ends, the driver always listens again, success means the keyboard said so |
| PS/2 frames and scan codes (`ps2keyboard.c`) | `receivecount`, `ps2receivedata`, `scancodebuf`, prefixes, `ps2keystatus`, shift and lock keys | `ps2receive()`, `readscancode()`, `shiftkeycheck()`, `lockkeycheck()` | lost edges, parity, misaligned counts | shift state equals keys held |
| Key input (`keyinput.c`, `main.c`) | `drawcount` (from video), cursor, input line | `inputchar()`, `lineinput()`, `wait60thsec()` | waits for one exact value of a counter an interrupt moves | waits end |
| Video (`videoout.c`) | `drawing`, `drawcount`, line counters | `T2Handler`, OC handlers, start/stop | chain of interrupts that enable each other | frames keep coming |
| Text, graphics (`textvideolib.c`, `graphvideolib.c`) | cursor, TVRAM | printing, scrolling, drawing | edge columns and rows | cursor stays on the screen |
| Flash disk (`flash.c`, `NVMem.c`) | `flash_buffer` in program flash | `disk_read_flash()`, `disk_write_flash()` | pages of two sectors, power cuts, failing operations | atomic but for a cut, which costs one page; other pages never change |
| SD card (`sd.c`) | `Stat`, `CardType` | initialise, read, write, ioctl | a card that is slow, refuses, is taken out or changed | RES_OK means done; only the sectors asked for; no transfer left open |
| File table (`ff_wrap.c`) and the life of a command (`main.c`, `aoutloader.c`, `cc.c`, `lb.c`) | `usingfile`, `files`, `up_to_files`, the FILs at `ARAM` | `fopen2()`, `fclose()`, `fcloseall()`, `fframset()`, `sh()`, `aoutload()`, `exit()` | abandoned files after `exit()`, program text over FILs, remounting | open files keep their FIL; written files are closed; a program can always be loaded |
| Exceptions (`exception.c`, `lb.c`) | `return_address`, persistent globals | handler, `exit()` | re-entry of `main()` | see file table |
| Heap (`umm_malloc.c`) | block list and free list in one array | malloc, free, realloc | merging and splitting, 16-bit sizes | blocks never overlap, lists agree |
| FatFs (`ff.c`) | the window, a buffer in each FIL, the FAT and the directory on the disk | open, read, write, seek, truncate, sync, unlink, rename | the order of sector writes under power cuts, copies of one sector, a full disk | no cluster in two files, closed files survive a cut, reads give what was written, nothing leaks |
| Compiler (`smlrc.c`, `cgmips.c`, `cc.c`) | operator stacks, syntax and identifier tables, frame offsets, register stack, case and label tables | a function at a time, in one pass | precedence with `?:` and calls, types, folding, registers spilled to the stack, scopes, jumps out of and into everything | the code means the source; what is refused is not C |
| Assembler (`as.c`) | segment and relocation files, symbol hash, the buffered instruction | pass 1 by line, then the object | delay slots, macros, forward references, numeric labels | see linker |
| Linker (`ld.c`) | symbol table, the list of members | two passes over objects and archives | archives in any order, commons, relocation in halves | the image means the sources |
| Formatted output (`xprintf.c`), `function_table.c`, start-up and host tools | - | - | constant or outside the target | - |

Interactions: `ps2command()` is called by the program (`ps2init()`) and from the
interrupt (`lockkeycheck()`, the resend request); `inputchar()` polls
`ps2readkey()`; every tool calls `fframset()` and then only `fopen2()` and
`fclose()`; those call FatFs, which calls the two disks; `exit()` and exceptions
cut any of these short. `cc` runs `smlrc`, `as` and `ld` one after the other, and
`ld` keeps names in the heap of `umm_malloc.c`. `PROJECT.json` lists the hazards with their lines and the
properties that cover them.

## 2. Modules

| module | what it is |
|---|---|
| `BoundedFifo` | abstract: a bounded queue between an interrupt and a reader |
| `KeycodeRing` | the key code ring; refines `BoundedFifo` |
| `KeycodeRingProofs` | its invariants and the refinement, proved |
| `Ps2Command` | the command protocol: program, two interrupts, DMA, keyboard |
| `Ps2CommandProofs` | the DMA and the line in every phase, proved |
| `Ps2AnswerProofs` | which answer the driver hears, proved |
| `Ps2Receive`, `MCPs2Receive` | the frame receiver bit by bit, the DMA ring and the drains of it; and bytes for TLC |
| `Ps2ReceiveProofs` | what it accepts, through noise and requests to resend, proved |
| `BlockDevice` | abstract: what FatFs needs of a disk |
| `FlashDisk`, `MCFlashDisk` | drive 0 in program flash; refines `BlockDevice`; and its image for TLC |
| `FlashDiskProofs` | its invariants and the refinement, proved |
| `SdCard` | drive 1: the driver, and the card as the driver uses it |
| `SdCardProofs` | what its results promise, proved |
| `FileTable` | the table of open files through commands, exits and resets |
| `FileTableProofs` | its invariants, proved |
| `FatVolume`, `MCFatVolume` | FatFs on one volume, by sector writes, with power cuts; and two volumes for TLC |
| `UmmMalloc` | the heap, word by word |
| `UmmMallocProofs` | its two lists, its contents and its NULL, proved |
| `Assembler` | pass 1, middle and pass 2 of `as` |
| `Linker` | both passes of `ld`; extends `Assembler` |
| `Toolchain`, `MCToolchain` | a source read line by line, assembled and linked; what the source and the image do when they run; and sources, objects and archives for TLC |
| `Words` | machine words and the constants of the compiler |
| `ExprParser` | `expr()`, `exprUnary()`: tokens to postfix order |
| `ExprTypes` | `exprval()`: types, checks, folding, short circuits |
| `CodeGen` | `cgmips.c`: `GenPrep()`, `GenExpr0()`, the register stack |
| `Declarations`, `Statements` | `ParseDecl()` and `ParseStatement()` of one function, with its frame |
| `Processor` | external: a processor, and called functions that keep to the calling convention and to nothing else |
| `CSemantics`, `CDeclarations`, `CStatements` | the reference: what expressions, names and statements mean in C, by structure of the source, with no stack and no pass |
| `Compiler`, `MCCompiler` | a function read token by token, compiled, and run; and the forms of sources for TLC |

Each definition keeps the name of its function or variable where TLA+ allows, and
`PROJECT.json` maps every definition to its lines. A definition whose comment says
"faulty variant" is not part of the model: it is the operation with a plausible
bug, and the property named for it in `PROJECT.json` fails when it takes the place
of the real one.

### KeycodeRing
State: `keycodebuf`, the write pointer `keycodebufp1`, the read pointer
`keycodebufp2`, `vkey`, and `pc`/`slot` for where `ps2readkey()` is. The interrupt
part of `readscancode()` is atomic (nothing of lower priority runs inside it) and is
`Store` or `Ignore`; `ps2readkey()` is preemptible, so its test, load, increment and
wrap are the actions `FindEmpty`/`FindKey`, `Load`, `Advance` and `Wrap`. Between
`Advance` and `Wrap` the pointer is one past the end, which is the state the full
test at line 753 has to cope with.

### Ps2Command
One action for each access of `ps2init()`/`ps2command()` in the program to what the
interrupts share, one for `T5Handler` (its operators follow `ps2statusprogress()`
case by case), one for the last clock edge in `CNHandler`, and one,
`LastClockInTimeout`, for the higher-priority `CNHandler` cutting into `T5Handler`
between its test and its timeout branch. A keyboard byte is a name and a frame is
`FrameTicks` groups of edges; the bits inside a frame are left out here.
`Wrapped` stands for the unsigned count after a decrement of 0. The keyboard
(`PressLock`, `Send*`, `ClockIn`, `TakeByte`) is external: it answers as the driver
expects, plus a bounded number of bad frames, lost edges, ignored bytes, RESEND
answers and late periods.

### Ps2Receive
The level below: the keyboard clocks eleven bits (`StartFrame`, `Edge`, external),
`Record` is the DMA channel, and `T5Handler` drains the ring through `Receive`
(`ps2receive()`), counts the timeout of a frame, asks again after an error and
starts the command for the LEDs when a lock key came. A command of `ps2init()`
drains the same ring, and there every access to `dma_readpt` is a step (`Test`,
`ReadSample`, `Load`, `Store`, `Wrap`), between any two of which the interrupt can
come once; `raced` records that it came inside the loop. `T5Loops` is the interrupt
finding `dma_readpt` past the ring, where its own loop has no end. The exchange of
the command with the keyboard (`ps2keyboard.c:487` to 573), which `Ps2Command`
checks, is the one step `Exchanged`; rising edges, which `ps2receive()` skips, and the decoding of bytes are
left out. Answers of the keyboard are not bytes here.

### BlockDevice and FlashDisk
`FlashDisk` keeps the flash row by row, the request in progress and the page
`sector_write()` works on. Each level of its recursion is `EnterSectorWrite` (which
of its three branches, and what goes into `flash_temp_buffer`), `ErasePage`, one
`WriteRow` for each row, `Recurse`. `EraseFails` and `WriteRowFails` are the
reported failures of `NVMem.c` with what the code does then: an erase failure ends
the level, a row failure ends `write1page()`, which returns 0. `PowerCut` tears the
row or any rows of the page. `BlockDevice` says what FatFs relies on: a write
changes exactly its sectors, a cut leaves all sectors old or new but those of one
page, and a write in which an operation failed may spoil the pages it touches and
no other; the refinement maps the abstract disk to the flash as it was when the
call began.

### SdCard
`send_cmd()` with its response is one step, a data block is one step. The driver's
waits test `Timer1` and `Timer2`, which nothing in the repository decrements, so a
wait is a step that becomes enabled when the card is ready. The card is external:
SDv2 addressed by block or by byte, SDv1, or MMC, with the states idle, transfer,
reading, writing; it can be slow to leave idle, lose a command, refuse or spoil a
block, be taken out and be replaced. A card put in starts without power and answers
nothing before `CMD0`, so that what the driver remembers of the one before it reaches
no sector of it.

### FileTable
`t` holds `usingfile`, `up_to_files`, the mount and what each FIL's memory holds:
the id of the mount it was opened under, 0 when closed, or program text. The
operators are the functions of `ff_wrap.c`; the actions are the callers: a tool
starts (`fframset(ARAM,10)` and nothing else), `aoutload()` closes all, shrinks the
table to 2, reads the program over the rest, and closes all when it returns;
`exit()` enters `main()`, which mounts anew and closes all; the reset button clears
the globals. A close by a running command, and by the `fcloseall()`s of `aoutload()`
and `cc()`, may meet a disk error. `Garbage` marks FILs a program was loaded over;
`garbage` records that `f_close()` was called on one, after which the CPU may take an
exception.

### FatVolume
`vol` is the disk and the window on it (`win`, `winsect`, `wflag`); `fil` holds the
FILs with their buffers. A call (`FOpen`, `FWrite`, ... ) is one step made of the
functions of `ff.c` under their names, and leaves its sector writes in a log in the
order of the code; `Cut` stops a call after any prefix of them, `PowerCut` falls
between two calls. `exit()` in a call is the same: `main()` mounts the volume anew
and the window and the FILs are forgotten. `content` is what a file should hold,
`promised` what a cut must not take. A sector holds three FAT entries, one entry of
the directory or two bytes; names are atoms, the root directory is the only one.
`careless` marks the two places where the code itself leaves a gap: `f_truncate()`
(line 3490) and the removal of a name whose chain another one still has in
`f_rename()` (line 3748).

### UmmMalloc
The words of `umm_heap` (next, previous, next free, previous free; the mark in the
first) and callers that fill what they get. `umm_malloc`, `umm_free`, `umm_realloc`
with `split_block`, `disconnect_from_free_list`, `assimilate_up` and
`assimilate_down` are the functions of that name.

### Toolchain
`ReadLine` adds a line of a menu to the source and runs `pass1` on it: the symbol
table, the segment files as cells, the relocation file, and the instruction that
waits in the buffer for a branch to go behind. `EndOfSource` is `middle`, `pass2`
and `makereloc`; `Pass1Arg`, `LdMiddle`, `Pass2Arg` and `FinishOut` are the linker,
argument by argument, and `CompilerDriverEnds` is `cc()` removing the objects. At that
step both are run on one abstract machine (`CodeMeansSource`): `RunSource` the
lines with the names of the unit, in the order written, without delay slots, and
`RunImage` the cells of the image with their addresses, with delay slots.
Each must store, branch and arrive with the same values. A half word of an
address holds `Half` = 64 values, so that carries from %lo into %hi happen.

### Compiler
`ReadTokens` adds to a source one piece of its form; `Compile` is `CompileFunction`,
the parser and code generator; `RunCode` runs the instructions from every memory;
`Leave` gives the memory back. The properties are asked of the steps that leave the
state they are about. `CompileFunction` reaches the state machine as the constant
`Compiled`, because the coverage report of TLC unfolds every operator that an action
calls, at each call, and would not fit in memory; for the same reason the larger
operators of `FatVolume` and `Assembler` hand an intermediate result to a small operator
instead of naming it in a LET and using it often.
The reference (`Behaviour`) reads the same tokens by where their weakest operator,
their matching bracket or their declaration is, so that it shares neither the operator
stack nor the single pass with the code; it also says where C leaves the result open
(an order of evaluation that matters, an object without a value, division by 0, a
shift that is too wide), where nothing is asked.
The state of the parser is threaded through operators of the names in `smlrc.c`; the
syntax stack is the sequence of type parts, the identifier table is the name itself.
A function that is called returns a value made of its arguments, spoils every
register that the convention lets it and the home of its arguments, and keeps the
rest.

## 3. Runs

| run | what it asks and shows |
|---|---|
| `keycode_ring` | every interleaving of the interrupt with `ps2readkey()`: no slot is reused, keys are dropped only when full, FIFO order (refinement), stored keys are returned |
| `ps2_command` | with the code's own timeouts and an answering keyboard, keys pressed at any time arrive, LEDs follow the locks |
| `ps2_faults` | with faults so that every timeout can expire, each command ends, the driver listens again and an ACK is the answer to the last byte; a key with a broken frame is requested again and arrives if nothing else goes wrong |
| `ps2_receive` | two bytes with a turned bit or a missed edge anywhere, LED commands, a command of the program at any time: what is accepted was sent, each byte once and in order; with no missed edge everything arrives; a pause realigns the count |
| `flash_disk` | two writes anywhere, a power cut and a failing operation at any step: the volume refines `BlockDevice`, a cut costs one page, a failure stays in the pages of the request, every write returns |
| `sd_card` | four kinds of card, lost commands, refused blocks, removal and replacement: RES_OK means done, no other sector changes, CTRL_SYNC waits; with a card that stays and hears every command, every call returns |
| `file_table` | with exits, disk errors and resets: open files keep their FIL, a program finds one; while every command returns and every close succeeds, no file is open at the prompt and what was written was closed |
| `fat_volume` | any five calls with a cut after any sector write: no cluster in two files, closed files survive, reads give what was written, and without a cut no cluster is lost |
| `umm_malloc` | every sequence of calls on seven blocks: data stay, the two lists agree and neighbours are joined, NULL means there is no gap |
| `toolchain` | every source of four lines over six menus, linked with objects and archives: code and data of the image mean the source, commons are apart, archives are closed |
| `compiler` | some 13 000 functions: 17 forms of expressions, 9 of statements and 6 of declarations and scopes, each run from two memories: calls, memory and result are those of the source; what is refused is no C |
| `compiler_return` (violation) | a `return` as the body of a loop that ends the function does not leave it |

### Bounds
- Ring: 4 slots and 2 keys give every relative position of the pointers, empty, full
  and the wrap; the code's 16 slots add none. The proofs are for every size.
- Keyboard: two lock keys, so that one SETLED can be in flight when the other is
  pressed. `ps2_command` uses the code's constants (in T5 periods); the runs with
  faults use small ones in the same order (ACK before BAT, a frame longer than
  PRESEND), as every period there multiplies the interleavings. `MaxSlow = 4`
  exceeds the small command timeout, so that it can expire.
- Receiver: frames follow each other after 3 or 13 periods (`Gaps`: before and after
  the timeout of a frame, which is 12 here and longer than a frame of at most 11
  periods, as the code's 20 is); keyboards leave several periods between frames, and
  with fewer than 3 a byte can start before the request to send the last one again
  does, so that the keyboard's answer to RESEND is the newer byte. One turned bit in a
  frame or one missed edge, not both: parity finds one wrong bit, and a missed edge
  with a turned bit can pass for a byte. Eight samples of falling edges are the 16 of
  both edges.
- Flash: 2 pages with requests of up to 3 sectors reach odd and even starts, single
  and double steps of the recursion, a neighbour to lose and a page outside the
  request. Every row of the image is different. The proofs are for every size.
- SD: 2 sectors and requests of 1 or 2 blocks reach single and multiple transfers,
  a failure at the first and the last block, and a sector beside the request. One
  fault of each kind, in any order.
- File table: a table of 4 for tools and of 2 for programs instead of 10 and 2;
  what matters is that the larger table reaches over program text. 4 commands are
  enough for leak, load, tool, and one more.

- FAT volume: six FAT entries in two sectors, two entries of the directory in two
  sectors, files of up to 5 bytes in clusters of 2: chains cross the sector of the
  FAT, the disk and the directory fill up, a write is shorter and longer than a
  sector. Two FILs, five calls and one cut reach open, write, sync, cut, and one call
  that may take what was freed. The two images start with one chain inside a sector,
  and with a full directory.
- Heap: seven blocks of four words; sizes of 0, 4, 12 and 13 bytes are none, one block to
  its last byte, and two blocks; three pointers leave holes of every shape between
  them. The view leaves out words that no one reads, so that the state space is finite
  in what matters.
- Toolchain: each menu is one topic (delay slots, addresses and relocation, sections,
  macros, modes, bindings), and four lines of it in any order with repetition give a
  branch with something before, in and behind its slot. Two addresses of the image
  differ in their low half. The tables (20 symbols, 4 numeric labels, 40 and 10 in the
  linker) are smaller than the code's, and are overrun in none of the checked sources
  except where a menu is about it.
- Compiler: words of 8 bits and characters of 4, so that every overflow, sign and
  truncation is near; one temporary register instead of eight, so that the register
  stack spills in an expression of three operands; 8 entries for the third
  expressions of `for`, at most 3 deep. The forms bound the sources: up to about ten
  choices of one token or a short text each, of which every combination is compiled.
  `MaxSteps` bounds a run of the code, `MaxRounds` a loop of the reference; a source
  that reaches the second is not asked about.

Counters such as `MaxErrors`, `MaxWrites`, `MaxCommands` only bound the run; each is
named in the module. `CHECK_DEADLOCK FALSE` stands where the session ends
(`FlashDisk`, `FatVolume`, `Toolchain`), the driver can wait for ever (`SdCard`) or
the interrupt hangs (`Ps2Receive`).

### Fairness
`Ps2Command`: Timer5 keeps ticking, the program runs between interrupts and the
keyboard clocks at its own pace (weak fairness on their union, with a tick's
`Lag` bounded by `MaxSlow`: a keyboard that is quiet for longer counts as silent).
`KeycodeRing`: the program goes on reading. `FlashDisk`, `SdCard`: one sequence of
calls that nothing suspends for ever, so weak fairness on its next step; in `SdCard`
also on the card finishing what it is busy with, which SD cards guarantee, but not
on a card being put in. No fairness on faults, removal or users.

## 4. Proofs

TLAPS proves, for every value of the constants under the named assumptions:

- `KeycodeRingProofs` (from `SizeAssumption`, `KeycodesAssumption`): the inductive
  invariant is `TypeOK /\ SlotNotReused`; the second part, the slots between the
  pointers hold keys and the reader's slot is not the writer's, is what the wrap and
  the full test have to preserve. From it: keys are dropped only when the ring is
  full, and the ring implements `BoundedFifo`.
- `FlashDiskProofs` (from `FlashAssumption`): `Inv` says where `sector_write()` is in
  its request (`first <= s`, `s + n = first + count`, how many sectors a page takes
  and why); without it nothing bounds the recursion. From it: `TypeOK`, and that no
  page outside the request changes, with any failures. `Progress` adds what the
  flash holds while no operation has failed: new content in front of the page in
  work, old content behind it, the page buffer as it is to be, the rows programmed
  so far. From both: `OnePageAtRisk`, and the refinement of `BlockDevice`, with
  any number of cuts and failures.
- `FileTableProofs` (from `SlotsAssumption`): `Inv` types the globals and says that
  nothing is open at the prompt and that the mount counts exits; `HandlesValid` and
  `ClosedAtPrompt` are inductive with it. `ProgramFindsSlot` follows from `Inv` because
  `fcloseall()` frees the first FIL in use even when it stops there. `WrittenIsKept`
  needs `Clean`: a FIL that `fcloseall()` meets was opened under the present mount, so
  `f_close()` does not refuse it. `MinOfNaturals`, the first FIL of a set, comes from the
  library's well-foundedness of `<`.
- `SdCardProofs` (from `CardAssumption`): with any number of faults, removals and changes
  of the card, RES_OK of a write means that each block is stored in its sector
  (`WriteOk`), after CTRL_SYNC a card that is there has no write pending
  (`SyncMeansWritten`), RES_OK of a read means the caller has the sectors asked for
  (`ReadOk`), and no other sector is changed (`OnlyAskedSectors`). None is inductive: `Inv` ties the driver's place in a
  call to the card's (`InStep`, `Many`: which transfer is open and at which sector), says
  how many sectors are done (`Extent`, `Copied`) and when the driver knows the card it
  talks to (`CardKnown`).
- `Ps2CommandProofs` (from the assumption on its constants): for any faults, `NoEcho` and
  `IdleListens`. The invariant gives, for each phase, the DMA, the clock interrupt and
  the two lines (`Line`); that a byte to send exists while one is being sent (`Held`);
  that a keyboard that is asked to take a byte is not inside a frame of its own
  (`NoFrame`); and what each step of `ps2command()` in the program has done when an
  interrupt may cut in (`Progress`). The handlers are proved one statement at a time.
- `Ps2AnswerProofs` (on top of that, and from `MaxSilent = 0`): `AckMeansTaken`, with
  frames broken, lost and later than any timeout. `AInv` says that nothing is heard from
  the time a byte is given to the driver until the keyboard has clocked it out (`Early`),
  that the first frame to end after that is the answer (`Answered`), and that
  `ps2command()` in the program empties the DMA before it sets the phase (`Calling`). When
  a byte is sent again the DMA is on in SENDSTART, and what keeps a frame from ending there
  is `FrameAssumption`: PS2TIME_PRESEND is shorter than a frame. With a keyboard that
  clocks a byte in and then neither takes nor answers it (`MaxSilent > 0`), TLC finds the
  property violated: an ACK left over from an earlier command is taken for the answer.
- `Ps2ReceiveProofs` (from `LineAssumption`: a ring of more than two samples and a timeout
  of at least ten periods; the code has 8 and 20), for any set of bytes and pauses and any
  number of bytes, turned bits and commands: `Realigned`, `NoGhost` when at most one edge
  is missed, and `Delivered` when all pauses are longer than PS2TIME_PRESEND. What makes
  the samples in the ring harmless is `View`, the receiver as it will be when it has seen
  them: an edge adds one sample to it, T5Handler and each of the program's five steps of a
  drain leave it alone, and `ControlInv` (which part of the driver may be where, with the
  DMA on or off) bounds what waits by the edges since the last T5Handler. On it `QuietInv`
  compares the age of a count with the pause, which gives `Realigned`. `StepInv` says that
  the receiver is in step with the keyboard, its register holding the bits sent so far,
  all right or one turned, or one bit behind since the missed edge; then the frame ends in
  front of a stop bit, and the next start bit is an error. One turned bit always breaks the
  parity (`OneTurned`, by cardinalities). `GhostInv` and `DeliveredInv` say what is
  accepted: the bytes sent, without the last while that is `Outstanding` (under way, to
  come again, wrong, or being asked for). With a pause of one period TLC finds `Delivered`
  violated: the keyboard starts a byte while the driver waits to ask for the one before,
  and answers the request with the new one. So the theorem has that hypothesis.
- `UmmMallocProofs` (from `HeapAssumption`), for a heap of any size: `ContentsKept`,
  `ListsAgree` and `NullMeansFull`. The words of the heap are read as a set of pieces,
  the piece after each, and the pieces that are free (`Heap`); each of `umm_malloc()`'s
  helpers (split, assimilate up and down, disconnect) is a lemma that takes one such
  reading to another and names the words it leaves alone. The invariant adds that no two
  free pieces are neighbours and block 0 is a piece of its own (`Apart`), that the pieces
  in use are the pointers callers hold, each of the size asked for (`Owned`), and, after a
  NULL, that every free piece is too small (`NoRoom`). `Apart` is what makes a NULL say
  something of the heap and not of one walk: free blocks side by side are one piece. What
  the walks of both lists find, which the model defines by recursive functions, follows
  from the list given as a function (`List`) and from counting the pieces before one
  (`Rank`).

Only model-checked:
- liveness: fairness and ENABLED are out of this prover's reach;
- `Assembler`, `Linker` and `Toolchain`, which fold over lines and objects: what a fold
  computes takes induction over data;
- `FatVolume` and the modules of the compiler: recursive operators (chains, the recursive
  descent), which the prover cannot read.

`TypeOK` of `FatVolume` only states the types and no run lists it; the modules that are
proved about prove theirs.

## 5. Where code and comments disagree

`compiler_return`: the compiler leaves out the jump to the epilogue when `}` follows a
`return`, because "the epilogue immediately follows" (`smlrc.c:8422`). After
`while ( 1 ) return i ; }` a jump back to the condition follows.

Defects met while modelling. The models contain those marked M (with a guard or a
premise that names them); the others lie outside what is modelled.

PS/2, disks and files:
- M the resend request of `T5Handler` clears `ps2sendError`, so that `ps2init()` can
  return 0 for a keyboard that never reported its self test (`ps2keyboard.c:774`, 785);
- M Timer5 inside the drain of the DMA ring in `ps2command()`: the program steps past
  DCH3DPTR and reads samples again (`ps2keyboard.c:443`); `raced`;
- M a keyboard that answers RESEND for ever is sent the byte for ever
  (`ps2keyboard.c:531` never sets `PS2ERROR_TOOMANYRESENDREQ`); `MaxResend`;
- M a failing erase or row is reported to FatFs as RES_OK (`flash.c:108`,
  `diskio.h:23`); the refinement of `BlockDevice` therefore allows for it;
- M the timers of `sd.c` are never decremented (`sd.c:68`, 228, 391, 407): a wait for
  a card that was taken out has no end; `CallReturnsIfCardStays`;
- M `smlrcmain()`, `asmain()` and `ldmain()` call `fframset()` without
  `fcloseall()` (`ff_wrap.c:83`, `as.c:2871`): after `exit()` a FIL that lies under
  program text can be closed; `garbage`;
- M `fcloseall()` stops at the first FIL whose close fails (`ff_wrap.c:176`), so that
  with two files open at `exit()` one stays marked; premise of `ClosedAtPrompt`;
- M `f_truncate()` frees the tail of a chain while the entry on the disk still has the
  old size (`ff.c:3490`), and `f_rename()` removes the old entry after it wrote the new
  one (`ff.c:3748`): a cut in between leaves an entry over clusters that a later call
  takes; `careless`, after which `NoCrossLinks` and `Durable` ask nothing;
- `umm_realloc()` frees the old block even when it cannot get a new one
  (`umm_malloc.c:599`); nobody calls it. M, as the model has it so.

Assembler and linker:
- M `la` gives the buffer of reorder mode a wrong modified register, and
  `seb`/`seh` none, so that a branch on their result may come before them; `.` in a
  branch counts the instruction in the buffer (`as.c:1420`, 1845); `BufferMisses`;
- M a `jal` or `jalr` does not name `$ra` as it is written, so that an instruction that
  uses `$ra` right before it goes into its slot and meets the return address there
  (`as.c:1845`); `BufferMisses`;
- M `%hi` of a later name with an addend gets the addend twice (`as.c:2683` against
  the comment at `as.c:1439`); `ForwardHigh`;
- M duplicate labels are not diagnosed, a `.local` name without a definition is 0, a
  repeated `.comm` of a local name makes it global; `NamesOnce`;
- `%lo` with an offset of 0x8000 or more is refused as out of range; code in `.bss` is
  written through a null file; numeric labels in data lack the base of the segment;
- `ld` never moves `rel->offset` of RHIGH16S records and `ld -r` pads text without
  relocation records; `-x` and `-S` count only before the files; `-X` does not agree
  with what `makesymtab` writes; the end of an archive is read from an uninitialised
  buffer; a `.comm` in a rejected member still enlarges the symbol;
- modes of `as` and an argument of `ld` outlive the command, as their statics are not
  reset; `cc` has room for 13 arguments and passes more with 9 inputs, and with
  `-c -o` the compiler writes one name and the assembler reads another (`cc.c:22`).

Compiler:
- M the jump of `return` (above); `compiler` has no form with a loop at the end whose
  body returns;
- M a `?:` inside the middle operand of another, followed by a comma, is refused with
  an internal error (`smlrc.c:2807`);
- M after the initial value of a declarator any token passes as a comma
  (`int x = 3) y;`); a name declared twice in a scope is not diagnosed; `int E[E]`
  with an outer enum constant `E` is refused. The forms have none of these.

## 6. Not modelled, and why

The decoder of scan codes (prefixes, shift and lock keys), the waiting for keys and
frames and the video interrupts are next in the plan. Pixel drawing and formatted
output have no state worth checking. Start-up code, linker scripts and `makefat` are
outside the running system. SD: only CTRL_SYNC of the ioctls; the SPI bytes are below
the abstraction. FatFs: subdirectories, long names, formatting, FAT32. Compiler: the
tokenizer and preprocessor (text), floats (calls of `fp.c`, which is not built for
this processor), structs, typedef, enum and strings, objects at file scope, `asm`; local
arrays of characters, as a cell of the model is a word or a character by its address;
addresses of locals that outlive their block. `cgx86.c` is the back end for another
processor. Assembler and linker: the text of lines, the bits of instructions, `-r`, `-x`,
`-s` and the map.

## 7. Plan

1. `ScanDecoder` on the bytes of `Ps2Receive` (prefixes, shift and lock keys, full
   buffers); abstract: the set of keys held. Properties: shift state equals keys held
   after a quiet time; a key is never stuck; a prefix at the limit of the buffer does
   not block the decoder; the Pause key toggles no lock.
2. `Video` and `InputWait`: the interrupt chain, `drawcount`, `wait60thsec()`.
   Properties: frames keep coming, waits end, stop and start at any time.
3. `VolumeUse`: the file table over `FatVolume`, with exits between writes.
4. Compiler: structs, and the tokenizer with its macros.
5. Proofs: that FatFs loses no cluster, with the chains of `FatVolume` as functions on
   their length.
