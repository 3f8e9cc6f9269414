# HandwritingOS: a TLA+ model of the kernel

`src/` is a collection of course notes. The only program in it is
`HandwritingOS/source/`, a 32-bit x86 teaching kernel of about 6,500 lines of C
and assembly: a loader, a console, interrupts, a page allocator, and kernel
threads that a timer preempts. Everything else is markdown, pictures and PDFs.
Paths below are relative to `src/HandwritingOS/source/`.

The kernel has no locks. On its one processor everything rests on the interrupt
flag (EFLAGS.IF), on where the timer interrupt may strike, and on which stack is
in use. That is what the project is about.

## 1. Inventory

| Component | Source | State | Operations |
|---|---|---|---|
| Threads, scheduler | `thread/thread.c`, `thread/thread.h`, `thread/switch.S` | PCB (status, priority, ticks, elapsed_ticks), kernel stacks, `ready_thread_queue`, `all_thread_queue`, `thread_tag` | `thread_create`, `kernel_thread`, `schedule`, `switch_to`, `thread_init` |
| Timer | `device/timer.c` | `ticks`, counter 0 of the 8253 | `intr_timer_handler`, `timer_init` |
| Interrupts | `kernel/interrupt.c`, `kernel/kernel_interrupt.S` | IDT, 8259A, EFLAGS.IF | entry stubs, `intr_enable`, `intr_disable`, `intr_set_status`, `default_intr_handler` |
| Linked lists | `lib/kernel/list.c` | `prev`/`next` of every element | `list_append`, `list_remove`, `list_pop_left`, `list_has_elem`, ... |
| Bitmap | `lib/kernel/bitmap.c` | bytes and a length | `bitmap_init`, `bitmap_scan`, `bitmap_set`, `bitmap_scan_test` |
| Page allocator | `kernel/memory.c` | two frame pools, one virtual pool, page tables | `mem_pool_init`, `malloc_page`, `get_kernel_pages`, `palloc`, `mapping_vaddr_to_pmem` |
| Console | `lib/kernel/print.S` | text memory, the cursor registers of the CRT controller | `put_char`, `put_str`, `put_int`, `set_cursor`; `put_int_buffer` |
| Assertions | `kernel/debug.c`, `kernel/debug.h` | none, but it ends the run | `ASSERT`, `panic_spin` |
| Kernel entry | `kernel/main.c`, `kernel/init.c` | none | `main`, `init_all`, the test functions |
| Strings | `lib/string.c` | none | `memset`, `memcpy`, `strcmp`, ... |
| Boot | `boot/mbr.S`, `boot/loader_load_kernel.S` | GDT, page directory, the kernel image | disk read, memory detection, paging, `kernel_init` |
| Rest | `lib/kernel/io.h`, the other `boot/*.S`, `_test/`, `makefile`, `gen.sh` | none | port instructions, study versions of the loader, exercises, the build |

### Interactions

* The timer raises IR0; the processor accepts it between two instructions when
  IF is set, on the stack of whatever thread runs. The stub sends the EOI and
  calls `intr_timer_handler`, which calls `schedule`, which calls the list
  operations and `switch_to`. The handler of the old thread ends when that
  thread gets the processor back.
* `thread_create` runs in thread context and changes the same two lists, from
  `main` with IF clear and from any later caller with IF set. The list
  operations that write save IF, clear it and restore it; `list_has_elem` and
  the first read of `list_pop_left` do not.
* `thread_create` gets the page of its PCB from `get_kernel_pages`; the
  allocator scans and sets bitmaps without clearing IF.
* Threads and the default interrupt handler print; `put_char` goes through the
  index and data ports of the CRT controller without clearing IF.
* `ASSERT` ends in `panic_spin`, and an exception in `default_intr_handler`.
  Both print with IF clear, through the ports a thread may have been using at
  that very moment, and never return.
* `timer_init` programs the 8253, whose output is the IR0 of the 8259A.

### What is hard, and what makes each component correct

* **Scheduler.** At every instruction a created thread is running, queued once,
  being linked by its creator, or held in `thread_tag`; every suspended thread
  is at a point `switch_to` can return into; turns go round, with no thread
  starved.
* **Interrupts.** IF is set only in thread code outside critical sections; the
  EOI is out before the processor changes hands; handlers do not nest.
* **Lists.** Whatever the scheduler does between two instructions of
  `thread_create`, the links stay consistent and an unlocked search neither
  leaves the list nor misses an element nor runs forever.
* **Bitmap.** First fit, inside the bitmap.
* **Strings.** A copy puts what it should where it should and touches nothing
  else, also when source and destination overlap; a search finds the first or
  the last occurrence.
* **Pages.** No page and no frame has two owners, and none is lost.
* **Console.** The cursor stays on the screen, the text behaves as a scrolling
  screen, and a number is printed in full.
* **Giving up.** Whatever was going on, the last message can be read.
* **Clock.** It ticks at the rate `timer_init` asked for, and never stops.

`PROJECT.json` lists each hazard at the line where it bites, with the properties
that would catch it going wrong.

## 2. Modules

| Module | Models | Role |
|---|---|---|
| `RoundRobin` | what the scheduler promises | abstract specification of `KernelThreads` |
| `KernelThreads` | thread creation, timer interrupt, scheduler, critical sections | core of the project |
| `KernelThreadsInv` | | the inductive invariant |
| `KernelThreadsProofs` | | theorems and proofs |
| `SwitchContext` | the words on the kernel stacks: gate, stub, C frames, `switch_to`, `init_thread_stack` | registers of `KernelThreads` |
| `SwitchContextInv`, `SwitchContextProofs` | | the inductive invariant, theorems and proofs |
| `Queues` | the two queues as sequences | abstract specification of `ThreadLists` |
| `ThreadLists` | `list.c` at the level of links, under preemption | |
| `ThreadListsInv`, `ThreadListsProofs` | | the inductive invariant, theorems and proofs |
| `Bitmap` | `bitmap.c` as operators | |
| `Strings` | `string.c` as operators on a memory of bytes | |
| `Library` | callers of both, as `bitmap_test` and `string_test` of `main.c` are, that reach every content | |
| `LibraryProofs` | | theorems and proofs |
| `Memory` | the page allocator, over `Bitmap` | |
| `MemoryInv`, `MemoryProofs` | | the inductive invariant, theorems and proofs, with those about `Bitmap` |
| `PageTables` | `setup_page`, the walk of the processor, `mapping_vaddr_to_pmem` | what `Memory` leaves out |
| `PageTablesInv`, `PageTablesProofs` | | the inductive invariant, theorems and proofs |
| `Screen` | a scrolling screen | abstract specification of `Console` |
| `Console` | `put_char`, `put_int` and `set_cursor` with their port accesses | |
| `Exceptions` | `default_intr_handler` and `panic_spin` as rows of console calls, over `Console` | |
| `ConsoleInv`, `ConsoleProofs` | | the inductive invariant of both, theorems and proofs |
| `MemoryDetection` | 0xe820, 0xe801 and 0x88 | part of `Boot` |
| `DiskRead` | `rd_disk_m_16`, `rd_disk_m_32` and the disk controller | part of `Boot` |
| `KernelImage` | `kernel_init`, `mem_cpy` | part of `Boot` |
| `InterruptTable` | `idt_init`, `pic_init`, `frequency_set`, `register_handler`, the 8259A and the 8253, the way of a request to its handler | part of `Boot` |
| `MemoryPools` | `mem_pool_init` | part of `Boot` |
| `Boot` | boot sector, loader and `init_all`, composed of the five modules above | |
| `BootInv`, `BootProofs` | | inductive invariants; theorems and proofs, with those about `MemoryPools` |
| `MCTests` | `string_test`, `bitmap_test`, `memory_test` of `main.c`: `Library`, `Memory` and `PageTables`, one at a time | what the run `tests` checks |
| `MCKernelThreads`, `MCThreadLists`, `MCBoot` | | values of the constants for TLC |

### KernelThreads and the code

`cur` is `running_thread()`: the page ESP points into. A kernel stack is a row
of activations, `frame[t][0]` the thread's own code and `frame[t][k]` the k-th
handler above it; `depth[t]` says how many handlers there are. An activation
records the operation it is in and, for `list_append` and `list_remove`, how far
their critical section has got and the status it saved. `intr_on` is EFLAGS.IF,
`request` and `in_service` are the two bits of the 8259A for IR0. `status`,
`slice` and `elapsed` are the PCB's fields, `newborn[c]` is the local `pthread`
of the `thread_create` that `c` is executing.

Each action is a stretch of code between two points at which an interrupt could
be told from one a little earlier: `KernelThread`, `ThreadCreate`, `CreatePage`,
`CreateCheckReady`, `Disable`, `CreateAppendReady`, `Restore`, ..., `Interrupt`
(the gate), `SendEoi`, `TimerHandler`, `InterruptReturn`, `ScheduleEntry`, ...,
`ScheduleSwitch`. A step of the handler is interruptible in the model whenever
`intr_on` says so: that it never happens is a property
(`InterruptsOnlyInThreadCode`), not a rule of the model.

Abstractions. A queue is a sequence (`ThreadLists` has the pointers) and
`list_has_elem` is one step here. The registers that `init_thread_stack` lays
out and `switch_to` restores are the program counter alone, the others being the
subject of `SwitchContext`: a fresh thread is at `"start"`, a switched-out one
at `"iret"`. Of `get_kernel_pages` two steps are left: `ThreadCreate` is the
scan, which finds a page no PCB has, and `CreatePage` marks and maps it, with
the ASSERT of `memory.c:399` that it was not mapped before. Between the two a
creator with IF set can be preempted, and another find the same page.
`OneAtATime` says whether that happens: with `TRUE` a call begins when no other
is under way, with `FALSE` the ASSERT fails. What the allocator does in between
is in `Memory`. The test of `stack_magic` (`timer.c:202`) always holds, because
stacks have no overflow here; depth is bounded by `MaxDepth`, and
`SuspendedResumable` shows that the bound (2) is never reached. Thread functions
never return, as in `main.c`. `priority` is cut to eight bits (`thread.c:93`),
and the two tick counters wrap at `TickModulus`.

### SwitchContext

The machine is `cpu` (seven registers, ESP as page and offset, IF, program
counter) and `mem`, the words of every page; the word of a page with index 0 is
`self_kstack`. A word is a tuple tagged with what it is, so that a register that
gets another one's value back is seen. A step is the code from one call or
return to the next: the gate pushes EFLAGS, CS and EIP, the stub the error code,
the segments, the general registers and the vector, the compiler's prologues the
registers a C function saves, `switch_to` its four. `Reserved` is the gap that
`init_thread_stack` leaves. The code subtracts `sizeof` from a pointer to words
(`thread.c:112-124`), so the gap counts words although it is meant in bytes; it
is larger than needed, and `StacksApart` says that the page still suffices.
Between interrupts a thread function changes its registers and its part of the
stack at will (`own` is what it last had).

### ThreadLists

The two lists have their head and tail elements and one `prev` and `next` per
thread and list. `thread_create` takes one memory access a step: the three
steps of `list_has_elem`, `intr_disable`, the three assignments of
`list_insert_before`, `intr_set_status`. `Schedule` is one step, because
`KernelThreads` shows that nothing can interrupt it. Which thread runs next is
what the links say. `unvisited` is an auxiliary variable: what a search has
still to see.

### Bitmap, Memory and PageTables

A bitmap is the set of indices whose bits are 1, plus a length; the set may
reach behind the length, for the bits of the memory that follows. `bitmap_scan`
is written without recursion: `Count` gives the value `cnt` has at a bit.
`Memory` has one step per access to a shared structure: `VaddrScan`,
`VaddrSet`, and for each page `PallocScan`, `PallocSet`, `Mapping`. With
`Preemptible = FALSE` calls do not interleave, which is how `main.c` uses the
allocator before it enables interrupts. The bits behind the frame bitmap are the
user pool's first ones, clear; those behind the page bitmap are arbitrary.
`PF_USER` is left out: the code for it is empty (`memory.c:227-229`), and so are
the contents of a page, which `get_kernel_pages` clears (`memory.c:499`).

`Mapping` of `Memory` only records the pair of page and frame. `PageTables` has
the entries: memory is the frames that may hold a table, addresses count words,
and the pointers of `pde_pointer` and `pte_pointer` are translated by the same
walk as any address, through the entry of the directory that is the directory
itself. The branch of `mapping_vaddr_to_pmem` for a missing table is there, with
the frame it really enters. Page and table have `Entries` words, the directory
entry of the kernel is `KernelEntry`.

### Console

`index` is the register the CRT controller's data port stands for, `reg` the two
bytes of the cursor. Each `out` and `in` is a step; the drawing in between is
one. BX is a word of `Base * Base` values, the comparison with the end of the
screen is signed, and an access behind the segment GS selects is a fault. A
backspace at position 0 is excluded by `PutChar`: no caller prints one.
Attributes are left out, being always 0x07. A frame of `call` has the registers
that matter and, in `back`, where `put_char` returns to: `put_int`'s loop, or
whoever called. `put_int` stores one digit a step in `put_int_buffer`, which all
threads share, skips the zeros and prints the rest through `put_char`. A digit
is the number it stands for. `put_str` is no action of its own: its pointer in
EBX is the caller's place in a row of `put_char`.

### Exceptions

`program` is the row of console calls that `default_intr_handler` or
`panic_spin` has still to make. An exception may strike at any instruction of a
thread, so between any two accesses to the ports; what the thread had done to
`index`, `reg`, `text` and `put_int_buffer` stays as it is. `panic_spin` is
called between two calls of the console, where the code has its `ASSERT`s. A
text is one character and fits its line, as the texts of the code do (the
longest name of an exception has 56 characters, behind an indent of 8).
`NextCall` makes the next call, and nobody else runs any more.

### Strings and Library

The functions of `string.c` take a memory, a function from addresses to bytes,
and return a memory or a value. A loop is a recursive function: of the number of
rounds, with the memory after them as its value (`memset`, `memcpy`), or of the
place its pointer has reached, with what it returns from there (`strchr`,
`memcmp`) or has gathered up to there (`strrchr`, `strchrs`). `strcpy` makes the
rounds of `memcpy` up to the first that copies a zero. `char` is signed and
`uint8_t` is not, both as in the code: `Char` and `Uint8`. `Library` calls every
function with every pointer and size on every content. What a caller owes is in
`MayCopy`, `MayStrcpy` and `MayStrcat`: the strings end, the destination has
room, and no byte is overwritten before it is read, without which the loops run
out of memory.

### Boot and its parts

`stage` is the part of the boot code that runs: `mbr`, `mbr_reads`, `detect`,
`loader_reads`, `kernel_init`, the calls of `init_all`, `thread_test`, `idle`.
The parts share the memory, `total_mem_bytes` and IF.

* `MemoryDetection` counts in 64 KB, so that a register of 32 bits has 65536
  values and the sign is bit 15 (`jge`). Each BIOS call may fail, 0xe820 after
  some ranges as well, and 0xe801 may answer on a machine of any size.
  `error_halt` is a state in which nothing happens any more. Usable memory is
  type 1 and no other, as the comment on the types has it
  (`loader_load_kernel.S:71-75`). The auxiliary variable `answered` is the call
  that has given the amount, for what the three promise differs: 0x88 says 64 MB
  at most, and 0xe801 is right up to 16 MB (`Exact`).
* `DiskRead` has driver and controller as two processes. 256 is scaled to
  `SectorWords`, both as words of a sector and as values of the sector count
  register; 16-bit registers have the square of it, and so BX, which counts
  bytes, wraps at half of that in words (`Reach`). A word of the disk is its
  number. With `SectorTime` the controller needs time between two sectors, which
  the driver does not wait for; without, it behaves as the emulator the
  repository is run on.
* `KernelImage` reads the headers of the kernel from `headers` and copies words
  of the memory the kernel was read to. The kernels are the ones `ld` produces:
  ascending segments, the end below the image.
* `InterruptTable` has the two 8259A with their initialization words in order,
  masks and requests, the number of gates `lidt` states, and the function each
  stub calls. A request without a gate raises #GP; the default handler never
  returns unless the vector is 0x27 or 0x2f. `outb` gives a byte to the chip its
  port belongs to. The 8253 is a mode, a count and which byte comes next; IR0 is
  its output, which asks again and again in modes 2 and 3 only.
* `MemoryPools` counts pages, of which 4 GB are 20 bits; the number of free
  pages is cut to 16.

The layout of `MCBoot` is the code's, scaled: the loader below the image, the
first segment at the end of the loader's sectors, so that an extra word copied
or read destroys something.

## 3. What the runs check

| Run | Question | Answer |
|---|---|---|
| `threads` | `main` creates a thread before it enables interrupts; then both create threads, preempted everywhere, with calls of `get_kernel_pages` that do not overlap (`OneAtATime`) | no ASSERT fires (`NoPanic`), the queues are exact (`NoThreadLost`, `AllThreadsListed`), IF and stacks are as they must be, the hand-over comes after the EOI, `IInv` holds, turns follow `RoundRobin`; every thread keeps running (`NoStarvation`), every creation ends (`CreationCompletes`) |
| `switch_context` | three threads, two of them created, interrupted between any two of their own instructions | each gets its registers, IF, EIP, ESP and stack back (`ContextKept`, `CalleeSaved`), a stack never reaches the PCB below it nor another page (`StacksApart`), a new thread starts with its function and argument (`FirstRunArguments`) |
| `lists` | links and unlocked searches under preemption | `ListsIntact`, `SearchStaysInList`, `SearchVisitsAll`, `SearchEnds`, and `Queues` is implemented |
| `tests` | what `main.c` calls in its tests: `bitmap_scan` and the functions of `string.c` against reference definitions, the allocator up to exhaustion with one call at a time, kernel pages mapped in any order | first fit, except for the bit behind the end (`ScanIsFirstFit`); fills and copies leave the right memory, overlapping copies too (`CopiesRight`); lengths of strings, searches for and counts of ASCII characters, and whether two strings are equal or the first is greater (`SearchesRight`); no page or frame is shared (`PagesOwned`) or lost (`NothingLeaks`), and NULL is returned only when no row of free pages is long enough, an ASSERT fails only when every frame is taken (`FailsOnlyWhenFull`); the recursive pointers reach their entries (`PointersReach`), a page leads to its own frame and frames are no tables (`MappingMaps`), no present entry changes (`EntriesStay`) |
| `bitmap_bounds` | is the row inside the bitmap? | **violated** |
| `memory_preempted` | `PagesOwned` with preempted callers | **violated** |
| `memory_exhausted` | is failure -1 and NULL, as the comments promise (`FailureIsNull`)? | **violated** |
| `exceptions` | one writer of characters and numbers, until an `ASSERT` fails or an exception strikes | `CursorInRange`, numbers are complete and without leading zeros (`NumbersInHex`), `Screen` is implemented, and the last message stands on clean lines (`MessageShown`) |
| `console_two` | two writers, preempted | `CursorInRange` **violated** |
| `boot` | from the boot sector to the first ticks, on machines of 8 MB to 2047 MB, their ranges in every order or as many as `ARDS_buffer` holds, any BIOS call failing, two kernels | 0xe820 finds where the usable memory ends, 0xe801 does up to 16 MB, 0x88 says the lesser of that and 64 MB (`TotalIsMemory`), the kernel read from the disk and copied is where it was linked, word for word (`KernelInPlace`), nothing lies over the loader (`LoaderKept`), the pools are usable memory of the machine, unless 0xe801 has answered for more than 16 MB (`PoolsInMachine`), and laid out without overlap (`PoolLayout`), no interrupt ends in the default handler (`NeverHangs`), the boot ends (`BootEnds`), and then the clock ticks for ever with a count of 1193 (`TicksGoOn`) |
| `boot_e801` | is the amount never more than there is (`NeverTooMuch`)? | **violated** |
| `boot_spurious` | `NeverHangs` with requests that are gone when the processor asks for the vector | **violated** |

### Further configurations

Six configurations, not among the runs, check the inductive invariants that
the theorems of section 4 rest on, each with its module: `MemoryInv.cfg`,
`PageTablesInv.cfg`, `SwitchContextInv.cfg`, `ConsoleInv.cfg`,
`MCThreadLists_inductive.cfg` with `MCThreadLists`, and `BootInv.cfg` with
`MCBoot`, which also checks that the machines and kernels of the run `boot` are
those the theorems suppose. They hold, and are the first
thing to run when a proof breaks after a change of a model. (`IInv` of
`KernelThreads` is among the properties of `threads`.)

The configurations in the table are not among the runs either, and TLC finds
each of them violated. They show where the code differs from what one would
expect under circumstances that the passing runs leave out, and are worth
running after a change of the code in question: `tlc -config Exceptions_two.cfg
Exceptions`. Only `PageTables_newtable` and `Exceptions_two` have a file of
their own. The others differ in the constants named in the table from the file
named after the configuration (`MCBoot.cfg`, `PageTables_newtable.cfg` and so
on) and check the named property alone, those of `MCBoot` under `BootSpec` and
that of `MCKernelThreads` under `Spec`.

| Configuration | Shows |
|---|---|
| `PageTables_newtable` (`MappingMaps`) | with its table missing, a page is mapped to the frame of the new table (`memory.c:430`). The loader fills the entries 768 to 1022, so no kernel page has its table missing |
| `PageTables_newtable` with `Heap = {42, 43}`, `Leftover = {NONE, 0}` (`PteAbsent`) | the loader clears no table (`loader_load_kernel.S:456`), and a leftover in one fails the ASSERT of `memory.c:399` |
| `MCKernelThreads` with `OneAtATime = FALSE` (`NoPanic`) | two creators with interrupts on find one page for their PCBs, and the second one's ASSERT fails (`memory.c:399`) |
| `Library_bounds` with `MaxCount = 1` (`CommentsHold`) | `strcmp` returns 255 for the -1 that `string.c:128` promises, and bytes from 0x80 on are never found by the searches, whose `uint8_t` they are compared to as `char` |
| `Console_two` with `Visible = {0, 1}`, `Numbers = {0, 1, 2}` (`NumbersInHex`) | two threads share `put_int_buffer` (`print.S:366`): one prints the other's digits |
| `Exceptions_two` (`MessageShown`) | after two threads have raced in `put_char` the message of a failed `ASSERT` begins at a wrong cursor and is not on clean lines: `panic_spin` neither sets the cursor nor blanks anything |
| `MCBoot` with `Machines <- LargeMachines` (`TotalIsMemory`) | `jge` compares addresses with a sign: memory above 2 GB is not seen (`loader_load_kernel.S:147`) |
| `MCBoot` with `Machines <- AcpiMachines` (`TopIsUsable`; also `TotalIsMemory` and `PoolsInMachine`) | the type of a range is ignored (`:143`), on the ground that the highest one may be used: ACPI tables right behind memory, which `:71-75` calls reserved, go to the user pool |
| `MCBoot` with `Machines <- ManyRanges` (`TotalIsMemory`) | the 13th range lies over `ARDS_number` (`:134`) |
| `MCBoot` with `SectorTime = TRUE` (`SectorsInMemory`) | a controller that needs time between two sectors is not waited for (`:549`) |
| `MCBoot` with `Machines <- Machines512` (`AllMemoryInPools`) | more than 256 MB lose memory: the number of free pages is cut to 16 bits (`memory.c:87`) |

Why the search is safe deserves a word. `list_has_elem` holds a pointer while
its thread is preempted. The element it stands on may be unlinked, run, and be
appended again at the end. The search still visits everything, because the
searching thread is running again only once the rotation has come back to it,
and by then the queue has the same order as before, apart from new threads at
the end. It would not survive another scheduling policy.

### Findings

The runs marked *violated* are differences between the code and its comments,
each quoted in `PROJECT.json`:

1. `bitmap.c:87`: `bit_remain` is one too large, and `bitmap_scan` can return a
   row ending one bit behind the bitmap. In the allocator this does no harm
   (`PagesOwned`): both bitmaps have one length, so the frames run out first.
2. `memory.c:245` asks for the scan and set of `palloc` to be atomic; they are
   not. Two preempted callers share a frame.
3. `print.S:96` says the cursor is in 0..1999; a preemption between index and
   data port makes `put_char` read another value.
4. `interrupt.c:397` says that the spurious interrupts of IRQ 7 and IRQ 15 are
   let through and ignored. Their vectors 0x27 and 0x2f lie behind the IDT, so
   the processor raises #GP, and its handler never returns.
5. `bitmap.c:45` and `memory.c:492` promise -1 and NULL on exhaustion. The
   ASSERT of `bitmap.c:60` tests what the `if` behind it tests, and fires first.
6. `loader_load_kernel.S:164-165` says that BX of 0xe801 counts 64 KB; `:198`
   multiplies it by 1 MB. More than 16 MB are found 16 times over.

### Bounds, and why they are enough

* Threads: `main`, a thread it creates before it enables interrupts, and two
  more, created by these two. Two creators are needed to have two
  `thread_create` in flight, a third thread to have one created and switched to
  in between. Calls of `get_kernel_pages` do not overlap; what happens when they
  do is in `memory_preempted` and, for the threads, in a configuration above.
  That `main` runs alone with interrupts on is only covered by the theorems,
  which have no bound.
* Priorities: 0 (a turn of one tick), 1 (two ticks) and 256 (stored as 0).
* `TickModulus = 1`: nothing reads the tick counters, so TLC need not tell their
  values apart. `MaxDepth = 2` is one more than any stack reaches.
* `switch_context`: a thread's own code has two versions of its registers and at
  most one word on its stack; 40 words a page are exactly what the deepest path
  takes with a gap of 8, so that one word more would be seen.
* Lists: 4 threads, 2 creators; a search of up to three elements during which
  another thread appends.
* Library: two bytes of three bits and one behind, every content; rows of 1 to 7
  bits, one more than the bitmap has. Five addresses with bytes of four values
  (so two negative `char`s), every content: two strings of one character, or
  strings of up to four that overlap in any way.
* The parts of `tests` share no state, so a behaviour uses one of them.
* Memory: six pages, requests of up to four. Exhaustion, splitting of rows and
  the row at the end all occur.
* Page tables: 8 entries a table, three of the kernel's (5 to 7, the last one
  the directory itself), four frames for seven pages that share tables or not.
* Exceptions: 6 lines of 3 columns, which the five lines of `panic_spin` nearly
  fill, bytes of 8 values so that both cursor bytes are in use, two characters,
  numbers of two digits in base 2, among them 0 and one with a zero at the end.
  The writer makes up to `MaxCalls = 2` calls from every cursor position on a
  screen with and without text; the theorems have no such bound.
* `console_two`: 4 lines of 2 columns and one character; the race takes two
  calls.
* Boot: sectors of 4 words, a kernel of 3 sectors, address maps of four ranges
  in every order for one amount of memory and in one order for the others, and
  one of 12 ranges, which just fit into `ARDS_buffer`. Any of the three calls
  may fail on each. The largest machine stays below 2 GB and no range of ACPI
  lies behind the memory: beyond these bounds are the configurations above. Of
  the interrupt lines, timer, keyboard, the spurious one and a disk.

### Fairness

The 8253 interrupts 1000 times a second (`timer.c:227`) whatever the program
does: `WF(TimerTick)`. The processor executes the next instruction and accepts a
pending interrupt while IF is set: `WF(CpuStep)`, `WF(Interrupt)`. `main` gets
through its start-up code: `WF(Boot)`. A handler takes far less than a
millisecond, so a thread that gets the processor again and again executes its
own instructions too: `SF(cur = t /\ CreateRest)`. Nothing obliges a thread to
create threads. `FairSpec` of `ThreadLists` says the same at its grain. In
`Boot` the loader runs, the BIOS returns from its calls and the controller ends
a read it has begun: `WF(BootStep)`. A counter that counts runs out:
`WF(TimerRequest)`. Other devices' requests are not fair.

## 4. What is proved

Each of these theorems holds for every value of the constants that the
assumption in the second column allows: any number of threads, pages and rows,
any priorities, words and characters, and as many calls as one likes. The bounds
of section 3 play no part. A third entry says what else the theorem supposes.

| Theorem | Establishes | About |
|---|---|---|
| **`KernelThreadsProofs`** | | `ThreadAssumption` |
| `TypeCorrect` | `Spec => []TypeOK` | the model's state |
| `Invariant` | `Spec => []IInv` | `OneAtATime` |
| `InterruptDiscipline` | `Spec => []InterruptsOnlyInThreadCode` | IF and handlers |
| `Resumable` | `Spec => []SuspendedResumable` | stacks of threads that wait |
| `Handover` | `Spec => HandoverAcknowledged` | the EOI before the switch |
| `AssertionsHold` | `Spec => []NoPanic` | `OneAtATime`: the ASSERTs |
| `ReadyQueueExact` | `Spec => []NoThreadLost` | `OneAtATime`: the ready queue |
| `AllQueueExact` | `Spec => []AllThreadsListed` | `OneAtATime`: the other one |
| `RoundRobinRefinement` | `Spec => ImplementsRoundRobin` | `OneAtATime`: turns |
| **`ThreadListsProofs`** | | `ListsAssumption`: finitely many threads |
| `LinksSpellQueues` | `Spec => []IInv` | what the links spell |
| `QueuesIntact` | `Spec => []ListsIntact` | both directions agree |
| `SearchesStay` | `Spec => []SearchStaysInList` | searches of preempted threads |
| `SearchesSeeAll` | `Spec => SearchVisitsAll` | what a failed search has seen |
| `QueueRefinement` | `Spec => ImplementsQueues` | lists are sequences |
| **`SwitchContextProofs`** | | `SwitchAssumption` |
| `StacksAsExpected` | `Spec => []IInv` | every word that is read again |
| `ContextComesBack` | `Spec => []ContextKept` | registers, IF, EIP, ESP, stack |
| `CalleeSavedComesBack` | `Spec => []CalleeSaved` | registers of C functions |
| `StacksStayApart` | `Spec => []StacksApart` | room on a page |
| `NewThreadsGetArguments` | `Spec => []FirstRunArguments` | the frame of a new thread |
| **`MemoryProofs`** | | `MemoryAssumption`, `BitmapAssumption` |
| `ScanFirstFit` | what `bitmap_scan` finds | every bitmap, every count |
| `PoolsArePrefixes` | `MemorySpec => []IInv` | `OneAtATime` |
| `EveryPageOwned` | `MemorySpec => []PagesOwned` | `OneAtATime` |
| `NoLeak` | `MemorySpec => []NothingLeaks` | `OneAtATime` |
| `NoFalseFailure` | `MemorySpec => FailsOnlyWhenFull` | `OneAtATime` |
| **`PageTablesProofs`** | | `PageTablesAssumption` |
| `DirectoryStays` | `TablesSpec => []IInv` | `KernelHeap` |
| `PointersLead` | `TablesSpec => []PointersReach` | `KernelHeap` |
| `PagesMapped` | `TablesSpec => []MappingMaps` | `KernelHeap` |
| `PresentEntriesStay` | `TablesSpec => EntriesStay` | `KernelHeap` |
| `AssertHolds` | `TablesSpec => []PteAbsent` | `ClearedHeap` |
| **`ConsoleProofs`** | | `ConsoleAssumption`, `ExceptionsAssumption` |
| `CursorIsOne` | `XSpec => []IInv` | `OneWriter` |
| `CursorStays` | `XSpec => []CursorInRange` | `OneWriter` |
| `NumbersPrinted` | `XSpec => NumbersInHex` | `OneWriter` |
| `ScreenRefinement` | `XSpec => ImplementsScreen` | `OneWriter` |
| `MessageStays` | `XSpec => []MessageShown` | `OneWriter` |
| **`LibraryProofs`** | | `LibraryAssumption`, `StringsAssumption`, `BitmapAssumption` |
| `CopiesAlwaysRight` | `LibrarySpec => []CopiesRight` | every memory and size of a byte |
| `SearchesAlwaysRight` | `LibrarySpec => []SearchesRight` | lengths, searches, comparisons |
| `ScanAlwaysFirstFit` | `LibrarySpec => []ScanIsFirstFit` | by `ScanFirstFit` |
| **`BootProofs`**, pools | | `PoolsAssumption`: 2 MB to 4 GB |
| `PoolsAreMemory` | `PoolsInMemory` | frames of the pools exist, lie behind the page tables and are in one pool |
| `BitmapsBelowPcb` | `BitmapsFit` | the three bitmaps are apart and end below the PCB of `main` |
| `PoolsLaidOut` | `PoolLayout`, both of them | for every amount |
| **`BootProofs`**, boot | | `BootAssumption` |
| `MemoryFound` | `BootSpec => []TotalIsMemory` | `OrdinaryMachines` |
| `FramesAreMemory` | `BootSpec => []PoolsInMachine` | `OrdinaryMachines` |
| `PoolsOfBoot` | `BootSpec => [](Exact => PoolLayout)` | `OrdinaryMachines` |
| `LoaderStays` | `BootSpec => []LoaderKept` | `LinkedKernels`, `SectorTime = FALSE` |
| `KernelCopied` | `BootSpec => []KernelInPlace` | `LinkedKernels`, `SectorTime = FALSE` |
| `InterruptsHandled` | `BootSpec => []NeverHangs` | `Gone = {FALSE}` |

The suppositions are the circumstances under which the code is right, and for
each there is a run or a configuration that shows what happens without it:

* `OneAtATime`: calls of the allocator do not interleave, or there is one
  caller. `main.c` allocates before it enables interrupts. Without it
  `memory_preempted` finds two owners of a frame. In `KernelThreads` it is a
  constant, and what follows from distinct pages supposes it; without it
  `MCKernelThreads` finds the second creator's ASSERT failing. What is about
  stacks, IF and the EOI does not need it.
* `OneWriter`: one thread prints at a time; that an exception interrupts it for
  good, and prints itself, is part of the theorems. Without it: `console_two`,
  the configuration with `NumbersInHex`, and `Exceptions_two`.
* `KernelHeap`: the pages are those of `kernel_vaddr`, whose tables
  `setup_page` has entered. Without it: `PageTables_newtable`.
* `ClearedHeap`, for the ASSERT only: the memory of the tables was zero. Without
  it: `PageTables_newtable` with `Leftover`.
* `OrdinaryMachines`: the usable memory ends between 2 MB and 2 GB; there are at
  most `Capacity` ranges; those that are not usable lie below the second
  megabyte, or above the memory and end above 2 GB. So no ACPI range lies right
  behind the memory. Without it: `MCBoot` with `LargeMachines`, `AcpiMachines`,
  `ManyRanges`. Nothing is supposed of 0xe801: what is not said of it is in the
  properties, of which `TotalIsMemory` claims nothing, and those with `Exact` do
  not apply, where it has answered for more than 16 MB, as `boot_e801` shows.
* `LinkedKernels`: what `ld` writes, segments that lie between the loader and
  the image; headers that go over one another say the same of each word.
* `SectorTime = FALSE`: the controller has the next sector at once, as that of
  an emulator does. Without it: `MCBoot` with `SectorTime = TRUE`.
* `Gone = {FALSE}`: a request stays until the processor has asked for its
  vector. Without it: `boot_spurious`.

### Threads

The argument has three layers and, between the first two, `PageInv`: with
`OneAtATime` one creator at most is getting a page, and no PCB has it.
`ControlInv` is about stacks and interrupts: each stack has at most a handler
above thread code (`Shape`), a thread that does not run is fresh or at the end
of its handler (`Suspended`), IF is clear in handlers and critical sections and
the EOI is outstanding only at the very beginning of one (`Masked`), and what
`schedule` takes off the queue exists (`NextExists`). `NoPanic` alone is not
inductive: that `ready` is not empty at the ASSERT needs that the running thread
was just appended, which needs `StatusInv`; that the new thread is not in the
queue needs that no two creators work on one PCB and that a thread cannot run
before it is linked (`CreateInv`); and the exact contents of the queue
(`NoThreadLost`) carry both through every step. `QueueInv` is that second layer,
and it is proved on top of the first: `NextControl` shows that a step preserves
`ControlInv`, `NextQueue` that it then preserves `QueueInv`, each with one step
per action.

The third layer, `TurnInv`, is what the refinement needs: the running thread,
once it has appended itself, is last in the ready queue, its slice is 0 from
there until `schedule` has reset it and its priority afterwards. Seen through
the refinement mapping, in which the turn passes when the next thread is taken
off the queue, `CreateAppendReady` is an arrival, `TimerHandler` a tick, the pop
of `schedule` a rotation, and everything else a stutter.

### Lists

The links of a queue spell a sequence of different threads (`NextSpells`,
`PrevSpells`), except that one insertion, that of the running thread, may be
under way: between its second and third assignment the forward links have the
new element and the backward links do not (`LinksInv`). It cannot be more than
one, for nobody is preempted with IF clear (`LockInv`). A thread that is about
to be linked is in no queue and nobody else's (`ElemInv`), so a search never
meets a half-linked element. A search of the ready queue may stand on the
running thread, which is in no list, but not on the searching thread itself;
when the searcher runs again, the element it stands on is linked again
(`SearchInv`).

That a failed search has seen everything (`VisitInv`) needs the order. The
running thread followed by the ready queue is a ring, which `schedule` turns by
one place without changing it, and arrivals are inserted just before the running
thread. Seen from the searching thread, what it has not visited lies ahead of
where it stands (`Ahead`), and when it runs again the ring begins with itself,
so that going round is the order of the links.

### Stacks

For each point at which a handler calls or returns, `IInv` says how many words
below the thread's own part ESP and EBP point and which words above them are
still to be read: the frame of the gate and the stub, the return addresses, the
saved frame pointers, the registers saved by `switch_to`. A suspended thread has
all of them (`Suspended`), a new one those of `init_thread_stack`. Nobody writes
to the page of another thread, so they are there when the thread is resumed. The
path to the switch takes 31 words, and the function of a new thread begins two
words above the gap, so `SwitchAssumption` asks for 29 words more than the PCB,
the gap and the function's own: a page of 1024 words has many more.

### Pages

`bitmap_scan` is one theorem about an operator: its two stages find the first
row of free bits, with the exception behind the end that `bitmap_bounds` shows
(`ScanFirstFit`, from the number of free bits `Count` has seen up to a bit). The
kernel never frees a page, and this keeps the invariant simple: with calls that
do not overlap the mapped pages are a prefix of the pool, page n has frame n,
and a running call works on the first page that has none (`PoolInv`,
`CallerInv`); what callers have been granted lies below (`GrantInv`). First fit
then is "the next one", and a scan fails only when the pool is at its end.

In `PageTables` a page's entry is reached through the last entry of the
directory, so the directory must not change: `TablesInv`. A page of the heap has
its table, so the branch that would enter one is not taken, a mapping writes one
entry, and the entries of different pages are different places.

### Console

Between two accesses `put_char` has its place in the registers of the processor
and the controller has its own; `FrameInv` says, for each point, how they are
related: the byte already read is the one that is still there, the index is the
one just selected, the first byte written is that of BX. Only while the cursor
is being written may both bytes together name a position that is not on the
screen. The arithmetic (a word of two bytes, BX doubled, the signed comparison)
is in lemmas of its own, with the products of the two dimensions that SMT does
not see through.

For the refinement the screen is the first `Rows * Cols` cells of the text
memory cut into lines, and the position is BX from the drawing to the last write
and the cursor registers otherwise: every drawing is a step of `Screen`,
everything else a stutter, except that `set_cursor` moves.

`NumberInv` says how far `put_int` is: EAX is the number divided by the weight
of the digit to be stored next, the buffer holds the digits behind it, EDI is
behind the zeros that have been skipped. An interrupted `put_int` leaves nothing
that the next one uses. The weights are a recursive function; that it has a
value (`WeightExists`), and that a number without digits is 0 (`AllDigitsZero`),
is shown with the least counterexample.

`MessageInv` is about the row of calls of whoever gives up. Before, all cells
behind the cursor are blank: put_char erases what it steps back over, and a roll
brings a blank line. After, `Places` says for each call how many lines, and how
many characters of the next, are written when it returns, and `Stage` that the
screen shows just these and is blank where the message is still to come: for
`panic_spin` everything behind the cursor, for the handler the `MessageRows`
rows that it has blanked first. `CallInv` relates this to the call that is being
made: what its argument is, whether it has drawn already, and of a number how
many digits are drawn (`DigitsDrawn`), which `NumberInv` knows from EDI.
`CallsFit` is the part about the texts alone: that the rows of calls of
`default_intr_handler` and `panic_spin` write `Lines`, each call the next
character, line or number (`Adds`). The rest is one lemma for each thing that
put_char may draw; when the screen rolls the message rolls with it, and its
first line is still there because there are more than five lines.

Of the constants this asks what the code has: more than five rows (25), a blank
that is neither of the two control characters, exceptions that are not called
"panic" and a writer that is not called "nobody" (the two names by which
`message` tells that there is no exception, or no message).

### Library

A recursive function need not have a value, and tlapm's theorems on induction
cannot be instantiated. So for each loop a closed form is stated (after i rounds
of `memcpy` the first i bytes of the destination are those of the source, the
rest is as it was; `strchr` returns the least match between its pointer and the
end) that satisfies the loop's equation; then there is such a function, and by
`AgreeUpwards` and `AgreeDownwards`, which are inductions on the rounds made and
on those left by way of the least counterexample, there is no other. That
`memcpy` reads a byte before it overwrites it, and that `strcpy` copies no zero
before the string's own, is where `MayCopy` is needed. The loops over strings
are functions on `Strings(m)`, the places with a zero behind them, on which they
end. The invariant of `Library` is that the memory stays one and nothing is
written through `NULL` (`MemoryOK`).

`ScanAlwaysFirstFit` cites `ScanFirstFit` of `MemoryProofs` for an allocator
with the same bitmap, whose assumptions `AllocatorAssumption` shows.

### Pools

These theorems rest on the lemma `PoolSizes`: the cut to 16 bits
and the two divisions only ever lose pages, and three bitmaps for fewer than
65536 pages take at most three pages. That is why the cut of `memory.c:87`,
which wastes memory, is also what keeps the bitmaps in their place: the mutant
without it violates `BitmapsFit`.

### Boot

Three invariants that need not know of one another. `DetectionInv` and
`PoolsInv`: what has been asked for is the beginning of the map, and what has
been found is where the memory ends. The comparison with a sign is right because
everything that ends above 2 GB is negative and is not memory (`FindMaxRight`);
16 times the amount is what `PoolSizes` needs.

`MemoryInv` is about words: while sector q is read and r words of it have been
taken, the first q sectors and r words are in memory, the controller is at that
word, and CX holds what is left (`ReadInv`); the product `di * 256` is the one
that must not overflow (`Products`). Then the segments are copied from the image
(`CopyInv`): header by header and word by word, what has been copied stays,
because another segment lies elsewhere or says the same, and neither the image
nor the loader is written to.

`TableInv` is how far the table of interrupts is: after n of the ten writes of
`pic_init` the master waits for a certain word of its initialization, and after
the ninth every line but the timer's is masked (`MasterInv`). So whatever the
devices ask for, and whatever is asked for while IF is clear, the timer is what
the processor gets, and when IF is set its gate holds its handler. What the
slave does is not needed: line 2 is masked.

### Only model-checked

* The liveness properties `NoStarvation`, `CreationCompletes`, `SearchEnds`,
  `BootEnds` and `TicksGoOn`: fairness and `ENABLED` are out of the prover's
  reach. Every safety property of a passing run is also a theorem, under the
  suppositions above.

## 5. Not modelled, and out of reach

* Which name an exception has, and whether a stub pushes the error code that the
  processor pushes itself: the vectors of `kernel_interrupt.S` name some of them
  wrongly (0x0c has `ZERO` although the processor pushes one).
* The texts of `main.c`, and that its threads print: `KernelThreads` has who
  runs, `Console` what two that print do to each other.
* The switch to protected mode and the GDT; that it happens without `cli` and
  without an IDT (`loader_load_kernel.S:278`) and that `error_halt` is a single
  `hlt` (the models start with IF clear); that `.bss` is not cleared (`:673`).
* The test of the stack magic (`timer.c:202`).
* `list_append_left`, `list_len`, `list_search`, the user pool, and `inb`,
  `insw` and `outsw` of `io.h`: nothing calls them. (`list_append_left` reads
  `head.next` before interrupts are off, and `inb` would not assemble, having a
  full stop for a comma: both would matter to the first caller.)
* `_test/`, the study versions of the loader, the build: no part of the kernel.

Beyond the prover: liveness under fairness, and induction by the theorems of its
library. What the recursive functions of the models compute (the loops over
strings, the weights of digits) is proved all the same, from closed forms and
least counterexamples; the `while` loops of the code that are several steps of a
model, such as the search of `list_has_elem`, are proved as invariants.
