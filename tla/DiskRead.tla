------------------------------- MODULE DiskRead -------------------------------
(***************************************************************************)
(* How the boot sector and the loader read sectors (rd_disk_m_16 of        *)
(* boot/mbr.S and rd_disk_m_32 of boot/loader_load_kernel.S): the driver   *)
(* writes the command registers of the controller, polls its status, and   *)
(* takes all words from the data port; the controller prepares one sector  *)
(* after the other meanwhile.                                              *)
(*                                                                         *)
(* Sizes are scaled: 256 is at once the number of words in a sector and of *)
(* values of the sector count register, and its square the number of values*)
(* of a register of 16 bits.  Addresses count words, and a word of the disk*)
(* is its number.                                                          *)
(***************************************************************************)
EXTENDS Naturals

CONSTANTS
    SectorWords,    \* 256
    MemoryWords,
    SectorTime,     \* TRUE: the controller needs time between two sectors
    NoData          \* what is in memory at first, or on a port without data

VARIABLES
    mem,
    count, lba,     \* command registers of the controller
    controller,     \* [state, sector, word, left]
    driver          \* [pc, bits, ebx, cx, di, start, from]

IdleController == [state |-> "idle", sector |-> 0, word |-> 0, left |-> 0]
IdleDriver == [pc |-> "ret", bits |-> 16, ebx |-> 0, cx |-> 0, di |-> 0,
               start |-> 0, from |-> 0]

DiskInit ==
    /\ mem = [a \in 0 .. MemoryWords - 1 |-> NoData]
    /\ count = 0
    /\ lba = 0
    /\ controller = IdleController
    /\ driver = IdleDriver

\* eax: first sector, ebx: where the words go, cx: number of sectors
rd_disk(bits, eax, ebx, cx) ==
    /\ driver.pc = "ret"
    /\ driver' = [pc |-> "out_count", bits |-> bits, ebx |-> ebx, cx |-> cx,
                  di |-> cx, start |-> ebx, from |-> eax]
    /\ UNCHANGED <<mem, count, lba, controller>>

\* Only cl goes to the sector count register.
OutCount ==
    /\ driver.pc = "out_count"
    /\ count' = driver.cx % SectorWords
    /\ lba' = driver.from
    /\ driver' = [driver EXCEPT !.pc = "out_command"]
    /\ UNCHANGED <<mem, controller>>

\* 0x20 to the command register; a count of 0 means 256 sectors
OutCommand ==
    /\ driver.pc = "out_command"
    /\ controller' = [state |-> "BSY", sector |-> lba, word |-> 0,
                      left |-> IF count = 0 THEN SectorWords ELSE count]
    /\ driver' = [driver EXCEPT !.pc = "not_ready"]
    /\ UNCHANGED <<mem, count, lba>>

\* and al, 0x88 / cmp al, 0x08
Ready == controller.state = "DRQ"

\* mov ax, di / mul dx / mov cx, ax
Iterations(di) == di * SectorWords % (SectorWords * SectorWords)

\* The status is polled until data is there, once for all sectors.
NotReady ==
    /\ driver.pc = "not_ready"
    /\ Ready
    /\ driver' = [driver EXCEPT !.pc = "go_on_read",
                                !.cx = Iterations(driver.di)]
    /\ UNCHANGED <<mem, count, lba, controller>>

\* loop counts cx down in 16 bits in the boot sector, ecx in 32 in the loader.
CounterValues(bits) ==
    IF bits = 16 THEN SectorWords * SectorWords
    ELSE SectorWords * SectorWords * SectorWords * SectorWords

\* How many words there are at the addresses of bx and of ebx, which count
\* bytes: what goes on behind the last of them begins at address 0.
Reach(bits) == CounterValues(bits) \div 2

\* What reading the data port does to the controller
Advance ==
    IF controller.word + 1 < SectorWords
    THEN [controller EXCEPT !.word = @ + 1]
    ELSE IF controller.left > 1
    THEN [state |-> IF SectorTime THEN "BSY" ELSE "DRQ",
          sector |-> controller.sector + 1, word |-> 0,
          left |-> controller.left - 1]
    ELSE IdleController

\* in ax, dx / mov [ebx], ax / add ebx, 2 / loop
GoOnRead ==
    LET cx == (driver.cx + CounterValues(driver.bits) - 1)
                 % CounterValues(driver.bits)
    IN
    /\ driver.pc = "go_on_read"
    /\ mem' = [mem EXCEPT ![driver.ebx] =
                 IF controller.state = "DRQ"
                 THEN controller.sector * SectorWords + controller.word
                 ELSE NoData]
    /\ controller' = IF controller.state = "DRQ" THEN Advance ELSE controller
    /\ driver' = [driver EXCEPT !.ebx = (@ + 1) % Reach(driver.bits),
                                !.cx = cx,
                                !.pc = IF cx = 0 THEN "ret" ELSE "go_on_read"]
    /\ UNCHANGED <<count, lba>>

\* The controller has read a sector from the disk.
SectorRead ==
    /\ controller.state = "BSY"
    /\ controller' = [controller EXCEPT !.state = "DRQ"]
    /\ UNCHANGED <<mem, count, lba, driver>>

DriverStep == OutCount \/ OutCommand \/ NotReady \/ GoOnRead

-----------------------------------------------------------------------------
(* Correctness *)

Returned == driver.pc = "ret"

(* When a read returns, its sectors are in memory, word for word, and the   *)
(* controller has nothing left to give, so that the next command finds it   *)
(* idle: the count that the controller got in 8 bits and the number of words*)
(* that the driver reads agree (mbr.S:125-199, loader_load_kernel.S:499-584).*)
SectorsInMemory ==
    Returned =>
        /\ \A i \in 0 .. driver.di * SectorWords - 1 :
              mem[driver.start + i] = driver.from * SectorWords + i
        /\ controller = IdleController
=============================================================================
