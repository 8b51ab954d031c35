------------------------------ MODULE FlashDisk ------------------------------
(***************************************************************************)
(* flash.c and NVMem.c: drive 0, a FAT volume in program flash.  A sector  *)
(* is 512 bytes, the flash is erased by pages of two sectors and programmed *)
(* by rows of 128 bytes, so sector_write() reads the other half of a page, *)
(* erases the page and programs it row by row.  Power can fail at any time *)
(* and every operation of the flash controller can fail.                   *)
(*                                                                         *)
(* A sector is the sequence of its rows, a row a datum; sectors count from *)
(* FLASH_PART1_START_BLOCK.                                                *)
(***************************************************************************)
EXTENDS Integers, Sequences

CONSTANTS
  NumPages,         \* erase pages of the volume
  RowsPerSector,
  Data,             \* what a row may hold
  Image,            \* the volume the program was linked with (fat.csv)
  Contents,         \* sectors FatFs may write
  Erased,           \* a row after its page was erased
  Torn,             \* a row whose erasing or programming was cut or failed
  MaxCount,         \* sectors of one request
  MaxWrites, MaxErrors, MaxCuts   \* writes, failing operations, power cuts

ASSUME FlashAssumption ==
  /\ NumPages \in Nat /\ NumPages > 0
  /\ RowsPerSector \in Nat /\ RowsPerSector > 0
  /\ Image \in [0 .. 2 * NumPages - 1 -> [1 .. RowsPerSector -> Data]]
  /\ Contents \subseteq [1 .. RowsPerSector -> Data]
  /\ MaxCount \in Nat /\ MaxWrites \in Nat /\ MaxErrors \in Nat /\ MaxCuts \in Nat

VARIABLES
  flash,      \* flash[s][k]: row k of sector s
  call,       \* the disk_write_flash() in progress, with its arguments
  page,       \* sector_write()'s arguments page and number_of_sector, the
              \* page it works on, flash_temp_buffer, and where it is
  before,     \* the flash when the call began, or now if there is none
  budget      \* what may still be written, fail, be cut

vars == <<flash, call, page, before, budget>>

NumSectors == 2 * NumPages
Sectors == 0 .. NumSectors - 1
Rows == 1 .. RowsPerSector
RowValue == Data \cup {Erased, Torn}

(* A request: count sectors from first on, data the buffer's sectors. *)
NoCall == [first |-> 0, count |-> 0, data |-> <<>>]
Requests ==
  {r \in [first : Sectors, count : 1 .. MaxCount,
          data : UNION {[1 .. n -> Contents] : n \in 1 .. MaxCount}] :
     r.first + r.count <= NumSectors /\ DOMAIN r.data = 1 .. r.count}

Idle == [pc |-> "idle"]

(* The first sector of the page that holds sector s: flash_addr & (1<<9).   *)
Base(s) == IF s % 2 = 1 THEN s - 1 ELSE s

(* The rows of flash_temp_buffer and of a page, in the order of addresses.  *)
PageRows == 1 .. 2 * RowsPerSector
SectorOf(base, r) == IF r <= RowsPerSector THEN base ELSE base + 1
RowOf(r) == IF r <= RowsPerSector THEN r ELSE r - RowsPerSector
TwoSectors(a, b) ==
  [r \in PageRows |-> IF r <= RowsPerSector THEN a[r] ELSE b[RowOf(r)]]

(* sector_write() at the sector that is at offset off of the buffer with n   *)
(* sectors left: the page, what it will hold, and how many sectors of the   *)
(* request that takes.                                                      *)
Buffer(off) == call.data[off + 1]

(* Faulty variant: the last sector of a request forgets its neighbour.      *)
SectorWrite_NeighbourLost(s, n, off) ==
  CASE n = 0 \/ s \notin Sectors -> Idle
    [] n > 0 /\ s \in Sectors /\ (n = 1 \/ Base(s) # s) ->
         [pc |-> "erase", s |-> s, n |-> n, takes |-> 1,
          temp |-> TwoSectors(Buffer(off), Buffer(off)), row |-> 1]
    [] n > 1 /\ s \in Sectors /\ Base(s) = s ->
         [pc |-> "erase", s |-> s, n |-> n, takes |-> 2,
          temp |-> TwoSectors(Buffer(off), Buffer(off + 1)), row |-> 1]

SectorWrite(s, n, off) ==
  CASE n = 0 \/ s \notin Sectors -> Idle
    [] n > 0 /\ s \in Sectors /\ Base(s) # s ->
         [pc |-> "erase", s |-> s, n |-> n, takes |-> 1,
          temp |-> TwoSectors(flash[s - 1], Buffer(off)), row |-> 1]
    [] n = 1 /\ s \in Sectors /\ Base(s) = s ->
         [pc |-> "erase", s |-> s, n |-> n, takes |-> 1,
          temp |-> TwoSectors(Buffer(off), flash[s + 1]), row |-> 1]
    [] n > 1 /\ s \in Sectors /\ Base(s) = s ->
         [pc |-> "erase", s |-> s, n |-> n, takes |-> 2,
          temp |-> TwoSectors(Buffer(off), Buffer(off + 1)), row |-> 1]

Init ==
  /\ flash = Image
  /\ call = NoCall
  /\ page = Idle
  /\ before = flash
  /\ budget = [writes |-> MaxWrites, errors |-> MaxErrors, cuts |-> MaxCuts]

Spend(what) == /\ budget[what] > 0
               /\ budget' = [budget EXCEPT ![what] = @ - 1]

(* FatFs calls disk_write() for drive 0. *)
DiskWrite(r) ==
  /\ call = NoCall
  /\ Spend("writes")
  /\ call' = r
  /\ page' = [pc |-> "enter", s |-> r.first, n |-> r.count]
  /\ UNCHANGED <<flash, before>>

(* Faulty variant: the buffer does not advance with the page. *)
EnterSectorWrite_SameBuffer ==
  /\ page.pc = "enter"
  /\ page' = SectorWrite(page.s, page.n, 0)
  /\ UNCHANGED <<flash, call, before, budget>>

EnterSectorWrite ==
  /\ page.pc = "enter"
  /\ page' = SectorWrite(page.s, page.n, page.s - call.first)
  /\ UNCHANGED <<flash, call, before, budget>>

(* The call that writes the rest of the request; its result is not used.    *)
Recurse_SameSector == [pc |-> "enter", s |-> page.s, n |-> page.n]   \* faulty variant
Recurse == [pc |-> "enter", s |-> page.s + page.takes, n |-> page.n - page.takes]

ErasePage ==
  /\ page.pc = "erase"
  /\ flash' = [s \in Sectors |->
                 IF Base(s) = Base(page.s) THEN [k \in Rows |-> Erased] ELSE flash[s]]
  /\ page' = [page EXCEPT !.pc = "program"]
  /\ UNCHANGED <<call, before, budget>>

(* NVMemErasePage() reports an error: sector_write() returns it, to nobody.  *)
EraseFails ==
  /\ page.pc = "erase"
  /\ Spend("errors")
  /\ \/ UNCHANGED flash
     \/ flash' = [s \in Sectors |->
                    IF Base(s) = Base(page.s) THEN [k \in Rows |-> Torn] ELSE flash[s]]
  /\ page' = Idle
  /\ UNCHANGED <<call, before>>

(* NVMemWriteRow() of the next row of write1page(). *)
(* Faulty variant: from the sector on, not from the start of its page. *)
SetRow_FromSector(value) ==
  flash' = [s \in Sectors |-> [k \in Rows |->
    IF s = SectorOf(page.s, page.row) /\ k = RowOf(page.row)
    THEN value ELSE flash[s][k]]]
SetRow(value) ==
  flash' = [flash EXCEPT ![SectorOf(Base(page.s), page.row)][RowOf(page.row)] = value]

WriteRow ==
  /\ page.pc = "program"
  /\ SetRow(page.temp[page.row])
  /\ page' = IF page.row = 2 * RowsPerSector THEN Recurse
             ELSE [page EXCEPT !.row = @ + 1]
  /\ UNCHANGED <<call, before, budget>>

(* A row fails: write1page() stops and returns 0. *)
WriteRowFails ==
  /\ page.pc = "program"
  /\ Spend("errors")
  /\ SetRow(Torn)
  /\ page' = Recurse
  /\ UNCHANGED <<call, before>>

(* disk_write_flash() returns RES_OK. *)
Return ==
  /\ call # NoCall /\ page.pc = "idle"
  /\ call' = NoCall
  /\ before' = flash
  /\ UNCHANGED <<flash, page, budget>>

(* Power fails during a write: the row, or any rows of the page, in work     *)
(* are torn, and the system starts anew.                                    *)
PowerCut ==
  /\ call # NoCall
  /\ Spend("cuts")
  /\ CASE page.pc = "erase" ->
            \E torn \in SUBSET PageRows :
              flash' = [s \in Sectors |-> [k \in Rows |->
                IF \E r \in torn : SectorOf(Base(page.s), r) = s /\ RowOf(r) = k
                THEN Torn ELSE flash[s][k]]]
       [] page.pc = "program" -> SetRow(Torn) \/ UNCHANGED flash
       [] page.pc \in {"enter", "idle"} -> UNCHANGED flash
  /\ call' = NoCall
  /\ page' = Idle
  /\ before' = flash'

Next ==
  \/ \E r \in Requests : DiskWrite(r)
  \/ EnterSectorWrite
  \/ ErasePage \/ EraseFails \/ WriteRow \/ WriteRowFails
  \/ Return
  \/ PowerCut

Spec == Init /\ [][Next]_vars
FairSpec == Spec /\ WF_vars(EnterSectorWrite \/ ErasePage \/ WriteRow \/ Return)
-----------------------------------------------------------------------------
(* What the sectors hold when every operation has succeeded. *)
Asked == call.first .. call.first + call.count - 1
Target(s) == IF s \in Asked THEN call.data[s - call.first + 1] ELSE before[s]
Writing == call # NoCall

TypeOK ==
  /\ flash \in [Sectors -> [Rows -> RowValue]]
  /\ before \in [Sectors -> [Rows -> RowValue]]
  /\ call \in Requests \cup {NoCall}
  /\ page.pc \in {"idle", "enter", "erase", "program"}
  /\ page.pc \in {"erase", "program"} =>
       page.s \in Sectors /\ page.row \in PageRows
         /\ page.temp \in [PageRows -> RowValue]

(* While sector_write() works, and if no flash operation has failed, all    *)
(* sectors but the two of the page in work have their old or their new      *)
(* content: a power cut costs one page.                                     *)
OnePageAtRisk ==
  Writing /\ budget.errors = MaxErrors =>
    \A s \in Sectors :
      \/ flash[s] \in {before[s], Target(s)}
      \/ page.pc = "program" /\ Base(s) = Base(page.s)

(* Whatever fails, sectors that share no page with the request keep what    *)
(* they held.                                                               *)
OtherPagesKept ==
  Writing =>
    \A s \in Sectors :
      (\A q \in Asked : Base(q) # Base(s)) => flash[s] = before[s]

(* Every write returns: the recursion of sector_write() ends. *)
WriteReturns == Writing ~> ~Writing

(* The volume is a disk whose writes are atomic but for a power cut, as     *)
(* long as no operation fails; after that other pages are still kept.       *)
Device == INSTANCE BlockDevice WITH
            disk <- before,
            request <- call,
            cuts <- MaxCuts - budget.cuts,
            failed <- budget.errors < MaxErrors,
            Content <- [Rows -> RowValue],
            Block <- LAMBDA s : {t \in Sectors : Base(t) = Base(s)}
Implements == Device!Spec
=============================================================================
