--------------------------- MODULE FlashDiskProofs ---------------------------
(***************************************************************************)
(* FlashDisk for every size of the volume, of a sector and of a request,   *)
(* and every image: where sector_write() is in its request, what it never  *)
(* touches, and that it implements BlockDevice.                            *)
(***************************************************************************)
EXTENDS FlashDisk, TLAPS

Pages ==
  [pc : {"idle"}]
    \cup [pc : {"enter"}, s : Nat, n : Nat]
    \cup [pc : {"erase", "program"}, s : Sectors, n : Nat, takes : {1, 2},
          temp : [PageRows -> RowValue], row : PageRows]

(* The recursion of sector_write() stays inside the request, and ends where *)
(* the request ends.                                                        *)
InRequest ==
  /\ page.pc # "idle" =>
       /\ call # NoCall
       /\ call.first <= page.s
       /\ page.s + page.n = call.first + call.count
  /\ page.pc \in {"erase", "program"} =>
       /\ page.takes <= page.n
       /\ page.takes = 2 => Base(page.s) = page.s
       /\ page.takes = 1 => page.n = 1 \/ Base(page.s) # page.s
  /\ page.pc = "erase" => page.row = 1
  /\ call = NoCall => before = flash

Inv ==
  /\ flash \in [Sectors -> [Rows -> RowValue]]
  /\ before \in [Sectors -> [Rows -> RowValue]]
  /\ call \in Requests \cup {NoCall}
  /\ page \in Pages
  /\ budget \in [writes : Nat, errors : 0 .. MaxErrors, cuts : Nat]
  /\ InRequest

-----------------------------------------------------------------------------
(* Two sectors to a page. *)
LEMMA BaseFacts ==
  ASSUME NEW s \in Sectors
  PROVE  /\ Base(s) \in Sectors /\ Base(s) + 1 \in Sectors
         /\ s \in {Base(s), Base(s) + 1}
         /\ Base(Base(s)) = Base(s) /\ Base(Base(s) + 1) = Base(s)
         /\ \A q \in Sectors : Base(q) = Base(s) => q \in {Base(s), Base(s) + 1}
BY FlashAssumption DEF Base, Sectors, NumSectors

LEMMA RowFacts ==
  ASSUME NEW s \in Sectors, NEW r \in PageRows
  PROVE  /\ SectorOf(Base(s), r) \in Sectors
         /\ Base(SectorOf(Base(s), r)) = Base(s)
         /\ RowOf(r) \in Rows
BY BaseFacts, FlashAssumption DEF SectorOf, RowOf, PageRows, Rows

LEMMA NextRow ==
  ASSUME NEW r \in PageRows, r # 2 * RowsPerSector
  PROVE  r + 1 \in PageRows
<1>1. RowsPerSector \in Nat
  BY FlashAssumption
<1> QED BY <1>1 DEF PageRows

LEMMA RequestRange ==
  ASSUME NEW r \in Requests
  PROVE  r.first .. r.first + r.count - 1 \subseteq Sectors
<1>1. r.first \in Sectors /\ r.count \in 1 .. MaxCount /\ r.first + r.count <= NumSectors
  BY DEF Requests
<1>2. NumSectors \in Nat /\ MaxCount \in Nat
  BY FlashAssumption DEF NumSectors
<1> QED BY <1>1, <1>2 DEF Sectors

LEMMA OneRowEach ==
  ASSUME NEW b \in Nat, NEW q \in PageRows, NEW r \in PageRows, q # r
  PROVE  SectorOf(b, q) # SectorOf(b, r) \/ RowOf(q) # RowOf(r)
<1>1. RowsPerSector \in Nat
  BY FlashAssumption
<1> QED BY <1>1 DEF SectorOf, RowOf, PageRows

LEMMA RequestFacts ==
  ASSUME NEW r \in Requests
  PROVE  /\ r \in [first : Sectors, count : 1 .. MaxCount, data : [1 .. r.count -> Contents]]
         /\ r # NoCall
         /\ r.first \in Sectors /\ r.count \in Nat /\ r.count > 0
         /\ r.first + r.count <= NumSectors
         /\ r.data \in [1 .. r.count -> [Rows -> RowValue]]
<1>1. /\ r \in [first : Sectors, count : 1 .. MaxCount,
               data : UNION {[1 .. n -> Contents] : n \in 1 .. MaxCount}]
      /\ r.first + r.count <= NumSectors /\ DOMAIN r.data = 1 .. r.count
  BY DEF Requests
<1>2. PICK n \in 1 .. MaxCount : r.data \in [1 .. n -> Contents]
  BY <1>1
<1>3. r.data \in [1 .. r.count -> Contents]
  BY <1>1, <1>2
<1>4. Contents \subseteq [Rows -> RowValue]
  BY FlashAssumption DEF Rows, RowValue
<1>5. r.count \in Nat /\ r.count > 0
  BY <1>1, FlashAssumption
<1>6. r.data \in [1 .. r.count -> [Rows -> RowValue]]
  BY <1>3, <1>4
<1>7. r # NoCall
  BY <1>5 DEF NoCall
<1> QED BY <1>1, <1>3, <1>5, <1>6, <1>7

(* The rows of a page, taken from two sectors. *)
LEMMA TwoSectorsType ==
  ASSUME NEW a \in [Rows -> RowValue], NEW b \in [Rows -> RowValue]
  PROVE  TwoSectors(a, b) \in [PageRows -> RowValue]
BY FlashAssumption DEF TwoSectors, PageRows, RowOf, Rows

(* What sector_write() decides on entry: nothing to do, or a page of the    *)
(* request.                                                                 *)
LEMMA SectorWriteFacts ==
  ASSUME Inv, page.pc = "enter",
         NEW w, w = SectorWrite(page.s, page.n, page.s - call.first)
  PROVE  /\ page.n = 0 => w = Idle
         /\ page.n > 0 =>
              /\ page.s \in Sectors /\ page.s - call.first + 1 \in 1 .. call.count
              /\ w \in [pc : {"erase"}, s : {page.s}, n : {page.n}, takes : {1, 2},
                        temp : [PageRows -> RowValue], row : {1}]
              /\ w.takes <= page.n
              /\ w.takes = 2 => Base(page.s) = page.s
              /\ w.takes = 1 => page.n = 1 \/ Base(page.s) # page.s
<1> DEFINE s == page.s  n == page.n  off == page.s - call.first
<1>1. /\ s \in Nat /\ n \in Nat /\ call \in Requests
      /\ call.first <= s /\ s + n = call.first + call.count
  BY DEF Inv, Pages, InRequest
<1>2. CASE n = 0
  BY <1>1, <1>2 DEF SectorWrite
<1>3. CASE n > 0
  <2>1. s \in Sectors /\ off + 1 \in 1 .. call.count
    BY <1>1, <1>3, RequestFacts, FlashAssumption DEF Sectors, NumSectors
  <2>2. /\ Buffer(off) \in [Rows -> RowValue]
        /\ n > 1 => Buffer(off + 1) \in [Rows -> RowValue]
    <3>1. call.count \in Nat /\ call.first \in Nat /\ \A i \in 1 .. call.count : call.data[i] \in [Rows -> RowValue]
      BY <1>1, RequestFacts DEF Sectors
    <3>2. n > 1 => off + 2 \in 1 .. call.count
      BY <1>1, <2>1, <3>1
    <3>3. off + 1 + 1 = off + 2
      BY <1>1, <3>1
    <3> QED BY <2>1, <3>1, <3>2, <3>3 DEF Buffer
  <2>3. CASE Base(s) # s
    <3>1. s - 1 \in Sectors
      BY <2>1, <2>3, BaseFacts DEF Base
    <3>2. TwoSectors(flash[s - 1], Buffer(off)) \in [PageRows -> RowValue]
      BY <2>2, <3>1, TwoSectorsType DEF Inv
    <3>3. w = [pc |-> "erase", s |-> s, n |-> n, takes |-> 1,
               temp |-> TwoSectors(flash[s - 1], Buffer(off)), row |-> 1]
      BY <1>1, <1>3, <2>1, <2>3 DEF SectorWrite
    <3> QED BY <1>1, <1>3, <2>1, <2>3, <3>2, <3>3
  <2>4. CASE Base(s) = s /\ n = 1
    <3>1. s + 1 \in Sectors
      BY <2>1, <2>4, BaseFacts
    <3>2. TwoSectors(Buffer(off), flash[s + 1]) \in [PageRows -> RowValue]
      BY <2>2, <3>1, TwoSectorsType DEF Inv
    <3>3. w = [pc |-> "erase", s |-> s, n |-> n, takes |-> 1,
               temp |-> TwoSectors(Buffer(off), flash[s + 1]), row |-> 1]
      BY <1>1, <1>3, <2>1, <2>4 DEF SectorWrite
    <3> QED BY <1>1, <1>3, <2>1, <2>4, <3>2, <3>3
  <2>5. CASE Base(s) = s /\ n > 1
    <3>1. TwoSectors(Buffer(off), Buffer(off + 1)) \in [PageRows -> RowValue]
      BY <2>2, <2>5, TwoSectorsType
    <3>2. w = [pc |-> "erase", s |-> s, n |-> n, takes |-> 2,
               temp |-> TwoSectors(Buffer(off), Buffer(off + 1)), row |-> 1]
      BY <1>1, <1>3, <2>1, <2>5 DEF SectorWrite
    <3> QED BY <1>1, <1>3, <2>1, <2>5, <3>1, <3>2
  <2> QED BY <1>1, <1>3, <2>3, <2>4, <2>5
<1> QED BY <1>1, <1>2, <1>3

(* Programming a row keeps the flash a flash, and changes only the page in  *)
(* work.                                                                    *)
LEMMA SetRowFacts ==
  ASSUME Inv, page.pc = "program", NEW v \in RowValue, SetRow(v)
  PROVE  /\ flash' \in [Sectors -> [Rows -> RowValue]]
         /\ \A s \in Sectors : Base(s) # Base(page.s) => flash'[s] = flash[s]
         /\ flash'[SectorOf(Base(page.s), page.row)][RowOf(page.row)] = v
         /\ \A s \in Sectors, k \in Rows :
              s # SectorOf(Base(page.s), page.row) \/ k # RowOf(page.row)
                => flash'[s][k] = flash[s][k]
<1>1. page.s \in Sectors /\ page.row \in PageRows
  BY DEF Inv, Pages
<1>2. /\ SectorOf(Base(page.s), page.row) \in Sectors
      /\ Base(SectorOf(Base(page.s), page.row)) = Base(page.s)
      /\ RowOf(page.row) \in Rows
  BY <1>1, RowFacts
<1> QED BY <1>2 DEF Inv, SetRow

(* The call for the rest of the request. *)
LEMMA RecurseFacts ==
  ASSUME Inv, page.pc = "program"
  PROVE  /\ Recurse \in [pc : {"enter"}, s : Nat, n : Nat]
         /\ call.first <= Recurse.s
         /\ Recurse.s + Recurse.n = call.first + call.count
<1>1. /\ page.s \in Sectors /\ page.n \in Nat /\ page.takes \in {1, 2}
      /\ page.takes <= page.n
      /\ call.first <= page.s /\ page.s + page.n = call.first + call.count
      /\ call \in Requests
  BY DEF Inv, Pages, InRequest
<1>2. call.first \in Nat /\ call.count \in Nat /\ page.s \in Nat
  BY <1>1, RequestFacts DEF Sectors
<1> QED BY <1>1, <1>2 DEF Recurse

-----------------------------------------------------------------------------
LEMMA InitInv == Init => Inv
<1> SUFFICES ASSUME Init PROVE Inv
  OBVIOUS
<1>1. Image \in [Sectors -> [Rows -> RowValue]]
  BY FlashAssumption DEF Sectors, NumSectors, Rows, RowValue
<1>2. budget \in [writes : Nat, errors : 0 .. MaxErrors, cuts : Nat]
  BY FlashAssumption DEF Init
<1> QED BY <1>1, <1>2 DEF Init, Inv, Pages, Idle, InRequest

LEMMA InvStep == Inv /\ [Next]_vars => Inv'
<1> SUFFICES ASSUME Inv, [Next]_vars PROVE Inv'
  OBVIOUS
<1>0. ASSUME NEW what \in {"writes", "errors", "cuts"}, Spend(what)
      PROVE  budget' \in [writes : Nat, errors : 0 .. MaxErrors, cuts : Nat]
  <2>1. budget[what] > 0 /\ budget' = [budget EXCEPT ![what] = @ - 1]
    BY <1>0 DEF Spend
  <2>2. MaxErrors \in Nat
    BY FlashAssumption
  <2>3. CASE what = "writes"  BY <2>1, <2>3 DEF Inv
  <2>4. CASE what = "errors"  BY <2>1, <2>2, <2>4 DEF Inv
  <2>5. CASE what = "cuts"    BY <2>1, <2>5 DEF Inv
  <2> QED BY <1>0, <2>3, <2>4, <2>5
<1>1. ASSUME NEW r \in Requests, DiskWrite(r) PROVE Inv'
  <2>1. /\ page' \in [pc : {"enter"}, s : Nat, n : Nat]
        /\ page'.s = r.first /\ page'.n = r.count
    BY <1>1, RequestFacts DEF DiskWrite, Sectors
  <2>2. call' = r /\ r # NoCall /\ r.first <= r.first
    BY <1>1, RequestFacts DEF DiskWrite, Sectors
  <2>3. InRequest'
    BY <2>1, <2>2 DEF InRequest
  <2>4. budget' \in [writes : Nat, errors : 0 .. MaxErrors, cuts : Nat]
    BY <1>0, <1>1 DEF DiskWrite
  <2> QED BY <1>1, <2>1, <2>2, <2>3, <2>4 DEF DiskWrite, Inv, Pages
<1>2. CASE EnterSectorWrite
  <2>1. page.pc = "enter" /\ page' = SectorWrite(page.s, page.n, page.s - call.first)
    BY <1>2 DEF EnterSectorWrite
  <2>2. CASE page.n = 0
    <3>1. page' = Idle
      BY <2>1, <2>2, SectorWriteFacts
    <3> QED BY <1>2, <3>1 DEF EnterSectorWrite, Inv, Pages, Idle, InRequest
  <2>3. CASE page.n > 0
    <3>1. /\ page.s \in Sectors
          /\ page' \in [pc : {"erase"}, s : {page.s}, n : {page.n}, takes : {1, 2},
                        temp : [PageRows -> RowValue], row : {1}]
          /\ page'.takes <= page.n
          /\ page'.takes = 2 => Base(page.s) = page.s
          /\ page'.takes = 1 => page.n = 1 \/ Base(page.s) # page.s
      BY <2>1, <2>3, SectorWriteFacts
    <3>2. 1 \in PageRows
      BY FlashAssumption DEF PageRows
    <3>3. page.n \in Nat
      BY <2>1 DEF Inv, Pages
    <3>4. page' \in Pages
      BY <3>1, <3>2, <3>3 DEF Pages
    <3>5. InRequest'
      BY <1>2, <2>1, <3>1 DEF EnterSectorWrite, Inv, InRequest
    <3> QED BY <1>2, <3>4, <3>5 DEF EnterSectorWrite, Inv
  <2> QED BY <2>1, <2>2, <2>3 DEF Inv, Pages
<1>3. CASE ErasePage
  <2>1. flash' \in [Sectors -> [Rows -> RowValue]]
    BY <1>3 DEF ErasePage, Inv, RowValue
  <2>2. page' \in Pages /\ InRequest'
    BY <1>3 DEF ErasePage, Inv, Pages, InRequest
  <2> QED BY <1>3, <2>1, <2>2 DEF ErasePage, Inv
<1>4. CASE EraseFails
  <2>1. flash' \in [Sectors -> [Rows -> RowValue]]
    BY <1>4 DEF EraseFails, Inv, RowValue
  <2>2. page' \in Pages /\ InRequest'
    BY <1>4 DEF EraseFails, Pages, Inv, InRequest, Idle
  <2>3. budget' \in [writes : Nat, errors : 0 .. MaxErrors, cuts : Nat]
    BY <1>0, <1>4 DEF EraseFails
  <2> QED BY <1>4, <2>1, <2>2, <2>3 DEF EraseFails, Inv
<1>5. CASE WriteRow
  <2>1. page.pc = "program" /\ page.temp[page.row] \in RowValue
    BY <1>5 DEF WriteRow, Inv, Pages
  <2>2. flash' \in [Sectors -> [Rows -> RowValue]]
    BY <1>5, <2>1, SetRowFacts DEF WriteRow
  <2>3. CASE page.row = 2 * RowsPerSector
    <3>1. page' = Recurse
      BY <1>5, <2>3 DEF WriteRow
    <3>2. page' \in Pages /\ InRequest'
      BY <1>5, <2>1, <3>1, RecurseFacts DEF WriteRow, Inv, Pages, InRequest
    <3> QED BY <1>5, <2>2, <3>2 DEF WriteRow, Inv
  <2>4. CASE page.row # 2 * RowsPerSector
    <3>1. page' = [page EXCEPT !.row = @ + 1]
      BY <1>5, <2>4 DEF WriteRow
    <3>2. page.row + 1 \in PageRows
      <4>1. page.row \in PageRows
        BY <2>1 DEF Inv, Pages
      <4> QED BY <2>4, <4>1, NextRow
    <3>3. page' \in Pages /\ InRequest'
      BY <1>5, <2>1, <3>1, <3>2 DEF WriteRow, Inv, Pages, InRequest
    <3> QED BY <1>5, <2>2, <3>3 DEF WriteRow, Inv
  <2> QED BY <2>3, <2>4
<1>6. CASE WriteRowFails
  <2>1. page.pc = "program" /\ Torn \in RowValue
    BY <1>6 DEF WriteRowFails, RowValue
  <2>2. flash' \in [Sectors -> [Rows -> RowValue]]
    BY <1>6, <2>1, SetRowFacts DEF WriteRowFails
  <2>3. page' \in Pages /\ InRequest'
    BY <1>6, <2>1, RecurseFacts DEF WriteRowFails, Inv, Pages, InRequest
  <2>4. budget' \in [writes : Nat, errors : 0 .. MaxErrors, cuts : Nat]
    BY <1>0, <1>6 DEF WriteRowFails
  <2> QED BY <1>6, <2>2, <2>3, <2>4 DEF WriteRowFails, Inv
<1>7. CASE Return
  BY <1>7 DEF Return, Inv, InRequest
<1>8. CASE PowerCut
  <2>1. flash' \in [Sectors -> [Rows -> RowValue]]
    <3>1. CASE page.pc = "erase"
      <4>1. PICK torn \in SUBSET PageRows :
              flash' = [s \in Sectors |-> [k \in Rows |->
                IF \E r \in torn : SectorOf(Base(page.s), r) = s /\ RowOf(r) = k
                THEN Torn ELSE flash[s][k]]]
        BY <1>8, <3>1 DEF PowerCut
      <4>2. \A s \in Sectors, k \in Rows : flash[s][k] \in RowValue /\ Torn \in RowValue
        BY DEF Inv, RowValue
      <4> QED BY <4>1, <4>2
    <3>2. CASE page.pc = "program"
      <4>1. SetRow(Torn) \/ UNCHANGED flash
        BY <1>8, <3>2 DEF PowerCut
      <4>2. Torn \in RowValue
        BY DEF RowValue
      <4> QED BY <3>2, <4>1, <4>2, SetRowFacts DEF Inv
    <3>3. CASE page.pc \in {"enter", "idle"}
      BY <1>8, <3>3 DEF PowerCut, Inv
    <3> QED BY <3>1, <3>2, <3>3 DEF Inv, Pages
  <2>2. budget' \in [writes : Nat, errors : 0 .. MaxErrors, cuts : Nat]
    BY <1>0, <1>8 DEF PowerCut
  <2> QED BY <1>8, <2>1, <2>2 DEF PowerCut, Inv, Pages, Idle, InRequest
<1>9. CASE UNCHANGED vars
  BY <1>9 DEF vars, Inv, InRequest
<1> QED BY <1>1, <1>2, <1>3, <1>4, <1>5, <1>6, <1>7, <1>8, <1>9 DEF Next

(* sector_write() stays inside its request, with any operation failing and  *)
(* power cut at any step.                                                   *)
THEOREM InvHolds == Spec => []Inv
<1>1. Init => Inv               BY InitInv
<1>2. Inv /\ [Next]_vars => Inv' BY InvStep
<1> QED BY <1>1, <1>2, PTL DEF Spec

(* The flash, the request and the page in work stay well typed. *)
THEOREM TypeHolds == Spec => []TypeOK
<1>1. Inv => TypeOK
  BY DEF Inv, Pages, TypeOK
<1> QED BY <1>1, InvHolds, PTL

-----------------------------------------------------------------------------
(* A page in work holds a sector of the request. *)
LEMMA PageAsked ==
  ASSUME Inv, page.pc \in {"erase", "program"}
  PROVE  page.s \in Asked /\ page.s \in Sectors
BY RequestFacts DEF Inv, Pages, InRequest, Asked, Sectors

LEMMA OtherPagesStep == Inv /\ OtherPagesKept /\ [Next]_vars => OtherPagesKept'
<1> SUFFICES ASSUME Inv, OtherPagesKept, [Next]_vars,
                    Writing',
                    NEW s \in Sectors, \A q \in Asked' : Base(q) # Base(s)
             PROVE  flash'[s] = before'[s]
  BY DEF OtherPagesKept, Sectors
<1>1. ASSUME NEW r \in Requests, DiskWrite(r) PROVE flash'[s] = before'[s]
  BY <1>1 DEF DiskWrite, Inv, InRequest
<1>2. ASSUME UNCHANGED <<call, before>>, flash'[s] = flash[s]
      PROVE  flash'[s] = before'[s]
  BY <1>2 DEF OtherPagesKept, Writing, Asked
<1>3. ASSUME UNCHANGED call, page.pc \in {"erase", "program"} PROVE Base(s) # Base(page.s)
  BY <1>3, PageAsked DEF Asked
<1>4. CASE EnterSectorWrite
  BY <1>2, <1>4 DEF EnterSectorWrite
<1>5. CASE ErasePage
  BY <1>2, <1>3, <1>5 DEF ErasePage
<1>6. CASE EraseFails
  BY <1>2, <1>3, <1>6 DEF EraseFails
<1>7. CASE WriteRow
  <2>1. page.temp[page.row] \in RowValue /\ page.pc = "program"
    BY <1>7 DEF WriteRow, Inv, Pages
  <2>2. flash'[s] = flash[s]
    BY <1>3, <1>7, <2>1, SetRowFacts DEF WriteRow
  <2> QED BY <1>2, <1>7, <2>2 DEF WriteRow
<1>8. CASE WriteRowFails
  <2>1. Torn \in RowValue
    BY DEF RowValue
  <2>2. flash'[s] = flash[s]
    BY <1>3, <1>8, <2>1, SetRowFacts DEF WriteRowFails
  <2> QED BY <1>2, <1>8, <2>2 DEF WriteRowFails
<1>9. CASE Return \/ PowerCut
  BY <1>9 DEF Return, PowerCut, Writing
<1>10. CASE UNCHANGED vars
  BY <1>2, <1>10 DEF vars
<1> QED BY <1>1, <1>4, <1>5, <1>6, <1>7, <1>8, <1>9, <1>10 DEF Next

(* Whatever fails, a write changes no page that holds none of its sectors.  *)
THEOREM OtherPagesKeptHolds == Spec => []OtherPagesKept
<1>1. Init => OtherPagesKept
  BY DEF Init, OtherPagesKept, Writing
<1>2. Inv /\ OtherPagesKept /\ [Next]_vars => OtherPagesKept'
  BY OtherPagesStep
<1> QED BY <1>1, <1>2, InvHolds, PTL DEF Spec

-----------------------------------------------------------------------------
(* While no operation has failed: sectors in front of the page in work hold *)
(* what they are to hold, those behind it what they held, flash_temp_buffer *)
(* has the page as it is to be, and the rows programmed so far hold it.     *)
Aside(s) == page.pc = "program" => Base(s) # Base(page.s)
Before(s) == IF s < page.s THEN Target(s) ELSE before[s]

Progress ==
  Writing /\ budget.errors = MaxErrors =>
    /\ page.pc = "idle" => \A s \in Sectors : flash[s] = Target(s)
    /\ page.pc # "idle" => \A s \in Sectors : Aside(s) => flash[s] = Before(s)
    /\ page.pc \in {"erase", "program"} =>
         page.temp = TwoSectors(Target(Base(page.s)), Target(Base(page.s) + 1))
    /\ page.pc = "program" =>
         \A r \in PageRows : r < page.row =>
           flash[SectorOf(Base(page.s), r)][RowOf(r)] = page.temp[r]

LEMMA TargetType ==
  ASSUME Inv, Writing, NEW s \in Sectors
  PROVE  Target(s) \in [Rows -> RowValue]
<1>1. call \in Requests
  BY DEF Inv, Writing
<1>2. s \in Asked => s - call.first + 1 \in 1 .. call.count
  BY <1>1, RequestFacts DEF Asked, Sectors
<1> QED BY <1>1, <1>2, RequestFacts DEF Inv, Target

(* The page sector_write() is about to program is the page as it is to be.  *)
LEMMA TempIsTarget ==
  ASSUME Inv, Progress, Writing, budget.errors = MaxErrors,
         page.pc = "enter", page.n > 0,
         NEW w, w = SectorWrite(page.s, page.n, page.s - call.first)
  PROVE  w.temp = TwoSectors(Target(Base(page.s)), Target(Base(page.s) + 1))
<1> DEFINE s == page.s  n == page.n  off == page.s - call.first
<1>1. /\ s \in Sectors /\ n \in Nat /\ call \in Requests
      /\ call.first <= s /\ s + n = call.first + call.count
      /\ off + 1 \in 1 .. call.count
  BY SectorWriteFacts DEF Inv, Pages, InRequest, Idle
<1>2. s \in Nat /\ call.first \in Nat /\ call.count \in Nat
  BY <1>1, RequestFacts DEF Sectors
<1>3. Target(s) = Buffer(off)
  BY <1>1, <1>2 DEF Target, Buffer, Asked
<1>4. \A q \in Sectors : flash[q] = Before(q)
  BY DEF Progress, Aside
<1>5. CASE Base(s) # s
  <2>1. Base(s) = s - 1 /\ s - 1 \in Sectors
    BY <1>1, <1>2, <1>5, BaseFacts DEF Base
  <2>2. flash[s - 1] = Target(s - 1)
    BY <1>2, <1>4, <2>1 DEF Before
  <2>3. w.temp = TwoSectors(flash[s - 1], Buffer(off))
    BY <1>1, <1>5 DEF SectorWrite
  <2>4. Base(s) + 1 = s
    BY <1>2, <2>1
  <2> QED BY <1>3, <2>1, <2>2, <2>3, <2>4
<1>6. CASE Base(s) = s /\ n = 1
  <2>1. s + 1 \in Sectors
    BY <1>1, <1>6, BaseFacts
  <2>2. flash[s + 1] = before[s + 1]
    BY <1>2, <1>4, <2>1 DEF Before
  <2>3. Target(s + 1) = before[s + 1]
    BY <1>1, <1>2, <1>6 DEF Target, Asked
  <2>4. w.temp = TwoSectors(Buffer(off), flash[s + 1])
    BY <1>1, <1>6 DEF SectorWrite
  <2> QED BY <1>3, <1>6, <2>2, <2>3, <2>4
<1>7. CASE Base(s) = s /\ n > 1
  <2>1. Target(s + 1) = Buffer(off + 1)
    BY <1>1, <1>2, <1>7 DEF Target, Buffer, Asked
  <2>2. w.temp = TwoSectors(Buffer(off), Buffer(off + 1))
    BY <1>1, <1>7 DEF SectorWrite
  <2> QED BY <1>3, <1>7, <2>1, <2>2
<1> QED BY <1>1, <1>5, <1>6, <1>7

(* A page whose rows all hold the buffer holds its two targets. *)
LEMMA PageComplete ==
  ASSUME NEW f \in [Sectors -> [Rows -> RowValue]], NEW b \in Sectors, b + 1 \in Sectors,
         NEW x \in [Rows -> RowValue], NEW y \in [Rows -> RowValue],
         \A r \in PageRows : f[SectorOf(b, r)][RowOf(r)] = TwoSectors(x, y)[r]
  PROVE  f[b] = x /\ f[b + 1] = y
<1>1. RowsPerSector \in Nat /\ RowsPerSector > 0
  BY FlashAssumption
<1>2. ASSUME NEW k \in Rows PROVE f[b][k] = x[k]
  <2>1. k \in PageRows /\ SectorOf(b, k) = b /\ RowOf(k) = k /\ k <= RowsPerSector
    BY <1>1 DEF Rows, PageRows, SectorOf, RowOf
  <2> QED BY <2>1 DEF TwoSectors
<1>3. ASSUME NEW k \in Rows PROVE f[b + 1][k] = y[k]
  <2>1. /\ k + RowsPerSector \in PageRows /\ SectorOf(b, k + RowsPerSector) = b + 1
        /\ RowOf(k + RowsPerSector) = k /\ ~(k + RowsPerSector <= RowsPerSector)
    BY <1>1 DEF Rows, PageRows, SectorOf, RowOf
  <2> QED BY <2>1 DEF TwoSectors
<1> QED BY <1>2, <1>3

(* The last row of a page: the request goes on behind it. *)
LEMMA LastRow ==
  ASSUME Inv, Progress, Writing, budget.errors = MaxErrors, page.pc = "program",
         page.row = 2 * RowsPerSector, SetRow(page.temp[page.row]),
         NEW q \in Sectors
  PROVE  flash'[q] = IF q < page.s + page.takes THEN Target(q) ELSE before[q]
<1> DEFINE s == page.s  b == Base(page.s)
<1>1. /\ s \in Sectors /\ page.n \in Nat /\ page.takes \in {1, 2}
      /\ page.row \in PageRows /\ call \in Requests
      /\ page.temp \in [PageRows -> RowValue]
      /\ call.first <= s /\ s + page.n = call.first + call.count
      /\ page.takes = 2 => b = s
      /\ page.takes = 1 => page.n = 1 \/ b # s
  BY DEF Inv, Pages, InRequest
<1>2. /\ s \in Nat /\ q \in Nat /\ call.first \in Nat /\ call.count \in Nat /\ b \in Nat
      /\ b \in Sectors /\ b + 1 \in Sectors /\ s \in {b, b + 1}
      /\ Base(b) = b /\ Base(b + 1) = b
  BY <1>1, BaseFacts, RequestFacts DEF Sectors
<1>3. CASE q \in {b, b + 1}
  <2>1. Target(b) \in [Rows -> RowValue] /\ Target(b + 1) \in [Rows -> RowValue]
    BY <1>2, TargetType
  <2>2. \A r \in PageRows : flash'[SectorOf(b, r)][RowOf(r)] = page.temp[r]
    <3> SUFFICES ASSUME NEW r \in PageRows
                 PROVE  flash'[SectorOf(b, r)][RowOf(r)] = page.temp[r]
      OBVIOUS
    <3>1. page.temp[page.row] \in RowValue
      BY <1>1
    <3>2. CASE r = page.row
      BY <3>1, <3>2, SetRowFacts
    <3>3. CASE r # page.row
      <4>1. r < page.row
        BY <3>3, FlashAssumption DEF PageRows
      <4>2. flash[SectorOf(b, r)][RowOf(r)] = page.temp[r]
        BY <4>1 DEF Progress
      <4>3. SectorOf(b, r) # SectorOf(b, page.row) \/ RowOf(r) # RowOf(page.row)
        BY <1>1, <1>2, <3>3, OneRowEach
      <4>4. SectorOf(b, r) \in Sectors /\ RowOf(r) \in Rows
        BY <1>1, RowFacts
      <4> QED BY <3>1, <4>2, <4>3, <4>4, SetRowFacts
    <3> QED BY <3>2, <3>3
  <2>3. page.temp = TwoSectors(Target(b), Target(b + 1))
    BY DEF Progress
  <2>4. flash' \in [Sectors -> [Rows -> RowValue]]
    BY <1>1, SetRowFacts
  <2>5. flash'[b] = Target(b) /\ flash'[b + 1] = Target(b + 1)
    BY <1>2, <2>1, <2>2, <2>3, <2>4, PageComplete
  <2>6. q >= s + page.takes => Target(q) = before[q]
    BY <1>1, <1>2, <1>3 DEF Target, Asked
  <2> QED BY <1>2, <1>1, <1>3, <2>5, <2>6
<1>4. CASE q \notin {b, b + 1}
  <2>1. Base(q) # Base(s)
    BY <1>1, <1>4, BaseFacts
  <2>2. flash'[q] = flash[q]
    BY <1>1, <2>1, SetRowFacts
  <2>3. flash[q] = Before(q)
    BY <2>1 DEF Progress, Aside
  <2>4. q < s + page.takes <=> q < s
    BY <1>1, <1>2, <1>4
  <2> QED BY <2>2, <2>3, <2>4 DEF Before
<1> QED BY <1>3, <1>4

LEMMA ProgressStep == Inv /\ Progress /\ [Next]_vars => Progress'
<1> SUFFICES ASSUME Inv, Progress, [Next]_vars, Writing', budget'.errors = MaxErrors
             PROVE  Progress'
  BY DEF Progress
<1>0. MaxErrors \in Nat /\ budget.errors \in 0 .. MaxErrors
  BY FlashAssumption DEF Inv
<1>1. ASSUME NEW r \in Requests, DiskWrite(r) PROVE Progress'
  <2>1. /\ page' = [pc |-> "enter", s |-> r.first, n |-> r.count]
        /\ call' = r /\ before' = flash /\ flash' = flash /\ r.first \in Nat
    BY <1>1, RequestFacts DEF DiskWrite, Sectors, Inv, InRequest
  <2>2. ASSUME NEW q \in Sectors PROVE flash'[q] = Before(q)'
    BY <2>1 DEF Before, Target, Asked, Sectors
  <2> QED BY <2>1, <2>2 DEF Progress
<1>2. ASSUME UNCHANGED <<call, before>>
      PROVE  Writing /\ \A q : Target(q)' = Target(q)
  BY <1>2 DEF Writing, Target, Asked
<1>3. CASE EnterSectorWrite
  <2>1. /\ page.pc = "enter" /\ UNCHANGED <<flash, call, before, budget>>
        /\ page' = SectorWrite(page.s, page.n, page.s - call.first)
    BY <1>3 DEF EnterSectorWrite
  <2>2. \A q \in Sectors : flash'[q] = Before(q)
    BY <1>2, <2>1 DEF Progress, Aside
  <2>3. CASE page.n = 0
    <3>1. page' = Idle
      BY <2>1, <2>3, SectorWriteFacts
    <3>2. /\ page.s \in Nat /\ call \in Requests /\ page.s = call.first + call.count
      BY <2>1, <2>3, RequestFacts DEF Inv, Pages, InRequest, Sectors
    <3>3. ASSUME NEW q \in Sectors PROVE Before(q) = Target(q)
      BY <3>2, RequestFacts DEF Before, Target, Asked, Sectors
    <3> QED BY <1>2, <2>1, <2>2, <3>1, <3>3 DEF Progress, Idle
  <2>4. CASE page.n > 0
    <3>1. /\ page'.pc = "erase" /\ page'.s = page.s
          /\ page'.temp = TwoSectors(Target(Base(page.s)), Target(Base(page.s) + 1))
      BY <1>2, <2>1, <2>4, SectorWriteFacts, TempIsTarget
    <3>2. \A q \in Sectors : Before(q)' = Before(q)
      BY <1>2, <2>1, <3>1 DEF Before
    <3> QED BY <1>2, <2>1, <2>2, <3>1, <3>2 DEF Progress
  <2> QED BY <2>1, <2>3, <2>4 DEF Inv, Pages
<1>4. CASE ErasePage
  <2>1. /\ page.pc = "erase" /\ UNCHANGED <<call, before, budget>>
        /\ page' = [page EXCEPT !.pc = "program"]
        /\ \A q \in Sectors : Base(q) # Base(page.s) => flash'[q] = flash[q]
    BY <1>4 DEF ErasePage
  <2>2. /\ page'.pc = "program" /\ page'.s = page.s /\ page'.temp = page.temp
        /\ page'.row = 1
    BY <2>1 DEF Inv, Pages, InRequest
  <2>3. ASSUME NEW q \in Sectors, Base(q) # Base(page.s) PROVE flash'[q] = Before(q)'
    BY <1>2, <2>1, <2>2, <2>3 DEF Progress, Aside, Before
  <2>4. (page.temp = TwoSectors(Target(Base(page.s)), Target(Base(page.s) + 1)))'
    BY <1>2, <2>1, <2>2 DEF Progress
  <2>5. \A r \in PageRows : ~(r < page'.row)
    BY <2>2 DEF PageRows
  <2> QED BY <2>2, <2>3, <2>4, <2>5 DEF Progress, Aside
<1>5. CASE EraseFails \/ WriteRowFails
  BY <1>0, <1>5 DEF EraseFails, WriteRowFails, Spend, Inv
<1>6. CASE WriteRow
  <2>1. /\ page.pc = "program" /\ UNCHANGED <<call, before, budget>>
        /\ SetRow(page.temp[page.row])
        /\ page.temp[page.row] \in RowValue
        /\ page.row \in PageRows /\ page.s \in Sectors /\ page.s \in Nat
    BY <1>6 DEF WriteRow, Inv, Pages, Sectors
  <2>2. CASE page.row = 2 * RowsPerSector
    <3>1. page' = Recurse
      BY <1>6, <2>2 DEF WriteRow
    <3>2. page'.pc = "enter" /\ page'.s = page.s + page.takes
      BY <3>1 DEF Recurse
    <3>3. ASSUME NEW q \in Sectors PROVE flash'[q] = Before(q)'
      BY <1>2, <2>1, <2>2, <3>2, LastRow DEF Before
    <3> QED BY <3>2, <3>3 DEF Progress
  <2>3. CASE page.row # 2 * RowsPerSector
    <3>1. page' = [page EXCEPT !.row = @ + 1]
      BY <1>6, <2>3 DEF WriteRow
    <3>2. /\ page'.pc = "program" /\ page'.s = page.s /\ page'.temp = page.temp
          /\ page'.row = page.row + 1
      BY <2>1, <3>1 DEF Inv, Pages
    <3>3. ASSUME NEW q \in Sectors, Base(q) # Base(page.s) PROVE flash'[q] = Before(q)'
      <4>1. flash'[q] = flash[q]
        BY <2>1, <3>3, SetRowFacts
      <4> QED BY <1>2, <2>1, <3>2, <3>3, <4>1 DEF Progress, Aside, Before
    <3>4. (page.temp = TwoSectors(Target(Base(page.s)), Target(Base(page.s) + 1)))'
      BY <1>2, <2>1, <3>2 DEF Progress
    <3>5. ASSUME NEW r \in PageRows, r < page.row + 1
          PROVE  flash'[SectorOf(Base(page.s), r)][RowOf(r)] = page.temp[r]
      <4>1. CASE r = page.row
        BY <2>1, <4>1, SetRowFacts
      <4>2. CASE r # page.row
        <5>1. r < page.row
          BY <2>1, <3>5, <4>2, FlashAssumption DEF PageRows
        <5>2. flash[SectorOf(Base(page.s), r)][RowOf(r)] = page.temp[r]
          BY <1>2, <2>1, <5>1 DEF Progress
        <5>3. \/ SectorOf(Base(page.s), r) # SectorOf(Base(page.s), page.row)
              \/ RowOf(r) # RowOf(page.row)
          <6>1. Base(page.s) \in Nat
            BY <2>1, BaseFacts DEF Sectors
          <6> QED BY <2>1, <4>2, <6>1, OneRowEach
        <5>4. SectorOf(Base(page.s), r) \in Sectors /\ RowOf(r) \in Rows
          BY <2>1, RowFacts
        <5> QED BY <2>1, <5>2, <5>3, <5>4, SetRowFacts
      <4> QED BY <4>1, <4>2
    <3> QED BY <3>2, <3>3, <3>4, <3>5 DEF Progress, Aside
  <2> QED BY <2>2, <2>3
<1>7. CASE Return \/ PowerCut
  BY <1>7 DEF Return, PowerCut, Writing
<1>8. CASE UNCHANGED vars
  BY <1>8 DEF vars, Progress, Writing, Target, Asked, Aside, Before
<1> QED BY <1>1, <1>3, <1>4, <1>5, <1>6, <1>7, <1>8 DEF Next

LEMMA ProgressHolds == Spec => []Progress
<1>1. Init => Progress
  BY DEF Init, Progress, Writing
<1>2. Inv /\ Progress /\ [Next]_vars => Progress'
  BY ProgressStep
<1> QED BY <1>1, <1>2, InvHolds, PTL DEF Spec

-----------------------------------------------------------------------------
(* As long as no operation has failed, only the page in work is neither old *)
(* nor new.                                                                 *)
THEOREM OnePageAtRiskHolds == Spec => []OnePageAtRisk
<1>1. Inv /\ Progress => OnePageAtRisk
  BY DEF Inv, Pages, Progress, OnePageAtRisk, Aside, Before
<1> QED BY <1>1, InvHolds, ProgressHolds, PTL

-----------------------------------------------------------------------------
(* The refinement: every step is a step of BlockDevice or changes nothing   *)
(* of it.                                                                   *)
SamePage(s) == {q \in Sectors : Base(q) = Base(s)}
Failed == budget.errors < MaxErrors

LEMMA WrittenIsTarget ==
  ASSUME Inv, Writing
  PROVE  Device!Written(before, call) = [s \in Sectors |-> Target(s)]
BY DEF Device!Written, Device!Range, Target, Asked

(* Where a power cut leaves the flash: the page in work is torn.            *)
LEMMA CutKeepsOthers ==
  ASSUME Inv, Writing, PowerCut, NEW s \in Sectors,
         page.pc \in {"erase", "program"} => Base(s) # Base(page.s)
  PROVE  flash'[s] = flash[s]
<1>1. CASE page.pc = "idle" \/ page.pc = "enter"
  BY <1>1 DEF PowerCut
<1>2. CASE page.pc = "program"
  <2>1. Torn \in RowValue
    BY DEF RowValue
  <2> QED BY <1>2, <2>1, SetRowFacts DEF PowerCut
<1>3. CASE page.pc = "erase"
  <2>1. PICK torn \in SUBSET PageRows :
          flash' = [q \in Sectors |-> [k \in Rows |->
            IF \E r \in torn : SectorOf(Base(page.s), r) = q /\ RowOf(r) = k
            THEN Torn ELSE flash[q][k]]]
    BY <1>3 DEF PowerCut
  <2>2. \A r \in torn : SectorOf(Base(page.s), r) # s
    BY <1>3, PageAsked, RowFacts
  <2>3. flash'[s] = [k \in Rows |-> flash[s][k]]
    BY <2>1, <2>2
  <2> QED BY <2>3 DEF Inv
<1> QED BY <1>1, <1>2, <1>3 DEF Inv, Pages

LEMMA CutTearsOnePage ==
  ASSUME Inv, Progress, Writing, budget.errors = MaxErrors, PowerCut
  PROVE  \E b \in Sectors :
           \A s \in Sectors \ SamePage(b) : flash'[s] \in {before[s], Target(s)}
<1>1. CASE page.pc = "idle" \/ page.pc = "enter"
  <2>1. \A s \in Sectors : flash'[s] \in {before[s], Target(s)}
    BY <1>1, CutKeepsOthers DEF Progress, Aside, Before
  <2>2. 0 \in Sectors
    BY FlashAssumption DEF Sectors, NumSectors
  <2> QED BY <2>1, <2>2
<1>2. CASE page.pc \in {"erase", "program"}
  <2>1. page.s \in Sectors
    BY <1>2, PageAsked
  <2>2. ASSUME NEW s \in Sectors \ SamePage(page.s)
        PROVE  flash'[s] \in {before[s], Target(s)}
    <3>1. s \in Sectors /\ Base(s) # Base(page.s)
      BY <2>2 DEF SamePage
    <3>2. flash[s] = Before(s)
      BY <1>2, <3>1 DEF Progress, Aside
    <3> QED BY <3>1, <3>2, CutKeepsOthers DEF Before
  <2> QED BY <2>1, <2>2
<1> QED BY <1>1, <1>2 DEF Inv, Pages

(* After a failure, too, the pages without a sector of the request keep     *)
(* what they held.                                                          *)
LEMMA OthersKept ==
  ASSUME Inv, OtherPagesKept, Writing, flash' = flash \/ PowerCut, before' = flash'
  PROVE  \A s \in Sectors :
           (\A q \in Device!Range(call) : s \notin SamePage(q)) => before'[s] = before[s]
<1> SUFFICES ASSUME NEW s \in Sectors, \A q \in Device!Range(call) : s \notin SamePage(q)
             PROVE  flash'[s] = before[s]
  OBVIOUS
<1>1. \A q \in Asked : Base(q) # Base(s)
  BY DEF Device!Range, Asked, SamePage
<1>2. flash[s] = before[s]
  BY <1>1 DEF OtherPagesKept
<1>3. flash'[s] = flash[s]
  BY <1>1, PageAsked, CutKeepsOthers
<1> QED BY <1>2, <1>3

LEMMA DeviceStep ==
  ASSUME Inv, Inv', Progress, OtherPagesKept, [Next]_vars
  PROVE  Device!Next \/ UNCHANGED <<before, call, MaxCuts - budget.cuts, Failed>>
<1>0. MaxErrors \in Nat /\ budget.errors \in 0 .. MaxErrors
  BY FlashAssumption DEF Inv
<1>1. ASSUME NEW r \in Requests, DiskWrite(r) PROVE Device!Call
  <2>1. call = NoCall /\ call' = r /\ before' = before
    BY <1>1 DEF DiskWrite
  <2>2. budget'.cuts = budget.cuts /\ budget'.errors = budget.errors
    BY <1>1 DEF DiskWrite, Spend, Inv
  <2>3. r # NoCall /\ Device!Range(r) \subseteq Sectors
    BY RequestRange, RequestFacts DEF Device!Range
  <2> QED BY <2>1, <2>2, <2>3 DEF Device!Call, Device!NoRequest, NoCall
<1>2. ASSUME EnterSectorWrite \/ ErasePage \/ WriteRow
      PROVE  UNCHANGED <<before, call, MaxCuts - budget.cuts, Failed>>
  BY <1>2 DEF EnterSectorWrite, ErasePage, WriteRow, Failed
<1>3. ASSUME EraseFails \/ WriteRowFails PROVE Device!Fail
  <2>1. Writing /\ UNCHANGED <<call, before>>
    BY <1>3 DEF EraseFails, WriteRowFails, Writing, Inv, InRequest
  <2>2. budget'.errors = budget.errors - 1 /\ budget'.cuts = budget.cuts
    BY <1>3 DEF EraseFails, WriteRowFails, Spend, Inv
  <2>3. budget'.errors < MaxErrors
    BY <1>0, <2>2
  <2> QED BY <2>1, <2>2, <2>3 DEF Device!Fail, Device!NoRequest, NoCall, Writing
<1>4. ASSUME Return PROVE Device!Return
  <2>1. /\ Writing /\ page.pc = "idle" /\ call' = NoCall
        /\ flash' = flash /\ before' = flash' /\ budget' = budget
    BY <1>4 DEF Return, Writing
  <2>2. CASE budget.errors = MaxErrors
    <3>1. \A s \in Sectors : flash[s] = Target(s)
      BY <2>1, <2>2 DEF Progress
    <3>2. flash = [s \in Sectors |-> Target(s)]
      BY <3>1 DEF Inv
    <3>3. before' = Device!Written(before, call)
      BY <2>1, <3>2, WrittenIsTarget
    <3>4. ~(budget.errors < MaxErrors)
      BY <1>0, <2>2
    <3> QED BY <2>1, <3>3, <3>4 DEF Device!Return, Device!NoRequest, NoCall, Writing
  <2>3. CASE budget.errors < MaxErrors
    BY <2>1, <2>3, OthersKept
       DEF Device!Return, Device!OtherBlocksKept, Device!NoRequest, NoCall, Writing, SamePage
  <2> QED BY <1>0, <2>2, <2>3
<1>5. ASSUME PowerCut PROVE Device!PowerCut
  <2>1. Writing /\ call' = NoCall /\ before' = flash'
    BY <1>5 DEF PowerCut, Writing
  <2>2. /\ budget'.cuts = budget.cuts - 1 /\ budget.cuts \in Nat
        /\ budget'.errors = budget.errors
    BY <1>5 DEF PowerCut, Spend, Inv
  <2>3. MaxCuts - budget'.cuts = (MaxCuts - budget.cuts) + 1
    BY <2>2, FlashAssumption
  <2>4. CASE budget.errors = MaxErrors
    <3>1. PICK b \in Sectors :
            \A s \in Sectors \ SamePage(b) : flash'[s] \in {before[s], Target(s)}
      BY <1>5, <2>1, <2>4, CutTearsOnePage
    <3>2. \A s \in Sectors : Device!Written(before, call)[s] = Target(s)
      BY <2>1, WrittenIsTarget
    <3>3. ~(budget.errors < MaxErrors)
      BY <1>0, <2>4
    <3> QED BY <2>1, <2>2, <2>3, <3>1, <3>2, <3>3
            DEF Device!PowerCut, Device!NoRequest, NoCall, Writing, SamePage
  <2>5. CASE budget.errors < MaxErrors
    BY <1>5, <2>1, <2>2, <2>3, <2>5, OthersKept
       DEF Device!PowerCut, Device!OtherBlocksKept, Device!NoRequest, NoCall, Writing,
           SamePage
  <2> QED BY <1>0, <2>4, <2>5
<1>6. ASSUME UNCHANGED vars PROVE UNCHANGED <<before, call, MaxCuts - budget.cuts, Failed>>
  BY <1>6 DEF vars, Failed
<1> QED BY <1>1, <1>2, <1>3, <1>4, <1>5, <1>6 DEF Next, Device!Next

(* Drive 0 is a disk whose writes are atomic but for a power cut, and that  *)
(* keeps other pages when its operations fail, for every size of the volume *)
(* and every request.                                                       *)
THEOREM ImplementsBlockDevice == Spec => Implements
<1>1. Init => Device!Init
  <2> SUFFICES ASSUME Init PROVE Device!Init
    OBVIOUS
  <2>1. before \in [Sectors -> [Rows -> RowValue]]
    BY InitInv DEF Inv
  <2>2. call = NoCall /\ budget.cuts = MaxCuts /\ budget.errors = MaxErrors
    BY DEF Init
  <2> QED BY <2>1, <2>2, FlashAssumption DEF Device!Init, Device!NoRequest, NoCall
<1>2. Inv /\ Inv' /\ Progress /\ OtherPagesKept /\ [Next]_vars
        => [Device!Next]_<<before, call, MaxCuts - budget.cuts, budget.errors < MaxErrors>>
  BY DeviceStep DEF Failed
<1> QED BY <1>1, <1>2, InvHolds, ProgressHolds, OtherPagesKeptHolds, PTL
        DEF Spec, Implements, Device!Spec, Device!vars
=============================================================================
