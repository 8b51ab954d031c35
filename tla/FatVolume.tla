------------------------------ MODULE FatVolume ------------------------------
(***************************************************************************)
(* FatFs as the system uses it: the FAT and the root directory behind one  *)
(* sector window, a sector buffer in every open file, and power cuts (or   *)
(* exit(), which mounts the volume anew) between any two sector writes.    *)
(*                                                                         *)
(* A call is one step.  It leaves the sector writes it made in `log', and  *)
(* a cut in the call leaves any prefix of them on the disk.  A cluster is  *)
(* one sector, FAT entries do not straddle sectors, and the volume has the *)
(* root directory of FAT12/16.  A second FAT is written behind the first   *)
(* and never read.                                                         *)
(***************************************************************************)
EXTENDS Integers, Sequences, FiniteSets

CONSTANTS
  Names, Files,           \* file names; FIL objects
  n_fatent,               \* clusters are 2 .. n_fatent - 1
  FatPerSector, DirPerSector, n_rootdir,
  SS,                     \* bytes of a sector
  Data,                   \* what f_write() is given: sequences of bytes
  Images,                 \* volumes to start from
  Offsets,                \* where f_lseek() goes
  MaxSize, MaxCalls, MaxCuts

ASSUME VolumeAssumption ==
  /\ n_fatent \in Nat /\ n_fatent > 2
  /\ MaxSize \in Nat /\ Offsets \subseteq 0 .. MaxSize
  /\ {FatPerSector, DirPerSector, n_rootdir, SS} \subseteq Nat \ {0}
  /\ n_rootdir % DirPerSector = 0
  /\ {MaxCalls, MaxCuts} \subseteq Nat

VARIABLES
  vol,        \* the disk, and FATFS: win, winsect, wflag, last_clust
  fil,        \* the FIL objects
  content,    \* what each file is to hold
  promised,   \* what a cut must not change, where nothing is being changed
  careless,   \* power was cut where the code says that it must not be
  budget

vars == <<vol, fil, content, promised, careless, budget>>

-----------------------------------------------------------------------------
(* Sectors: 0 is the boot sector, then the FAT, the directory, the data.    *)
LastLink == n_fatent
FatSect(c) == 1 + c \div FatPerSector
DirSect(i) == 2 + (n_fatent - 1) \div FatPerSector + i \div DirPerSector
clust2sect(c) == DirSect(n_rootdir) + c

End == ""                \* first byte 0: nothing behind it
DDEM == "deleted"
Entry(name, size, clust) == [name |-> name, size |-> size, clust |-> clust]

(* The window.                                                              *)
DiskWrite(v, sect, x) ==
  [v EXCEPT !.disk[sect] = x, !.log = Append(@, [sect |-> sect, data |-> x])]

sync_window(v) ==
  IF v.wflag THEN [DiskWrite(v, v.winsect, v.win) EXCEPT !.wflag = FALSE] ELSE v

move_window(v, sect) ==
  IF sect = v.winsect THEN v
  ELSE LET u == sync_window(v) IN [u EXCEPT !.win = u.disk[sect], !.winsect = sect]

FatWindow(v, c) == move_window(v, FatSect(c))
get_fat(v, c) == FatWindow(v, c).win[c % FatPerSector]
put_fat(v, c, x) ==
  [FatWindow(v, c) EXCEPT !.win[c % FatPerSector] = x, !.wflag = TRUE]

RECURSIVE remove_chain(_, _)
remove_chain(v, c) ==
  IF c >= n_fatent THEN v
  ELSE IF get_fat(v, c) = 0 THEN FatWindow(v, c)
  ELSE remove_chain(put_fat(v, c, 0), get_fat(v, c))

(* create_chain() looks at every cluster from scl + 1 on, round the volume. *)
RECURSIVE FreeCluster(_, _, _)
FreeCluster(v, c, scl) ==
  LET n == IF c + 1 >= n_fatent THEN 2 ELSE c + 1
  IN CASE c + 1 >= n_fatent /\ 2 > scl -> [v |-> v, c |-> 0]
       [] get_fat(v, n) = 0 -> [v |-> FatWindow(v, n), c |-> n]
       [] n = scl -> [v |-> FatWindow(v, n), c |-> 0]
       [] OTHER -> FreeCluster(FatWindow(v, n), n, scl)

(* Faulty variant: the new cluster is linked and not marked.                *)
create_chain_Unmarked(v, c) ==
  LET scl == IF c # 0 THEN c
             ELSE IF v.last_clust \in 1 .. n_fatent - 1 THEN v.last_clust ELSE 1
      new == FreeCluster(v, scl, scl)
  IN CASE c # 0 /\ get_fat(v, c) < n_fatent -> [v |-> FatWindow(v, c), c |-> get_fat(v, c)]
       [] new.c = 0 -> new
       [] OTHER ->
            [v |-> [(IF c = 0 THEN new.v ELSE put_fat(new.v, c, new.c))
                     EXCEPT !.last_clust = new.c],
             c |-> new.c]

create_chain(v, c) ==
  IF c # 0 /\ get_fat(v, c) < n_fatent
  THEN [v |-> FatWindow(v, c), c |-> get_fat(v, c)]
  ELSE LET scl == IF c # 0 THEN c
                  ELSE IF v.last_clust \in 1 .. n_fatent - 1 THEN v.last_clust ELSE 1
           u == IF c # 0 THEN FatWindow(v, c) ELSE v
           new == FreeCluster(u, scl, scl)
           marked == put_fat(new.v, new.c, LastLink)
           linked == IF c # 0 THEN put_fat(marked, c, new.c) ELSE marked
       IN IF new.c = 0 THEN new
          ELSE [v |-> [linked EXCEPT !.last_clust = new.c], c |-> new.c]

-----------------------------------------------------------------------------
(* The directory: entry i of the window that DirWindow() leaves.            *)
DirWindow(v, i) == move_window(v, DirSect(i))
DirEntry(v, i) == DirWindow(v, i).win[i % DirPerSector]
SetEntry(v, i, e) ==
  [DirWindow(v, i) EXCEPT !.win[i % DirPerSector] = e, !.wflag = TRUE]
NoEntry == -1

RECURSIVE Scan(_, _, _, _)
Scan(v, i, wanted, stop) ==
  CASE i = n_rootdir -> [v |-> v, i |-> NoEntry]
    [] i < n_rootdir /\ DirEntry(v, i).name \in stop -> [v |-> DirWindow(v, i), i |-> NoEntry]
    [] i < n_rootdir /\ DirEntry(v, i).name \in wanted -> [v |-> DirWindow(v, i), i |-> i]
    [] OTHER -> Scan(DirWindow(v, i), i + 1, wanted, stop)

dir_find(v, name) == Scan(v, 0, {name}, {End})
dir_alloc(v) == Scan(v, 0, {DDEM, End}, {})
dir_register(v, name) ==
  LET a == dir_alloc(v)
  IN IF a.i = NoEntry THEN a
     ELSE [v |-> SetEntry(a.v, a.i, Entry(name, 0, 0)), i |-> a.i]
dir_remove(v, i) == SetEntry(v, i, Entry(DDEM, 0, 0))

-----------------------------------------------------------------------------
(* Files.  The calls return the volume and the FIL; truncated is no part of *)
(* the program, it remembers f_truncate() until the next f_sync().          *)
Closed == [open |-> FALSE, name |-> End]
Modes == {"r", "r+", "w"}
Writable(f) == f.open /\ f.mode # "r"
Offset(f) == f.fptr % SS
Result(v, f) == [v |-> v, f |-> f]

Opened(v, i, mode, written) ==
  LET e == v.win[i % DirPerSector]
  IN Result(v, [open |-> TRUE, name |-> e.name, mode |-> mode, written |-> written,
                dirty |-> FALSE, sclust |-> e.clust, clust |-> 0, fsize |-> e.size,
                fptr |-> 0, dsect |-> 0, buf |-> [k \in 0 .. SS - 1 |-> 0],
                dir |-> i, truncated |-> FALSE])

(* Faulty variant: the chain is removed before the entry lets go of it.     *)
Overwrite_ChainFirst(v, i) ==
  LET cl == v.win[i % DirPerSector].clust
      freed == [remove_chain(v, cl) EXCEPT !.last_clust = cl - 1]
      back == IF cl = 0 THEN v ELSE move_window(freed, DirSect(i))
  IN SetEntry(back, i, [back.win[i % DirPerSector] EXCEPT !.size = 0, !.clust = 0])

(* FA_CREATE_ALWAYS of a file that exists.                                  *)
Overwrite(v, i) ==
  LET cl == v.win[i % DirPerSector].clust
      reset == SetEntry(v, i, [v.win[i % DirPerSector] EXCEPT !.size = 0, !.clust = 0])
      freed == [remove_chain(reset, cl) EXCEPT !.last_clust = cl - 1]
  IN IF cl = 0 THEN reset ELSE move_window(freed, DirSect(i))

f_open(v, name, mode) ==
  LET found == dir_find(v, name)
      new == dir_register(found.v, name)
  IN CASE found.i # NoEntry /\ mode = "w" ->
            Opened(Overwrite(found.v, found.i), found.i, mode, TRUE)
       [] found.i = NoEntry /\ mode = "w" /\ new.i # NoEntry ->
            Opened(new.v, new.i, mode, TRUE)
       [] found.i = NoEntry /\ mode = "w" /\ new.i = NoEntry -> Result(new.v, Closed)
       [] found.i # NoEntry /\ mode # "w" -> Opened(found.v, found.i, mode, FALSE)
       [] found.i = NoEntry /\ mode # "w" -> Result(found.v, Closed)

WriteBack(v, f) ==
  IF f.dirty THEN Result(DiskWrite(v, f.dsect, f.buf), [f EXCEPT !.dirty = FALSE])
  ELSE Result(v, f)

(* The next cluster, at a cluster boundary: 0 when there is none.           *)
NextCluster(v, f) ==
  CASE f.fptr = 0 /\ f.sclust # 0 -> [v |-> v, c |-> f.sclust]
    [] f.fptr = 0 /\ f.sclust = 0 -> create_chain(v, 0)
    [] f.fptr # 0 -> create_chain(v, f.clust)
InCluster(f, c) == [f EXCEPT !.clust = c, !.sclust = IF @ = 0 THEN c ELSE @]

Patch(buf, at, bytes) ==
  [k \in DOMAIN buf |-> IF k - at + 1 \in DOMAIN bytes THEN bytes[k - at + 1] ELSE buf[k]]
Part(bytes, n) == SubSeq(bytes, 1, IF n < Len(bytes) THEN n ELSE Len(bytes))
Without(bytes, n) == SubSeq(bytes, n + 1, Len(bytes))

(* Bytes into the file buffer, up to the end of its sector.                 *)
ToBuffer(f, bytes) ==
  LET part == Part(bytes, SS - Offset(f))
  IN [f EXCEPT !.buf = Patch(@, Offset(f), part), !.dirty = TRUE, !.fptr = @ + Len(part)]

(* A whole sector, past the buffer.                                         *)
Direct(v, f, sect, bytes) ==
  LET x == [k \in 0 .. SS - 1 |-> bytes[k + 1]]
  IN Result(DiskWrite(v, sect, x),
            [f EXCEPT !.fptr = @ + SS, !.buf = IF f.dsect = sect THEN x ELSE @,
                      !.dirty = IF f.dsect = sect THEN FALSE ELSE @])

Fill(v, f, sect) ==
  [f EXCEPT !.buf = IF f.dsect # sect /\ f.fptr < f.fsize THEN v.disk[sect] ELSE @,
            !.dsect = sect]

RECURSIVE WriteBytes(_, _, _)
WriteBytes(v, f, bytes) ==
  LET inside == ToBuffer(f, bytes)
      More(r) == WriteBytes(r.v, r.f, Without(bytes, SS))
      Into(w, sect) == IF Len(bytes) >= SS THEN More(Direct(w.v, w.f, sect, bytes))
                       ELSE Result(w.v, ToBuffer(Fill(w.v, w.f, sect), bytes))
      Beyond(next) == IF next.c = 0 THEN Result(next.v, f)   \* disk full
                      ELSE Into(WriteBack(next.v, InCluster(f, next.c)), clust2sect(next.c))
  IN CASE bytes = <<>> -> Result(v, f)
       [] bytes # <<>> /\ Offset(f) # 0 ->
            WriteBytes(v, inside, Without(bytes, inside.fptr - f.fptr))
       [] bytes # <<>> /\ Offset(f) = 0 -> Beyond(NextCluster(v, f))

AtLeast(a, b) == IF a > b THEN a ELSE b
Written(r) == Result(r.v, [r.f EXCEPT !.fsize = AtLeast(@, r.f.fptr), !.written = TRUE])
f_write(v, f, bytes) == Written(WriteBytes(v, f, bytes))

(* f_read(): got is what has been read.                                     *)
RECURSIVE ReadBytes(_, _, _, _)
ReadBytes(v, f, n, got) ==
  LET c == IF f.fptr = 0 THEN f.sclust ELSE get_fat(v, f.clust)
      u == IF f.fptr = 0 THEN v ELSE FatWindow(v, f.clust)
      sect == clust2sect(c)
      at == [f EXCEPT !.clust = c]
      w == IF f.dsect = sect THEN Result(u, at) ELSE WriteBack(u, at)
      filled == [w.f EXCEPT !.buf = IF @ # w.v.disk[sect] /\ f.dsect # sect
                                    THEN w.v.disk[sect] ELSE @, !.dsect = sect]
      Take(v1, f1, x, k) ==
        ReadBytes(v1, [f1 EXCEPT !.fptr = @ + k], n - k,
                  got \o [i \in 1 .. k |-> x[Offset(f1) + i - 1]])
      rest == SS - Offset(f)
      part == IF rest < n THEN rest ELSE n
  IN CASE n = 0 -> [v |-> v, f |-> f, got |-> got]
       [] n # 0 /\ Offset(f) # 0 -> Take(v, f, f.buf, part)
       [] n # 0 /\ Offset(f) = 0 ->
            CASE c \notin 2 .. n_fatent - 1 -> [v |-> u, f |-> f, got |-> got]  \* FR_INT_ERR
              [] c \in 2 .. n_fatent - 1 /\ n >= SS ->
                   Take(u, at, IF f.dirty /\ f.dsect = sect THEN f.buf ELSE u.disk[sect], SS)
              [] c \in 2 .. n_fatent - 1 /\ n < SS -> Take(w.v, filled, filled.buf, part)
f_read(v, f, n) ==
  ReadBytes(v, f, IF n > f.fsize - f.fptr THEN f.fsize - f.fptr ELSE n, <<>>)

(* f_lseek(): follow the chain from f.clust; ofs counts from f.fptr.        *)
RECURSIVE Follow(_, _, _)
Follow(v, f, ofs) ==
  LET next == IF Writable(f) THEN create_chain(v, f.clust)
              ELSE [v |-> FatWindow(v, f.clust), c |-> get_fat(v, f.clust)]
  IN CASE ofs <= SS -> Result(v, [f EXCEPT !.fptr = @ + ofs])
       [] ofs > SS /\ next.c = 0 -> Result(next.v, [f EXCEPT !.fptr = @ + SS])
       [] ofs > SS /\ next.c # 0 ->
            Follow(next.v, [f EXCEPT !.fptr = @ + SS, !.clust = next.c], ofs - SS)

FromFirst(first, f, ofs) ==
  IF first.c = 0 THEN Result(first.v, [f EXCEPT !.fptr = 0])
  ELSE Follow(first.v, [f EXCEPT !.fptr = 0, !.sclust = first.c, !.clust = first.c], ofs)
Onward(v, f, ofs) ==
  LET base == ((f.fptr - 1) \div SS) * SS
  IN Follow(v, [f EXCEPT !.fptr = base], ofs - base)
Seek(v, f, ofs) ==
  CASE ofs = 0 -> Result(v, [f EXCEPT !.fptr = 0])
    [] ofs # 0 /\ f.fptr > 0 /\ (ofs - 1) \div SS >= (f.fptr - 1) \div SS -> Onward(v, f, ofs)
    [] OTHER -> FromFirst(IF f.sclust = 0 THEN create_chain(v, 0)
                          ELSE [v |-> v, c |-> f.sclust], f, ofs)

(* The buffer at the new place, and the size when the file grew.            *)
Load(w, sect) == Result(w.v, [w.f EXCEPT !.buf = w.v.disk[sect], !.dsect = sect])
Loaded(r) ==
  LET sect == clust2sect(r.f.clust)
  IN IF Offset(r.f) # 0 /\ sect # r.f.dsect THEN Load(WriteBack(r.v, r.f), sect) ELSE r
Grown(r) ==
  IF r.f.fptr > r.f.fsize
  THEN Result(r.v, [r.f EXCEPT !.fsize = r.f.fptr, !.written = TRUE])
  ELSE r

f_lseek(v, f, to) ==
  Grown(Loaded(Seek(v, f, IF to > f.fsize /\ ~Writable(f) THEN f.fsize ELSE to)))

f_truncate(v, f) ==
  LET cut == [f EXCEPT !.fsize = f.fptr, !.written = TRUE, !.truncated = TRUE]
      next == get_fat(v, f.clust)
      u == CASE f.fptr = 0 -> remove_chain(v, f.sclust)
             [] f.fptr # 0 /\ next < n_fatent ->
                  remove_chain(put_fat(FatWindow(v, f.clust), f.clust, LastLink), next)
             [] f.fptr # 0 /\ next >= n_fatent -> FatWindow(v, f.clust)
  IN IF f.fsize > f.fptr
     THEN WriteBack(u, [cut EXCEPT !.sclust = IF f.fptr = 0 THEN 0 ELSE @])
     ELSE Result(v, f)

(* Faulty variant: the entry stays in the window.                           *)
f_sync_Unflushed(v, f) ==
  LET r == WriteBack(v, f)
  IN IF f.written
     THEN Result(SetEntry(r.v, f.dir, Entry(f.name, f.fsize, f.sclust)),
                 [r.f EXCEPT !.written = FALSE, !.truncated = FALSE])
     ELSE Result(v, f)
f_sync(v, f) ==
  LET r == WriteBack(v, f)
      u == SetEntry(r.v, f.dir, Entry(f.name, f.fsize, f.sclust))
  IN IF f.written
     THEN Result(sync_window(u), [r.f EXCEPT !.written = FALSE, !.truncated = FALSE])
     ELSE Result(v, f)

(* Faulty variant: the chain is left allocated.                             *)
f_unlink_Leak(v, i) == sync_window(dir_remove(v, i))
f_unlink(v, i) ==
  LET cl == DirEntry(v, i).clust
      u == dir_remove(v, i)
  IN sync_window(IF cl # 0 THEN remove_chain(u, cl) ELSE u)

(* The new entry, a copy of the old; then the old one goes.                 *)
f_rename(v, i, name) ==
  LET e == DirEntry(v, i)
      free == dir_find(DirWindow(v, i), name).v
      new == dir_register(free, name)
  IN IF new.i = NoEntry THEN new.v
     ELSE sync_window(dir_remove(SetEntry(new.v, new.i, [e EXCEPT !.name = name]), i))

-----------------------------------------------------------------------------
(* What the disk holds: read as after a reset.                              *)
FatOf(d, c) == d[FatSect(c)][c % FatPerSector]
DirOf(d, i) == d[DirSect(i)][i % DirPerSector]
RECURSIVE ChainOf(_, _, _)
ChainOf(d, c, most) ==
  IF most = 0 \/ c \notin 2 .. n_fatent - 1 THEN <<>>
  ELSE <<c>> \o ChainOf(d, FatOf(d, c), most - 1)
Chain(d, c) == ChainOf(d, c, n_fatent)
Used(d) == {i \in 0 .. n_rootdir - 1 : DirOf(d, i).name \in Names}
Clusters(d, i) == LET ch == Chain(d, DirOf(d, i).clust) IN {ch[k] : k \in DOMAIN ch}

Absent == <<-1>>
Unsure == <<-2>>
Broken == <<-3>>
Junk == 0
DiskContent(d, name) ==
  LET at == {i \in Used(d) : DirOf(d, i).name = name}
      e == DirOf(d, CHOOSE i \in at : TRUE)
      chain == Chain(d, e.clust)
  IN CASE at = {} -> Absent
       [] at # {} /\ Len(chain) * SS < e.size -> Broken
       [] at # {} /\ Len(chain) * SS >= e.size ->
            [k \in 1 .. e.size |-> d[clust2sect(chain[1 + (k - 1) \div SS])][(k - 1) % SS]]

(* f_mount() and find_volume().                                             *)
Mounted(d) == [disk |-> d, win |-> d[0], winsect |-> 0, wflag |-> FALSE,
               last_clust |-> 0, log |-> <<>>]

Init ==
  /\ \E d \in Images : /\ vol = Mounted(d)
                       /\ content = [n \in Names |-> DiskContent(d, n)]
  /\ promised = content
  /\ fil = [fp \in Files |-> Closed]
  /\ careless = FALSE
  /\ budget = [calls |-> MaxCalls, cuts |-> MaxCuts]

(* A cut after k of the writes of a call: RAM is lost, the volume is mounted *)
(* again.  What was not promised is what the disk now holds.                *)
AfterWrites(d, log, k) ==
  [s \in DOMAIN d |->
     LET at == {i \in 1 .. k : log[i].sect = s}
     IN IF at = {} THEN d[s] ELSE log[CHOOSE i \in at : \A j \in at : i >= j].data]

Cut(v, names, critical) ==
  /\ budget.cuts > 0
  /\ budget' = [budget EXCEPT !.cuts = @ - 1]
  /\ \E k \in 0 .. Len(v.log) :
       LET d == AfterWrites(vol.disk, v.log, k)
       IN /\ vol' = Mounted(d)
          /\ promised' = [n \in Names |->
                            IF n \in names \/ promised[n] = Unsure
                            THEN DiskContent(d, n) ELSE promised[n]]
  /\ content' = promised'
  /\ fil' = [fp \in Files |-> Closed]
  /\ careless' = (critical \/ \E fp \in Files : fil[fp].open /\ fil[fp].truncated)

(* A call that leaves v and the FILs f.                                      *)
Return(v, f, contents, promises) ==
  /\ vol' = [v EXCEPT !.log = <<>>]
  /\ fil' = f
  /\ content' = contents
  /\ promised' = promises
  /\ budget' = [budget EXCEPT !.calls = @ - 1]
  /\ UNCHANGED careless

MayCall == budget.calls > 0 /\ ~careless
On(fp, n) == fil[fp].open /\ fil[fp].name = n

(* ffconf.h, _FS_LOCK: the program avoids opening a file for writing, or     *)
(* removing or renaming it, while it is open.                               *)
FOpen(fp, n, mode) ==
  /\ MayCall /\ ~fil[fp].open
  /\ \A other \in Files : On(other, n) => mode = "r" /\ fil[other].mode = "r"
  /\ \E r \in {f_open(vol, n, mode)} :
     LET begun == r.f.open /\ mode = "w"
     IN \/ Return(r.v, [fil EXCEPT ![fp] = r.f], [content EXCEPT ![n] = IF begun THEN <<>> ELSE @],
                  [promised EXCEPT ![n] = IF begun THEN Unsure ELSE @])
        \/ r.v.log # <<>> /\ Cut(r.v, {n}, FALSE)

Overlay(c, at, bytes) ==
  [k \in 1 .. AtLeast(Len(c), at + Len(bytes)) |->
     CASE k - at \in DOMAIN bytes -> bytes[k - at]
       [] k - at \notin DOMAIN bytes /\ k \in DOMAIN c -> c[k]
       [] OTHER -> Junk]

FWrite(fp, bytes) ==
  LET f == fil[fp]
  IN /\ MayCall /\ Writable(f) /\ f.fptr + Len(bytes) <= MaxSize
     /\ \E r \in {f_write(vol, f, bytes)} :
        \/ Return(r.v, [fil EXCEPT ![fp] = r.f],
                  [content EXCEPT ![f.name] = Overlay(@, f.fptr, Part(bytes, r.f.fptr - f.fptr))],
                  [promised EXCEPT ![f.name] = Unsure])
        \/ r.v.log # <<>> /\ Cut(r.v, {f.name}, FALSE)

FRead(fp, n) ==
  LET f == fil[fp]
  IN /\ MayCall /\ f.open /\ f.mode # "w"
     /\ \E r \in {f_read(vol, f, n)} :
        \/ Return(r.v, [fil EXCEPT ![fp] = r.f], content, promised)
        \/ r.v.log # <<>> /\ Cut(r.v, {f.name}, FALSE)

FLseek(fp, to) ==
  LET f == fil[fp]
  IN /\ MayCall /\ f.open /\ to # f.fptr
     /\ \E r \in {f_lseek(vol, f, to)} :
        \/ Return(r.v, [fil EXCEPT ![fp] = r.f],
                  [content EXCEPT ![f.name] = Overlay(@, r.f.fsize, <<>>)],
                  [promised EXCEPT ![f.name] = IF r.f.fsize > f.fsize THEN Unsure ELSE @])
        \/ r.v.log # <<>> /\ Cut(r.v, {f.name}, FALSE)

FTruncate(fp) ==
  LET f == fil[fp]
  IN /\ MayCall /\ Writable(f) /\ f.fsize > f.fptr
     /\ \E r \in {f_truncate(vol, f)} :
        \/ Return(r.v, [fil EXCEPT ![fp] = r.f], [content EXCEPT ![f.name] = Part(@, f.fptr)],
                  [promised EXCEPT ![f.name] = Unsure])
        \/ r.v.log # <<>> /\ Cut(r.v, {f.name}, TRUE)

FClose(fp) ==
  LET f == fil[fp]
      r == f_sync(vol, f)
  IN /\ MayCall /\ f.open
     /\ \/ Return(r.v, [fil EXCEPT ![fp] = Closed], content,
                  [promised EXCEPT ![f.name] = IF Writable(f) THEN content[f.name] ELSE @])
        \/ r.v.log # <<>> /\ Cut(r.v, {f.name}, FALSE)

FUnlink(n) ==
  LET at == dir_find(vol, n)
      v == f_unlink(at.v, at.i)
  IN /\ MayCall /\ at.i # NoEntry /\ \A other \in Files : ~On(other, n)
     /\ \/ Return(v, fil, [content EXCEPT ![n] = Absent],
                  [promised EXCEPT ![n] = Absent])
        \/ v.log # <<>> /\ Cut(v, {n}, FALSE)

FRename(n, m) ==
  \E at \in {dir_find(vol, n)} :
     /\ MayCall /\ at.i # NoEntry /\ n # m /\ dir_find(at.v, m).i = NoEntry
     /\ \A other \in Files : ~On(other, n) /\ ~On(other, m)
     /\ \E v \in {f_rename(at.v, at.i, m)} :
        LET moved == dir_find(v, m).i # NoEntry
        IN \/ Return(v, fil,
                     IF moved THEN [content EXCEPT ![n] = Absent, ![m] = content[n]] ELSE content,
                     IF moved THEN [promised EXCEPT ![n] = Absent, ![m] = content[n]]
                              ELSE promised)
           \/ v.log # <<>> /\ Cut(v, {n, m}, moved)

(* Power goes between two calls, or exit() enters main() again.             *)
PowerCut == ~careless /\ Cut([vol EXCEPT !.log = <<>>], {}, FALSE)

Next ==
  \/ \E fp \in Files :
       \/ \E n \in Names, mode \in Modes : FOpen(fp, n, mode)
       \/ \E bytes \in Data : FWrite(fp, bytes)
       \/ \E n \in 1 .. SS : FRead(fp, n)
       \/ \E to \in Offsets : FLseek(fp, to)
       \/ FTruncate(fp) \/ FClose(fp)
  \/ \E n, m \in Names : FUnlink(n) \/ FRename(n, m)
  \/ PowerCut

Spec == Init /\ [][Next]_vars
-----------------------------------------------------------------------------
TypeOK ==
  /\ vol.last_clust \in 0 .. n_fatent - 1 /\ vol.winsect \in DOMAIN vol.disk
  /\ vol.win \in {vol.disk[vol.winsect]} \/ vol.wflag
  /\ \A fp \in Files : fil[fp].open => fil[fp].fptr \in 0 .. fil[fp].fsize

(* While every cut came where the code allows one, chains on the disk belong *)
(* to one file each, end, and hold all of it.                               *)
Exposed == careless \/ \E fp \in Files : fil[fp].open /\ fil[fp].truncated
NoCrossLinks ==
  ~Exposed =>
    \A i \in Used(vol.disk) :
      /\ \A j \in Used(vol.disk) : i # j =>
           Clusters(vol.disk, i) \cap Clusters(vol.disk, j) = {}
      /\ \A c \in Clusters(vol.disk, i) : FatOf(vol.disk, c) # 0
      /\ DiskContent(vol.disk, DirOf(vol.disk, i).name) # Broken

(* A file that no call is changing survives any cut as it was when it was    *)
(* closed, renamed or removed.                                              *)
Agrees(c, got) ==
  Len(c) = Len(got) /\ \A k \in DOMAIN c : c[k] \in {Junk, got[k]}
Durable ==
  ~Exposed => \A n \in Names :
                promised[n] # Unsure => Agrees(promised[n], DiskContent(vol.disk, n))

(* What is read through a FIL, whatever lies in the window, in its buffer    *)
(* and on the disk, is what was written.                                    *)
ReadsBack ==
  ~careless => \A fp \in Files :
    fil[fp].open =>
      \E at0 \in {f_lseek(vol, fil[fp], 0)} :
        Agrees(content[fil[fp].name], f_read(at0.v, at0.f, at0.f.fsize).got)

(* Without a cut no cluster is lost: when all is closed, the clusters in use *)
(* are those of the files.                                                  *)
NoLostClusters ==
  (budget.cuts = MaxCuts /\ \A fp \in Files : ~fil[fp].open) =>
    LET d == sync_window(vol).disk
    IN {c \in 2 .. n_fatent - 1 : FatOf(d, c) # 0} = UNION {Clusters(d, i) : i \in Used(d)}
=============================================================================
