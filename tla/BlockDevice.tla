----------------------------- MODULE BlockDevice -----------------------------
(***************************************************************************)
(* What FatFs can rely on of a disk behind disk_read() and disk_write(): a *)
(* write that returns has changed the sectors it names and no other, and a *)
(* power cut in the middle of one damages at most one block of sectors.    *)
(* Once the device has failed, a write may leave anything in the blocks of *)
(* its own sectors.                                                        *)
(***************************************************************************)
EXTENDS Integers

CONSTANTS Sectors,     \* the sectors of the disk, 0 .. n - 1
          Content,     \* what a sector may hold
          Block(_)     \* the sectors that are erased together with a sector

VARIABLES disk,        \* the sectors between two calls
          request,     \* the write in progress, NoRequest if there is none
          cuts,        \* how often power has failed during a write
          failed       \* an operation of the device has failed

vars == <<disk, request, cuts, failed>>

NoRequest == [first |-> 0, count |-> 0, data |-> <<>>]

Range(r) == r.first .. r.first + r.count - 1

Written(d, r) ==
  [s \in Sectors |-> IF s \in Range(r) THEN r.data[s - r.first + 1] ELSE d[s]]

OtherBlocksKept ==
  \A s \in Sectors : (\A q \in Range(request) : s \notin Block(q)) => disk'[s] = disk[s]

Init == disk \in [Sectors -> Content] /\ request = NoRequest /\ cuts = 0 /\ ~failed

Call ==
  /\ request = NoRequest /\ request' # NoRequest
  /\ Range(request') \subseteq Sectors
  /\ UNCHANGED <<disk, cuts, failed>>

Fail ==
  /\ request # NoRequest
  /\ failed'
  /\ UNCHANGED <<disk, request, cuts>>

Return ==
  /\ request # NoRequest
  /\ \/ ~failed /\ disk' = Written(disk, request)
     \/ failed /\ OtherBlocksKept
  /\ request' = NoRequest
  /\ UNCHANGED <<cuts, failed>>

(* Outside one block every sector has its old or its new content.           *)
PowerCut ==
  /\ request # NoRequest
  /\ \/ /\ ~failed
        /\ \E b \in Sectors :
             \A s \in Sectors \ Block(b) : disk'[s] \in {disk[s], Written(disk, request)[s]}
     \/ failed /\ OtherBlocksKept
  /\ request' = NoRequest
  /\ cuts' = cuts + 1
  /\ UNCHANGED failed

Next == Call \/ Fail \/ Return \/ PowerCut

Spec == Init /\ [][Next]_vars
=============================================================================
