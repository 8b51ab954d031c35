----------------------------- MODULE MCFatVolume -----------------------------
(* FatVolume on two small volumes: one with a file whose two clusters lie in *)
(* one sector of the FAT, and a full directory with a file in both sectors. *)
EXTENDS FatVolume

MCSector(s, fat, dir) ==
  CASE s = 0 -> [k \in {0} |-> 0]
    [] s # 0 /\ s < DirSect(0) -> [k \in 0 .. FatPerSector - 1 |->
                          LET c == (s - 1) * FatPerSector + k
                          IN IF c \in DOMAIN fat THEN fat[c] ELSE 0]
    [] s >= DirSect(0) /\ s < DirSect(n_rootdir) -> [k \in 0 .. DirPerSector - 1 |->
                          LET i == (s - DirSect(0)) * DirPerSector + k + 1
                          IN IF i \in DOMAIN dir THEN dir[i] ELSE Entry(End, 0, 0)]
    [] s >= DirSect(n_rootdir) -> [k \in 0 .. SS - 1 |-> 9]

MCVolume(fat, dir) == [s \in 0 .. clust2sect(n_fatent - 1) |-> MCSector(s, fat, dir)]
MCOne == MCVolume([c \in {2, 3} |-> IF c = 2 THEN 3 ELSE LastLink], <<Entry("a", 3, 2)>>)
MCTwo == MCVolume([c \in 2 .. 4 |-> IF c = 3 THEN 4 ELSE LastLink],
                  <<Entry("b", 1, 2), Entry("a", 4, 3)>>)
MCImages == {MCOne, MCTwo}
MCData == {<<1>>, <<2, 2, 2>>}
=============================================================================
