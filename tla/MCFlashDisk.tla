---------------------------- MODULE MCFlashDisk ----------------------------
(* FlashDisk with sectors of two rows. *)
EXTENDS FlashDisk

(* Every row of the image is another, so that a row in the wrong place      *)
(* shows.                                                                   *)
MCImage == [s \in Sectors |-> [k \in 1 .. 2 |-> <<"image", s, k>>]]
MCContents == {[k \in 1 .. 2 |-> <<c, 0, k>>] : c \in {"a", "b"}}
MCData == UNION {{f[k] : k \in 1 .. 2} :
                   f \in MCContents \cup {MCImage[s] : s \in Sectors}}
=============================================================================
