---------------------------- MODULE MCPs2Receive ----------------------------
(* Ps2Receive with bytes that a keyboard sends: NumLock and a prefix. *)
EXTENDS Ps2Receive

Low(n) == [i \in 1 .. 8 |-> (n \div 2 ^ (i - 1)) % 2]
MCNumLock == Low(119)                     \* 0x77
MCBytes == {MCNumLock, Low(240)}          \* 0xF0
=============================================================================
