---------------------------- MODULE KeycodeRing ----------------------------
(***************************************************************************)
(* keycodebuf, the ring of key codes between the Timer5 interrupt          *)
(* (readscancode() stores) and the program (ps2readkey() loads).  There is *)
(* no lock: the interrupt runs to its end whenever it comes, so its step   *)
(* is one action, while ps2readkey() is cut at every access the interrupt  *)
(* can come between.                                                       *)
(*                                                                         *)
(* `vkey=*keycodebufp2++' leaves the compiler free to store the advanced   *)
(* pointer before or after the load of the slot (keycodebuf is not         *)
(* volatile), and either way the pointer stands one past the end of the    *)
(* array until the next statement wraps it.                                *)
(***************************************************************************)
EXTENDS Integers, Sequences

CONSTANTS KEYCODEBUFSIZE,   \* slots of the ring (16 in the code)
          Keycodes          \* the key codes the interrupt can store

ASSUME SizeAssumption == KEYCODEBUFSIZE \in Nat /\ KEYCODEBUFSIZE >= 2
ASSUME KeycodesAssumption == \A k \in Keycodes : k \in Nat /\ k # 0

VARIABLES keycodebuf,       \* the slots
          keycodebufp1,     \* index of the next slot to write
          keycodebufp2,     \* index of the next slot to read
          vkey,             \* global result of ps2readkey(), 0: no key
          pc,               \* where ps2readkey() is
          slot              \* the value keycodebufp2 had when it was loaded

vars == <<keycodebuf, keycodebufp1, keycodebufp2, vkey, pc, slot>>

Slots == 0 .. KEYCODEBUFSIZE - 1

Init ==
  /\ keycodebuf \in [Slots -> {0}]
  /\ keycodebufp1 = 0 /\ keycodebufp2 = 0
  /\ vkey = 0
  /\ pc = "idle"
  /\ slot = 0

(***************************************************************************)
(* The end of readscancode(), in the interrupt.                            *)
(***************************************************************************)
(* Faulty variants of the definitions below, which the properties detect. *)
Full_NoWrapCase == keycodebufp1 + 1 = keycodebufp2
Full_AlwaysAtEnd ==
  keycodebufp1 + 1 = keycodebufp2 \/ keycodebufp1 = KEYCODEBUFSIZE - 1
Full ==
  \/ keycodebufp1 + 1 = keycodebufp2
  \/ keycodebufp1 = KEYCODEBUFSIZE - 1 /\ keycodebufp2 = 0

Successor(p) == IF p + 1 = KEYCODEBUFSIZE THEN 0 ELSE p + 1

Store_NoFullTest(k) ==
  /\ keycodebuf' = [keycodebuf EXCEPT ![keycodebufp1] = k]
  /\ keycodebufp1' = Successor(keycodebufp1)
  /\ UNCHANGED <<keycodebufp2, vkey, pc, slot>>

Store(k) ==
  /\ ~Full
  /\ keycodebuf' = [keycodebuf EXCEPT ![keycodebufp1] = k]
  /\ keycodebufp1' = Successor(keycodebufp1)
  /\ UNCHANGED <<keycodebufp2, vkey, pc, slot>>

(* A full ring ignores the key. *)
Ignore(k) == Full /\ UNCHANGED vars

(***************************************************************************)
(* ps2readkey(), in the program.                                           *)
(***************************************************************************)
(* vkey=0; if(keycodebufp1==keycodebufp2) return 0; *)
FindEmpty ==
  /\ pc = "idle" /\ keycodebufp1 = keycodebufp2
  /\ vkey' = 0
  /\ UNCHANGED <<keycodebuf, keycodebufp1, keycodebufp2, pc, slot>>

FindKey_Ordered ==
  /\ pc = "idle" /\ keycodebufp1 > keycodebufp2
  /\ vkey' = 0
  /\ slot' = keycodebufp2
  /\ pc' = "found"
  /\ UNCHANGED <<keycodebuf, keycodebufp1, keycodebufp2>>

FindKey ==
  /\ pc = "idle" /\ keycodebufp1 # keycodebufp2
  /\ vkey' = 0
  /\ slot' = keycodebufp2
  /\ pc' = "found"
  /\ UNCHANGED <<keycodebuf, keycodebufp1, keycodebufp2>>

(* The load of the slot, before or after the store of the pointer. *)
Load ==
  /\ pc \in {"found", "advanced"}
  /\ vkey' = keycodebuf[slot]
  /\ pc' = IF pc = "found" THEN "loaded" ELSE "wrap"
  /\ UNCHANGED <<keycodebuf, keycodebufp1, keycodebufp2, slot>>

(* The store of keycodebufp2+1. *)
Advance ==
  /\ pc \in {"found", "loaded"}
  /\ keycodebufp2' = slot + 1
  /\ pc' = IF pc = "found" THEN "advanced" ELSE "wrap"
  /\ UNCHANGED <<keycodebuf, keycodebufp1, vkey, slot>>

(* if(keycodebufp2==keycodebuf+KEYCODEBUFSIZE) keycodebufp2=keycodebuf; and return *)
Wrap ==
  /\ pc = "wrap"
  /\ keycodebufp2' = IF keycodebufp2 = KEYCODEBUFSIZE THEN 0 ELSE keycodebufp2
  /\ pc' = "idle"
  /\ UNCHANGED <<keycodebuf, keycodebufp1, vkey, slot>>

ReadKey == FindEmpty \/ FindKey \/ Load \/ Advance \/ Wrap
Interrupt == \E k \in Keycodes : Store(k) \/ Ignore(k)
Next == ReadKey \/ Interrupt

Spec == Init /\ [][Next]_vars

(* The program keeps polling (inputchar() calls ps2readkey() every frame)   *)
(* and an interrupt always returns to it.                                   *)
FairSpec == Spec /\ WF_vars(ReadKey)

-----------------------------------------------------------------------------
(* keycodebufp2 as the interrupt should understand it: one past the end is  *)
(* the first slot.                                                          *)
Front == IF keycodebufp2 = KEYCODEBUFSIZE THEN 0 ELSE keycodebufp2

(* The keys stored and not yet given up by the reader, oldest first. *)
Count == IF keycodebufp1 >= Front THEN keycodebufp1 - Front
         ELSE keycodebufp1 - Front + KEYCODEBUFSIZE
Place(i) == IF Front + i - 1 < KEYCODEBUFSIZE THEN Front + i - 1
            ELSE Front + i - 1 - KEYCODEBUFSIZE
Queued == [i \in 1 .. Count |-> keycodebuf[Place(i)]]

(* The key ps2readkey() has given the slot of back and not yet returned. *)
Taken == CASE pc = "advanced" -> <<keycodebuf[slot]>>
           [] pc = "wrap" -> <<vkey>>
           [] OTHER -> <<>>

TypeOK ==
  /\ keycodebuf \in [Slots -> Keycodes \cup {0}]
  /\ keycodebufp1 \in Slots
  /\ keycodebufp2 \in 0 .. KEYCODEBUFSIZE
  /\ vkey \in Keycodes \cup {0}
  /\ pc \in {"idle", "found", "loaded", "advanced", "wrap"}
  /\ slot \in Slots

(* Every slot the reader still has to load holds a key code, never a stale  *)
(* or unwritten slot (0 means `no key' to every caller of ps2readkey()),    *)
(* although the pointer is given back before the load and stands one past   *)
(* the end of the array for a while.                                        *)
SlotNotReused ==
  /\ pc \in {"found", "loaded"} =>
        keycodebufp2 = slot /\ Count > 0
  /\ pc \in {"advanced", "wrap"} => keycodebufp2 = slot + 1
  /\ pc = "idle" => keycodebufp2 # KEYCODEBUFSIZE
  /\ pc = "loaded" => vkey = keycodebuf[slot]
  /\ \A i \in 1 .. Count : keycodebuf[Place(i)] # 0
  /\ pc = "advanced" => keycodebuf[slot] # 0
  /\ pc = "wrap" => vkey # 0

(* The ring is a first-in first-out queue of KEYCODEBUFSIZE-1 keys, and     *)
(* only a full queue loses a key.                                           *)
Fifo == INSTANCE BoundedFifo WITH
          Cap <- KEYCODEBUFSIZE - 1, Items <- Keycodes,
          queue <- Queued, inHand <- Taken
Implements == Fifo!FifoSpec

(* A key is ignored only when KEYCODEBUFSIZE-1 keys wait for the program,   *)
(* whatever point ps2readkey() was interrupted at.                          *)
IgnoredOnlyWhenFull == Full <=> Count = KEYCODEBUFSIZE - 1

(* A key the interrupt stored is returned by ps2readkey() in the end,       *)
(* however many more keys keep coming.                                      *)
StoredIsReturned ==
  \A k \in Keycodes :
    (\E i \in 1 .. Count : Queued[i] = k) ~> (pc = "wrap" /\ vkey = k)
=============================================================================
