---------------------------- MODULE BoundedFifo ----------------------------
(***************************************************************************)
(* What the key code buffer of ps2keyboard.c promises its two users: a     *)
(* first-in first-out queue of at most Cap keys.  A key that arrives when  *)
(* the queue is full is dropped and nothing else changes.  The reader      *)
(* takes the oldest key in hand and then gives it to its caller.           *)
(***************************************************************************)
EXTENDS Naturals, Sequences

CONSTANTS Cap,      \* keys the queue can hold
          Items     \* the keys

VARIABLES queue,    \* keys accepted and not yet taken, oldest first
          inHand    \* <<>>, or <<k>> while the reader holds key k

fifoVars == <<queue, inHand>>

FifoInit == queue = <<>> /\ inHand = <<>>

(* A key arrives and there is room for it. *)
Accept(k) ==
  /\ Len(queue) < Cap
  /\ queue' = Append(queue, k)
  /\ UNCHANGED inHand

(* The reader takes the oldest key. *)
Take ==
  /\ inHand = <<>> /\ queue # <<>>
  /\ inHand' = <<Head(queue)>>
  /\ queue' = Tail(queue)

(* The reader returns the key it holds. *)
Deliver ==
  /\ inHand # <<>>
  /\ inHand' = <<>>
  /\ UNCHANGED queue

FifoNext == (\E k \in Items : Accept(k)) \/ Take \/ Deliver

FifoSpec == FifoInit /\ [][FifoNext]_fifoVars
=============================================================================
