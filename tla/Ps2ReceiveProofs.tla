-------------------------- MODULE Ps2ReceiveProofs --------------------------
(***************************************************************************)
(* Ps2Receive for every ring, every set of bytes and of pauses, and every  *)
(* number of bytes, turned bits and commands: a pause realigns the count   *)
(* of bits; what is accepted was sent, while at most one edge is missed;   *)
(* and with no edge missed, and pauses longer than the wait before a       *)
(* command, all of it arrives.                                             *)
(*                                                                         *)
(* The samples that the driver has not looked at are thought of as seen:   *)
(* `View' is the receiver after them.  It changes with each edge that is   *)
(* recorded and at the end of a T5Handler, and not while a drain goes on.  *)
(***************************************************************************)
EXTENDS Ps2Receive, SequenceTheorems, WellFoundedInduction, FiniteSetTheorems,
        TLAPS

Bits == {0, 1}
Byte == [1 .. 8 -> Bits]
Slots == 0 .. PS2DMABUFSIZE - 1
Receivers ==
  [receivecount : 0 .. 10, receivedata : Byte, receiveError : BOOLEAN,
   receivetime : 0 .. PS2TIME_RECEIVETIMEOUT, got : Seq(Byte)]

Draining == {"test", "read", "load", "store", "wrap"}
InCall == {"disable", "test", "read", "load", "store", "wrap", "set"}

(* Types, whatever races. *)
TypesInv ==
  /\ rx \in Receivers
  /\ dma \in [on : BOOLEAN, data : [Slots -> Bits], DPTR : Slots, readpt : 0 .. PS2DMABUFSIZE]
  /\ cmd \in [phase : {"none", "presend", "exchange", "sent"}, resend : BOOLEAN,
              count : 0 .. PS2TIME_PRESEND]
  /\ cmd.phase = "presend" => cmd.count >= 1
  /\ prog \in [at : InCall \cup {"idle", "hung"}, readpt : Slots, cut : BOOLEAN]
  /\ kbd \in [pos : -1 .. 10, sent : Seq(Bytes), again : BOOLEAN, clean : BOOLEAN,
              edges : 0 .. 2, quiet : Nat]
  /\ raced \in BOOLEAN
  /\ budget \in [flips : 0 .. MaxFlips, lost : 0 .. MaxLost, calls : 0 .. MaxCalls]
  /\ dma.readpt = PS2DMABUFSIZE => prog.at \in {"wrap", "hung"}
  /\ kbd.pos # NotSending \/ kbd.again => kbd.sent # <<>>

-----------------------------------------------------------------------------
(* The samples that wait: from First on, Waiting of them.                   *)
Succ(p) == IF p = PS2DMABUFSIZE - 1 THEN 0 ELSE p + 1
Ahead(p, q) == IF p <= q THEN q - p ELSE q - p + PS2DMABUFSIZE
First == CASE prog.at \in {"load", "store"} -> Succ(dma.readpt)
           [] prog.at \notin {"load", "store"} ->
                IF dma.readpt = PS2DMABUFSIZE THEN 0 ELSE dma.readpt
Waiting == Ahead(First, dma.DPTR)
View == CASE Waiting = 0 -> rx
          [] Waiting = 1 -> Receive(rx, dma.data[First])
          [] Waiting \notin {0, 1} ->
               Receive(Receive(rx, dma.data[First]), dma.data[Succ(First)])

(* Where the parts of the driver stand to each other, without a race: the   *)
(* DMA is on when no command is near the line, and what waits came since    *)
(* the last T5Handler.                                                      *)
ControlInv ==
  /\ prog.at # "hung"
  /\ prog.at \in Draining \cup {"set"} => ~dma.on
  /\ prog.at \in {"idle", "disable"} => (dma.on <=> cmd.phase \in {"none", "sent"})
  /\ prog.at # "idle" => cmd.phase \in {"none", "presend"} /\ (~prog.cut => cmd.phase = "none")
  /\ Waiting <= kbd.edges
  /\ ~dma.on /\ prog.at \notin Draining => Waiting = 0
  /\ prog.at = "read" => Waiting > 0
  /\ prog.at = "store" => prog.readpt = dma.readpt
  /\ kbd.quiet > 0 => kbd.edges = 0
  /\ kbd.pos = 0 => kbd.quiet > 0
  /\ kbd.again => kbd.pos = NotSending
  /\ cmd.phase \in {"exchange", "sent"} =>
       /\ kbd.pos = NotSending /\ kbd.edges = 0
       /\ rx.receivecount = 0 /\ ~rx.receiveError
  /\ cmd.phase = "sent" => kbd.quiet = 0
  /\ cmd.phase \in {"presend", "exchange"} /\ cmd.resend => kbd.sent # <<>>
  /\ View.receiveError => kbd.sent # <<>>
  /\ budget.lost < MaxLost => budget.flips = MaxFlips
  /\ budget.flips = MaxFlips => kbd.clean
  /\ budget.calls = MaxCalls => prog.at = "idle" /\ ~rx.receiveError

(* A count that is not 0 is as old as the pause. *)
QuietInv == kbd.quiet > 0 /\ View.receivecount > 0 => View.receivetime >= kbd.quiet

Sending == kbd.sent[Len(kbd.sent)]

(* The first n bits of b are the last in the shift register, all but one if *)
(* a bit of the frame was turned.                                           *)
Holds(clean, data, b, n) ==
  IF clean THEN \A i \in 1 .. n : data[8 - n + i] = b[i]
  ELSE \E j \in 1 .. n : /\ data[8 - n + j] # b[j]
                         /\ \A i \in 1 .. n \ {j} : data[8 - n + i] = b[i]
DataBits(count) == CASE count <= 1 -> 0 [] count \in 2 .. 8 -> count - 1 [] count > 8 -> 8

(* In step with the keyboard, or one behind since an edge was missed: then  *)
(* the frame ends with the driver waiting for a stop bit, and the start bit *)
(* of the next one is an error.                                             *)
InStep(g) ==
  /\ g.receivecount = (IF kbd.pos = NotSending THEN 0 ELSE kbd.pos)
  /\ g.receivecount = 10 => kbd.clean
  /\ kbd.pos # NotSending => 
       Holds(kbd.clean, g.receivedata, Sending, DataBits(g.receivecount))
Behind(g) ==
  /\ budget.lost < MaxLost
  /\ \/ kbd.pos > 0 /\ g.receivecount = kbd.pos - 1
     \/ kbd.pos <= 0 /\ g.receivecount = 10
StepInv ==
  dma.on /\ ~View.receiveError =>
    /\ InStep(View) \/ Behind(View)
    /\ kbd.pos > 0 /\ View.receivecount > 0 =>
         View.receivetime + (IF kbd.edges > 0 THEN 1 ELSE 0) <= kbd.pos

(* s is found in the first n of t. *)
Embeds(s, t, n) ==
  \E at \in [DOMAIN s -> 1 .. n] :
    /\ \A i, j \in DOMAIN s : i < j => at[i] < at[j]
    /\ \A i \in DOMAIN s : s[i] = t[at[i]]

(* The last byte of the keyboard has not come: it is being sent, or is to   *)
(* be sent again, or is going to be asked for.                              *)
Resending == cmd.phase \in {"presend", "exchange"} /\ cmd.resend
Outstanding ==
  kbd.pos # NotSending \/ kbd.again \/ View.receiveError \/ Resending
GhostInv ==
  MaxLost <= 1 =>
    /\ StepInv
    /\ Embeds(View.got, kbd.sent, Len(kbd.sent))
    /\ Outstanding => Embeds(View.got, kbd.sent, Len(kbd.sent) - 1)

(* Nothing missed, no command from the program: all of it has come, but what *)
(* is outstanding.                                                          *)
AllBut(s) == SubSeq(s, 1, Len(s) - 1)
LongGaps == \A gap \in Gaps : gap > PS2TIME_PRESEND
Undisturbed == budget.lost = MaxLost /\ budget.calls = MaxCalls
DeliveredInv ==
  LongGaps /\ Undisturbed =>
    /\ StepInv
    /\ View.got = IF Outstanding THEN AllBut(kbd.sent) ELSE kbd.sent
    /\ cmd.phase = "presend" => kbd.quiet + cmd.count <= PS2TIME_PRESEND + 1
    /\ cmd.phase = "presend" /\ ~cmd.resend => kbd.pos = NotSending
    /\ View.got # rx.got => kbd.pos = NotSending

(* A race needs a call. *)
CalledInv == raced => budget.calls < MaxCalls

Inv == TypesInv /\ CalledInv /\ (~raced => ControlInv /\ QuietInv /\ GhostInv /\ DeliveredInv)
-----------------------------------------------------------------------------
(* Every set of naturals has a first one. *)
LEMMA FirstNatural ==
  ASSUME NEW S \in SUBSET Nat, S # {}
  PROVE  \E x \in S : \A y \in S : x <= y
<1> DEFINE R == OpToRel(<, Nat)
<1>1. IsWellFoundedOn(R, Nat)
  BY NatLessThanWellFounded
<1>2. \A x, y \in Nat : <<x, y>> \in R <=> x < y
  BY DEF OpToRel
<1> HIDE DEF R
<1>3. PICK x \in S : \A y \in S : ~ (<<y, x>> \in R)
  BY <1>1, WFMin
<1>4. ASSUME NEW y \in S PROVE x <= y
  <2>1. x \in Nat /\ y \in Nat /\ ~(y < x)
    BY <1>2, <1>3, Zenon
  <2> QED BY <2>1
<1> QED BY <1>3, <1>4

(* Indices round the ring. *)
LEMMA Size == PS2DMABUFSIZE \in Nat /\ PS2DMABUFSIZE > 2
  BY LineAssumption

LEMMA Round ==
  ASSUME NEW x \in -PS2DMABUFSIZE .. 2 * PS2DMABUFSIZE - 1
  PROVE  x % PS2DMABUFSIZE = CASE x < 0 -> x + PS2DMABUFSIZE
                               [] x \in Slots -> x
                               [] x >= PS2DMABUFSIZE -> x - PS2DMABUFSIZE
<1> DEFINE N == PS2DMABUFSIZE
<1>1. N \in Nat /\ N > 0
  BY Size
<1> HIDE DEF N
<1>2. x \in -N .. -1 => x % N = x + N
  BY <1>1
<1>3. x \in 0 .. N - 1 => x % N = x
  BY <1>1
<1>4. x \in N .. 2 * N - 1 => x % N = x - N
  BY <1>1
<1>5. x \in -N .. 2 * N - 1
  BY DEF N
<1> QED BY <1>1, <1>2, <1>3, <1>4, <1>5 DEF N, Slots

LEMMA RoundSucc ==
  ASSUME NEW p \in Slots
  PROVE  Succ(p) = (p + 1) % PS2DMABUFSIZE /\ Succ(p) \in Slots
<1>1. p + 1 \in -PS2DMABUFSIZE .. 2 * PS2DMABUFSIZE - 1
  BY Size DEF Slots
<1> QED BY <1>1, Round, Size DEF Slots, Succ

LEMMA RoundAhead ==
  ASSUME NEW p \in Slots, NEW q \in Slots
  PROVE  (q - p) % PS2DMABUFSIZE = Ahead(p, q) /\ Ahead(p, q) \in Slots
<1>1. CASE p <= q
  <2>1. q - p \in -PS2DMABUFSIZE .. 2 * PS2DMABUFSIZE - 1 /\ q - p \in Slots
    BY <1>1, Size DEF Slots
  <2> QED BY <1>1, <2>1, Round, Size DEF Slots, Ahead
<1>2. CASE ~(p <= q)
  <2>1. q - p \in -PS2DMABUFSIZE .. 2 * PS2DMABUFSIZE - 1 /\ q - p < 0
    BY <1>2, Size DEF Slots
  <2> QED BY <1>2, <2>1, Round, Size DEF Slots, Ahead
<1> QED BY <1>1, <1>2

-----------------------------------------------------------------------------
(* ps2receive() of one sample. *)
LEMMA Shift ==
  ASSUME NEW b \in Byte, NEW d \in Bits
  PROVE  /\ Append(Tail(b), d) \in Byte
         /\ Append(Tail(b), d) = [i \in 1 .. 8 |-> IF i = 8 THEN d ELSE b[i + 1]]
<1>1. b \in Seq(Bits) /\ Len(b) = 8
  <2>1. b \in Seq(Bits)
    BY SeqDef DEF Byte
  <2> QED BY <2>1 DEF Byte
<1> DEFINE t == Tail(b)
           s == Append(t, d)
<1>2. /\ t \in Seq(Bits) /\ Len(t) = Len(b) - 1
      /\ \A i \in 1 .. Len(t) : t[i] = b[i + 1]
  <2>1. b # <<>>
    BY <1>1
  <2> QED BY <1>1, <2>1, HeadTailProperties
<1>3. /\ s \in Seq(Bits) /\ Len(s) = Len(t) + 1
      /\ \A i \in 1 .. Len(t) : s[i] = t[i]
      /\ s[Len(t) + 1] = d
  <2> HIDE DEF t
  <2> QED BY <1>2, AppendProperties
<1> HIDE DEF s, t
<1>4. Len(s) = 8 /\ s[8] = d /\ \A i \in 1 .. 7 : s[i] = b[i + 1]
  <2>1. Len(t) = 7
    BY <1>1, <1>2
  <2>2. Len(t) + 1 = 8
    BY <2>1
  <2>3. Len(s) = 8 /\ s[8] = d
    BY <1>3, <2>2
  <2>4. ASSUME NEW i \in 1 .. 7 PROVE s[i] = b[i + 1]
    BY <1>2, <1>3, <2>1
  <2> QED BY <2>3, <2>4
<1>5. s \in [1 .. 8 -> Bits]
  BY <1>3, <1>4, LenProperties
<1>6. s = [i \in 1 .. 8 |-> IF i = 8 THEN d ELSE b[i + 1]]
  BY <1>4, <1>5
<1> QED BY <1>5, <1>6 DEF Byte, s, t

LEMMA Timeout == PS2TIME_RECEIVETIMEOUT \in Nat /\ PS2TIME_RECEIVETIMEOUT >= 10
                 /\ PS2TIME_PRESEND \in Nat /\ PS2TIME_PRESEND > 0
  BY LineAssumption

LEMMA ReceiveType ==
  ASSUME NEW g \in Receivers, NEW d \in Bits
  PROVE  Receive(g, d) \in Receivers
<1> DEFINE r == Receive(g, d)
<1>1. /\ g.receivecount \in 0 .. 10 /\ g.receivedata \in Byte
      /\ g.receivetime \in 0 .. PS2TIME_RECEIVETIMEOUT /\ g.got \in Seq(Byte)
      /\ g = [receivecount |-> g.receivecount, receivedata |-> g.receivedata,
              receiveError |-> g.receiveError, receivetime |-> g.receivetime, got |-> g.got]
      /\ g.receiveError \in BOOLEAN
  BY Zenon DEF Receivers
<1>2. Append(Tail(g.receivedata), d) \in Byte
  BY <1>1, Shift
<1>3. Append(g.got, g.receivedata) \in Seq(Byte)
  BY <1>1, AppendProperties
<1>4. Error(g) \in Receivers
  BY Zenon DEF Receivers, Error
<1>5. CASE g.receiveError
  BY <1>5 DEF Receive
<1>6. CASE ~g.receiveError /\ g.receivecount = 0
  <2>1. [g EXCEPT !.receivecount = 1, !.receivetime = 0] \in Receivers
    <3>1. 1 \in 0 .. 10 /\ 0 \in 0 .. PS2TIME_RECEIVETIMEOUT
      BY Timeout
    <3> QED BY <3>1, Zenon DEF Receivers
  <2> QED BY <1>4, <1>6, <2>1 DEF Receive
<1>7. CASE ~g.receiveError /\ g.receivecount \in 1 .. 8
  <2>1. g.receivecount + 1 \in 0 .. 10
    BY <1>7
  <2>2. [g EXCEPT !.receivedata = Append(Tail(@), d), !.receivecount = @ + 1] \in Receivers
    BY <1>2, <2>1, Zenon DEF Receivers
  <2> QED BY <1>7, <2>2 DEF Receive
<1>8. CASE ~g.receiveError /\ g.receivecount = 9
  <2>1. 10 \in 0 .. 10
    OBVIOUS
  <2>2. [g EXCEPT !.receivecount = 10] \in Receivers
    BY <2>1, Zenon DEF Receivers
  <2> QED BY <1>4, <1>8, <2>2 DEF Receive
<1>9. CASE ~g.receiveError /\ g.receivecount = 10
  <2>1. 0 \in 0 .. 10 /\ 0 \in 0 .. PS2TIME_RECEIVETIMEOUT
    BY Timeout
  <2>2. [Between(g) EXCEPT !.got = Append(@, g.receivedata)] \in Receivers
    BY <1>3, <2>1, Zenon DEF Receivers, Between
  <2> QED BY <1>4, <1>9, <2>2 DEF Receive
<1> QED BY <1>1, <1>5, <1>6, <1>7, <1>8, <1>9

(* The drain reads one sample after the other, whatever their number. *)
Reads(f, g, S, U) == f = [n \in 0 .. U |-> IF n = 0 THEN g ELSE Receive(f[n - 1], S[n])]

LEMMA ReadsExist ==
  ASSUME NEW g, NEW S, NEW U \in Nat
  PROVE  \E f : Reads(f, g, S, U)
<1> DEFINE bad == {k \in Nat : ~\E f : Reads(f, g, S, k)}
<1>1. SUFFICES ASSUME bad # {} PROVE FALSE
  OBVIOUS
<1>2. PICK k \in bad : \A j \in bad : k <= j
  <2>1. bad \in SUBSET Nat
    OBVIOUS
  <2> HIDE DEF bad
  <2> QED BY <1>1, <2>1, FirstNatural
<1>3. k # 0
  <2> DEFINE f == [n \in 0 .. 0 |-> g]
  <2>1. Reads(f, g, S, 0)
    BY DEF Reads
  <2> QED BY <1>2, <2>1
<1>4. k \in Nat /\ k - 1 \in Nat /\ k - 1 \notin bad
  <2>1. k \in Nat
    OBVIOUS
  <2> HIDE DEF bad
  <2> QED BY <1>2, <1>3, <2>1
<1>5. PICK f : Reads(f, g, S, k - 1)
  BY <1>4
<1> DEFINE h == [n \in 0 .. k |-> IF n = k THEN Receive(f[k - 1], S[k]) ELSE f[n]]
<1>6. \A n \in 0 .. k : h[n] = IF n = 0 THEN g ELSE Receive(h[n - 1], S[n])
  BY <1>3, <1>4, <1>5 DEF Reads
<1>7. Reads(h, g, S, k)
  BY <1>6 DEF Reads
<1> QED BY <1>2, <1>7

LEMMA Drain ==
  ASSUME NEW g, Unread \in Nat
  PROVE  \E read : GetDMABUFdata(g) = read[Unread] /\ Reads(read, g, Samples, Unread)
<1> DEFINE read == CHOOSE h : Reads(h, g, Samples, Unread)
<1>1. Reads(read, g, Samples, Unread)
  BY ReadsExist, Zenon
<1>2. GetDMABUFdata(g) = read[Unread]
  BY DEF GetDMABUFdata, Reads
<1> QED BY <1>1, <1>2

LEMMA UnreadSamples ==
  ASSUME TypesInv, dma.readpt \in Slots
  PROVE  /\ Unread = Ahead(dma.readpt, dma.DPTR) /\ Unread \in Slots
         /\ \A n \in 1 .. Unread : Samples[n] \in Bits
         /\ Unread >= 1 => Samples[1] = dma.data[dma.readpt]
         /\ Unread >= 2 => Samples[2] = dma.data[Succ(dma.readpt)]
<1>1. dma.DPTR \in Slots /\ dma.data \in [Slots -> Bits]
  BY DEF TypesInv
<1>2. Unread = Ahead(dma.readpt, dma.DPTR) /\ Unread \in Slots
  BY <1>1, RoundAhead DEF Unread
<1>3. ASSUME NEW n \in 1 .. Unread
      PROVE  Samples[n] = dma.data[(dma.readpt + n - 1) % PS2DMABUFSIZE]
             /\ (dma.readpt + n - 1) % PS2DMABUFSIZE \in Slots
  <2>1. dma.readpt + n - 1 \in -PS2DMABUFSIZE .. 2 * PS2DMABUFSIZE - 1
    BY <1>2, Size DEF Slots
  <2>2. (dma.readpt + n - 1) % PS2DMABUFSIZE \in Slots
    BY <2>1, Round, Size DEF Slots
  <2> QED BY <2>2 DEF Samples
<1>4. Unread >= 1 => Samples[1] = dma.data[dma.readpt]
  <2>1. dma.readpt % PS2DMABUFSIZE = dma.readpt /\ dma.readpt + 1 - 1 = dma.readpt
    BY Round, Size DEF Slots
  <2>2. Unread >= 1 => 1 \in 1 .. Unread
    BY <1>2 DEF Slots
  <2> QED BY <1>3, <2>1, <2>2
<1>5. Unread >= 2 => Samples[2] = dma.data[Succ(dma.readpt)]
  <2>1. dma.readpt + 2 - 1 = dma.readpt + 1
    BY Size DEF Slots
  <2>2. Unread >= 2 => 2 \in 1 .. Unread
    BY <1>2 DEF Slots
  <2> QED BY <1>3, <2>1, <2>2, RoundSucc
<1> QED BY <1>1, <1>2, <1>3, <1>4, <1>5

LEMMA DrainType ==
  ASSUME TypesInv, dma.readpt \in Slots
  PROVE  GetDMABUFdata(rx) \in Receivers
<1>1. Unread \in Nat /\ \A n \in 1 .. Unread : Samples[n] \in Bits
  BY UnreadSamples DEF Slots
<1>2. PICK read : GetDMABUFdata(rx) = read[Unread] /\ Reads(read, rx, Samples, Unread)
  BY <1>1, Drain
<1> DEFINE bad == {n \in 0 .. Unread : read[n] \notin Receivers}
<1>3. SUFFICES ASSUME bad # {} PROVE FALSE
  BY <1>1, <1>2
<1>4. PICK n \in bad : \A m \in bad : n <= m
  <2>1. bad \in SUBSET Nat
    OBVIOUS
  <2> HIDE DEF bad
  <2> QED BY <1>3, <2>1, FirstNatural
<1>5. n # 0
  BY <1>1, <1>2, <1>4 DEF TypesInv, Reads
<1>6. n - 1 \in 0 .. Unread /\ n - 1 \notin bad /\ n \in 1 .. Unread
  BY <1>1, <1>4, <1>5
<1>7. read[n] = Receive(read[n - 1], Samples[n]) /\ read[n - 1] \in Receivers
  BY <1>2, <1>5, <1>6 DEF Reads
<1> QED BY <1>1, <1>4, <1>6, <1>7, ReceiveType

-----------------------------------------------------------------------------
(* Parity: a byte with one bit turned has the other one. *)
LEMMA OnesNat ==
  ASSUME NEW b \in Byte
  PROVE  /\ IsFiniteSet({i \in 1 .. 8 : b[i] = 1}) /\ Ones(b) \in Nat
         /\ Ones(b) % 2 \in Bits
<1>1. IsFiniteSet(1 .. 8)
  <2> DEFINE m == 1
             n == 8
  <2>1. m \in Int /\ n \in Int
    OBVIOUS
  <2> HIDE DEF m, n
  <2>2. IsFiniteSet(m .. n)
    BY <2>1, FS_Interval
  <2> QED BY <2>2 DEF m, n
<1>2. IsFiniteSet({i \in 1 .. 8 : b[i] = 1})
  BY <1>1, FS_Subset
<1>3. Ones(b) \in Nat
  BY <1>2, FS_CardinalityType DEF Ones
<1> QED BY <1>2, <1>3 DEF Bits

LEMMA OneTurned ==
  ASSUME NEW b \in Byte, NEW c \in Byte, NEW j \in 1 .. 8,
         c[j] # b[j], \A i \in 1 .. 8 \ {j} : c[i] = b[i]
  PROVE  Ones(c) = Ones(b) + 1 \/ Ones(b) = Ones(c) + 1
<1> DEFINE B == {i \in 1 .. 8 : b[i] = 1}
           C == {i \in 1 .. 8 : c[i] = 1}
<1>1. IsFiniteSet(B) /\ IsFiniteSet(C) /\ Ones(b) \in Nat /\ Ones(c) \in Nat
  BY OnesNat
<1>2. CASE b[j] = 1
  <2>1. B = C \cup {j} /\ j \notin C
    BY <1>2
  <2> QED BY <1>1, <2>1, FS_AddElement DEF Ones
<1>3. CASE b[j] # 1
  <2>1. c[j] = 1
    BY <1>3 DEF Byte, Bits
  <2>2. C = B \cup {j} /\ j \notin B
    BY <1>3, <2>1
  <2> QED BY <1>1, <2>2, FS_AddElement DEF Ones
<1> QED BY <1>2, <1>3

ParityBit(b) == 1 - (Ones(b) % 2)

LEMMA ParityFits ==
  ASSUME NEW b \in Byte
  PROVE  OddParity(b, ParityBit(b)) /\ ~OddParity(b, 1 - ParityBit(b))
<1>1. Ones(b) \in Nat
  BY OnesNat
<1> QED BY <1>1 DEF OddParity, ParityBit

LEMMA ParityFails ==
  ASSUME NEW b \in Byte, NEW c \in Byte, NEW j \in 1 .. 8,
         c[j] # b[j], \A i \in 1 .. 8 \ {j} : c[i] = b[i]
  PROVE  ~OddParity(c, ParityBit(b))
<1>1. Ones(b) \in Nat /\ Ones(c) \in Nat
  BY OnesNat
<1>2. Ones(c) = Ones(b) + 1 \/ Ones(b) = Ones(c) + 1
  BY OneTurned
<1> QED BY <1>1, <1>2 DEF OddParity, ParityBit

LEMMA FrameBitType ==
  ASSUME NEW b \in Byte, NEW pos \in 0 .. 10
  PROVE  FrameBit(b, pos) \in Bits /\ 1 - FrameBit(b, pos) \in Bits
<1>1. b \in [1 .. 8 -> Bits] /\ Ones(b) % 2 \in Bits
  BY OnesNat DEF Byte
<1>2. pos \in 1 .. 8 => b[pos] \in Bits
  BY <1>1
<1> QED BY <1>1, <1>2 DEF FrameBit, Bits

-----------------------------------------------------------------------------
(* Types. *)
LEMMA TypesInit ==
  ASSUME Init
  PROVE  TypesInv
<1>1. 0 \in Slots /\ 0 \in 0 .. PS2DMABUFSIZE /\ 0 \in 0 .. PS2TIME_PRESEND
      /\ 0 \in 0 .. PS2TIME_RECEIVETIMEOUT /\ 0 # PS2DMABUFSIZE
  BY Size, Timeout DEF Slots
<1>2. rx \in Receivers
  <2>1. [i \in 1 .. 8 |-> 0] \in Byte /\ 0 \in 0 .. 10 /\ <<>> \in Seq(Byte)
    BY DEF Byte, Bits
  <2> QED BY <1>1, <2>1, Zenon DEF Init, Receivers
<1>3. dma \in [on : BOOLEAN, data : [Slots -> Bits], DPTR : Slots, readpt : 0 .. PS2DMABUFSIZE]
  <2>1. [i \in 0 .. PS2DMABUFSIZE - 1 |-> 0] \in [Slots -> Bits]
    BY DEF Slots, Bits
  <2> QED BY <1>1, <2>1, Zenon DEF Init
<1>4. /\ cmd \in [phase : {"none", "presend", "exchange", "sent"}, resend : BOOLEAN,
                  count : 0 .. PS2TIME_PRESEND]
      /\ cmd.phase # "presend"
  BY <1>1 DEF Init, NoCommand
<1>5. prog \in [at : InCall \cup {"idle", "hung"}, readpt : Slots, cut : BOOLEAN]
  BY <1>1 DEF Init
<1>6. /\ kbd \in [pos : -1 .. 10, sent : Seq(Bytes), again : BOOLEAN, clean : BOOLEAN,
                  edges : 0 .. 2, quiet : Nat]
      /\ kbd.pos = NotSending /\ ~kbd.again
  <2>1. <<>> \in Seq(Bytes) /\ -1 \in -1 .. 10 /\ 0 \in 0 .. 2 /\ 0 \in Nat
    OBVIOUS
  <2> QED BY <2>1 DEF Init, NotSending
<1>7. budget \in [flips : 0 .. MaxFlips, lost : 0 .. MaxLost, calls : 0 .. MaxCalls]
  <2>1. MaxFlips \in 0 .. MaxFlips /\ MaxLost \in 0 .. MaxLost /\ MaxCalls \in 0 .. MaxCalls
    BY LineAssumption
  <2> QED BY <2>1 DEF Init
<1> QED BY <1>1, <1>2, <1>3, <1>4, <1>5, <1>6, <1>7 DEF Init, TypesInv

(* T5Handler, after the drain. *)
LEMMA AfterDrainType ==
  ASSUME NEW g \in Receivers
  PROVE  /\ ReceiveTimeout(ClearError(ResetCount(g))) \in Receivers
         /\ [ReceiveTimeout(ClearError(ResetCount(g))) EXCEPT !.receiveError = FALSE] \in Receivers
<1>1. 0 \in 0 .. 10 /\ 0 \in 0 .. PS2TIME_RECEIVETIMEOUT
  BY Timeout
<1>2. \A h \in Receivers : Between(h) \in Receivers
  BY <1>1, Zenon DEF Receivers, Between
<1>3. ResetCount(g) \in Receivers
  BY <1>2 DEF ResetCount
<1>4. \A h \in Receivers : ClearError(h) \in Receivers
  BY Zenon DEF Receivers, ClearError
<1>5. \A h \in Receivers : ReceiveTimeout(h) \in Receivers
  <2> TAKE h \in Receivers
  <2>1. CASE h.receivecount # 0 /\ h.receivetime < PS2TIME_RECEIVETIMEOUT
    <3>1. h.receivetime \in Nat /\ h.receivetime + 1 \in 0 .. PS2TIME_RECEIVETIMEOUT
      <4>1. h.receivetime \in 0 .. PS2TIME_RECEIVETIMEOUT
        BY Zenon DEF Receivers
      <4> QED BY <2>1, <4>1, Timeout
    <3>2. [h EXCEPT !.receivetime = @ + 1] \in Receivers
      BY <3>1, Zenon DEF Receivers
    <3>3. ~(h.receivetime >= PS2TIME_RECEIVETIMEOUT)
      BY <2>1, <3>1, Timeout
    <3> QED BY <2>1, <3>2, <3>3 DEF ReceiveTimeout
  <2>2. CASE h.receivecount = 0
    BY <2>2 DEF ReceiveTimeout
  <2>3. CASE h.receivecount # 0 /\ ~(h.receivetime < PS2TIME_RECEIVETIMEOUT)
    <3>1. h.receivetime \in 0 .. PS2TIME_RECEIVETIMEOUT
      BY Zenon DEF Receivers
    <3>2. h.receivetime >= PS2TIME_RECEIVETIMEOUT
      BY <2>3, <3>1, Timeout
    <3>3. ReceiveTimeout(h) = Between(h)
      BY <2>3, <3>2 DEF ReceiveTimeout
    <3> QED BY <1>2, <3>3
  <2> QED BY <2>1, <2>2, <2>3
<1>6. \A h \in Receivers : [h EXCEPT !.receiveError = FALSE] \in Receivers
  BY Zenon DEF Receivers
<1> QED BY <1>3, <1>4, <1>5, <1>6

(* The command after T5Handler's look at it, at an error and at a lock key. *)
Status == CASE SendStart -> [cmd EXCEPT !.phase = "exchange", !.count = 0]
            [] cmd.phase = "sent" -> NoCommand
            [] ~SendStart /\ cmd.phase # "sent" -> Progress
After(err, lock) ==
  LET asked == IF err THEN Command(Status, TRUE) ELSE Status
  IN IF lock THEN Command(asked, FALSE) ELSE asked
Seen(g) == ReceiveTimeout(ClearError(ResetCount(g)))

LEMMA CommandType ==
  ASSUME TypesInv, NEW err, NEW lock
  PROVE  /\ After(err, lock) \in [phase : {"none", "presend", "exchange", "sent"},
                                  resend : BOOLEAN, count : 0 .. PS2TIME_PRESEND]
         /\ After(err, lock).phase = "presend" => After(err, lock).count >= 1
<1> DEFINE Commands == [phase : {"none", "presend", "exchange", "sent"}, resend : BOOLEAN,
                        count : 0 .. PS2TIME_PRESEND]
           Fine(c) == c \in Commands /\ (c.phase = "presend" => c.count >= 1)
<1>1. 0 \in 0 .. PS2TIME_PRESEND /\ PS2TIME_PRESEND \in 0 .. PS2TIME_PRESEND
      /\ PS2TIME_PRESEND >= 1
  BY Timeout
<1>2. cmd \in Commands /\ cmd.count \in 0 .. PS2TIME_PRESEND
      /\ (cmd.phase = "presend" => cmd.count >= 1)
  BY DEF TypesInv
<1>3. Fine(Status)
  <2>1. CASE SendStart
    <3>1. Status = [cmd EXCEPT !.phase = "exchange", !.count = 0]
      BY <2>1 DEF SendStart, Status
    <3>2. Status.phase = "exchange" /\ Status \in Commands
      BY <1>1, <1>2, <3>1
    <3> QED BY <3>2
  <2>2. CASE ~SendStart /\ cmd.phase = "sent"
    <3>1. Status = NoCommand
      BY <2>2 DEF Status
    <3>2. Status.phase = "none" /\ Status \in Commands
      <4>1. NoCommand \in Commands /\ NoCommand.phase = "none"
        BY <1>1 DEF NoCommand
      <4> QED BY <3>1, <4>1
    <3> QED BY <3>2
  <2>3. CASE ~SendStart /\ cmd.phase # "sent"
    <3> DEFINE n == IF cmd.count = 0 THEN 0 ELSE cmd.count - 1
    <3>1. n \in 0 .. PS2TIME_PRESEND /\ (cmd.phase = "presend" => n >= 1)
      BY <1>2, <2>3, Timeout DEF SendStart
    <3>2. Status = [cmd EXCEPT !.count = n]
      BY <2>3 DEF Progress, Status
    <3> HIDE DEF n
    <3> QED BY <1>2, <3>1, <3>2
  <2> QED BY <2>1, <2>2, <2>3
<1>4. Fine(Start(TRUE)) /\ Fine(Start(FALSE))
  BY <1>1 DEF Start
<1> HIDE DEF Fine
<1>5. \A c, resend : resend \in BOOLEAN /\ Fine(c) => Fine(Command(c, resend))
  BY <1>4 DEF Command
<1>6. Fine(IF err THEN Command(Status, TRUE) ELSE Status)
  BY <1>3, <1>5
<1> DEFINE asked == IF err THEN Command(Status, TRUE) ELSE Status
<1>7. Fine(asked)
  BY <1>6
<1> HIDE DEF asked
<1>8. Fine(IF lock THEN Command(asked, FALSE) ELSE asked)
  BY <1>5, <1>7
<1> QED BY <1>8 DEF After, Fine, asked

LEMMA T5Cases ==
  ASSUME TypesInv, T5Handler
  PROVE  LET g == Seen(GetDMABUFdata(rx))
             after == After(g.receiveError, NewLock(g))
         IN /\ prog.at # "hung" /\ dma.readpt \in Slots
            /\ kbd.pos # NotSending => kbd.edges > 0
            /\ rx' = [g EXCEPT !.receiveError = FALSE]
            /\ cmd' = after
            /\ dma' = [dma EXCEPT !.readpt = dma.DPTR,
                                  !.on = @ /\ after.phase \notin {"presend", "exchange"}]
            /\ kbd' = [kbd EXCEPT
                         !.edges = 0,
                         !.quiet = IF kbd.pos # NotSending THEN 0
                                   ELSE IF @ > PS2TIME_RECEIVETIMEOUT + 1 THEN @ ELSE @ + 1,
                         !.pos = IF SendStart THEN NotSending ELSE @,
                         !.again = @ \/ (SendStart /\ kbd.pos # NotSending)]
            /\ prog.at # "idle" => ~prog.cut
            /\ prog' = [prog EXCEPT !.cut = prog.at # "idle"]
            /\ raced' = (raced \/ prog.at \in Draining)
            /\ budget' = budget
<1>1. dma \in [on : BOOLEAN, data : [Slots -> Bits], DPTR : Slots, readpt : 0 .. PS2DMABUFSIZE]
  BY DEF TypesInv
<1>2. \A on : [Drained EXCEPT !.on = @ /\ on] = [dma EXCEPT !.readpt = dma.DPTR, !.on = @ /\ on]
  BY <1>1 DEF Drained
<1> QED BY <1>2 DEF T5Handler, Seen, After, Status, Slots, Draining

LEMMA TypesT5Handler ==
  ASSUME TypesInv, T5Handler
  PROVE  TypesInv'
<1> DEFINE g == Seen(GetDMABUFdata(rx))
           after == After(g.receiveError, NewLock(g))
<1>1. /\ dma.readpt \in Slots
      /\ rx' = [g EXCEPT !.receiveError = FALSE]
      /\ cmd' = after
      /\ dma' = [dma EXCEPT !.readpt = dma.DPTR,
                            !.on = @ /\ after.phase \notin {"presend", "exchange"}]
      /\ kbd' = [kbd EXCEPT
                   !.edges = 0,
                   !.quiet = IF kbd.pos # NotSending THEN 0
                             ELSE IF @ > PS2TIME_RECEIVETIMEOUT + 1 THEN @ ELSE @ + 1,
                   !.pos = IF SendStart THEN NotSending ELSE @,
                   !.again = @ \/ (SendStart /\ kbd.pos # NotSending)]
      /\ prog.at # "hung" /\ prog' = [prog EXCEPT !.cut = prog.at # "idle"]
      /\ raced' = (raced \/ prog.at \in Draining)
      /\ budget' = budget
  BY T5Cases
<1>2. rx' \in Receivers
  <2>1. GetDMABUFdata(rx) \in Receivers
    BY <1>1, DrainType
  <2> QED BY <1>1, <2>1, AfterDrainType DEF Seen
<1>3. /\ cmd' \in [phase : {"none", "presend", "exchange", "sent"}, resend : BOOLEAN,
                   count : 0 .. PS2TIME_PRESEND]
      /\ cmd'.phase = "presend" => cmd'.count >= 1
  BY <1>1, CommandType
<1> HIDE DEF g, after
<1>4. /\ dma' \in [on : BOOLEAN, data : [Slots -> Bits], DPTR : Slots, readpt : 0 .. PS2DMABUFSIZE]
      /\ dma'.readpt # PS2DMABUFSIZE
  <2>1. /\ dma \in [on : BOOLEAN, data : [Slots -> Bits], DPTR : Slots,
                    readpt : 0 .. PS2DMABUFSIZE]
        /\ dma.DPTR \in 0 .. PS2DMABUFSIZE /\ dma.DPTR # PS2DMABUFSIZE
        /\ (dma.on /\ after.phase \notin {"presend", "exchange"}) \in BOOLEAN
    BY Size DEF TypesInv, Slots
  <2> QED BY <1>1, <2>1
<1>5. /\ kbd' \in [pos : -1 .. 10, sent : Seq(Bytes), again : BOOLEAN, clean : BOOLEAN,
                   edges : 0 .. 2, quiet : Nat]
      /\ kbd'.pos # NotSending \/ kbd'.again => kbd'.sent # <<>>
  <2> DEFINE q == IF kbd.pos # NotSending THEN 0
                  ELSE IF kbd.quiet > PS2TIME_RECEIVETIMEOUT + 1 THEN kbd.quiet
                       ELSE kbd.quiet + 1
             p == IF SendStart THEN NotSending ELSE kbd.pos
             a == kbd.again \/ (SendStart /\ kbd.pos # NotSending)
  <2>1. kbd \in [pos : -1 .. 10, sent : Seq(Bytes), again : BOOLEAN, clean : BOOLEAN,
                 edges : 0 .. 2, quiet : Nat]
        /\ (kbd.pos # NotSending \/ kbd.again => kbd.sent # <<>>)
    BY DEF TypesInv
  <2>2. q \in Nat /\ p \in -1 .. 10 /\ a \in BOOLEAN /\ 0 \in 0 .. 2
    BY <2>1 DEF NotSending
  <2>3. (p # NotSending => kbd.pos # NotSending) /\ (a => kbd.again \/ kbd.pos # NotSending)
    OBVIOUS
  <2>4. kbd' = [kbd EXCEPT !.edges = 0, !.quiet = q, !.pos = p, !.again = a]
    BY <1>1
  <2> HIDE DEF q, p, a
  <2>5. kbd' \in [pos : -1 .. 10, sent : Seq(Bytes), again : BOOLEAN, clean : BOOLEAN,
                  edges : 0 .. 2, quiet : Nat]
    BY <2>1, <2>2, <2>4, Zenon
  <2>6. kbd'.pos = p /\ kbd'.again = a /\ kbd'.sent = kbd.sent
    BY <2>1, <2>4
  <2> QED BY <2>1, <2>3, <2>5, <2>6
<1>6. prog' \in [at : InCall \cup {"idle", "hung"}, readpt : Slots, cut : BOOLEAN]
  BY <1>1 DEF TypesInv
<1>7. raced' \in BOOLEAN
  BY <1>1 DEF TypesInv
<1>8. budget' \in [flips : 0 .. MaxFlips, lost : 0 .. MaxLost, calls : 0 .. MaxCalls]
  BY <1>1 DEF TypesInv
<1> QED BY <1>2, <1>3, <1>4, <1>5, <1>6, <1>7, <1>8 DEF TypesInv

LEMMA TypesProgram ==
  ASSUME TypesInv,
         T5Loops \/ Call \/ DMADisable \/ Test \/ ReadSample \/ Load \/ Store \/ Wrap \/ SetStatus
  PROVE  TypesInv'
<1>1. /\ dma \in [on : BOOLEAN, data : [Slots -> Bits], DPTR : Slots, readpt : 0 .. PS2DMABUFSIZE]
      /\ prog \in [at : InCall \cup {"idle", "hung"}, readpt : Slots, cut : BOOLEAN]
      /\ dma.readpt = PS2DMABUFSIZE => prog.at \in {"wrap", "hung"}
      /\ dma.readpt \in 0 .. PS2DMABUFSIZE /\ prog.readpt \in Slots
  BY DEF TypesInv
<1>2. CASE T5Loops
  BY <1>1, <1>2 DEF T5Loops, TypesInv, InCall
<1>3. CASE Call
  <2>1. budget' \in [flips : 0 .. MaxFlips, lost : 0 .. MaxLost, calls : 0 .. MaxCalls]
    <3>1. budget.calls - 1 \in 0 .. MaxCalls
      BY <1>3, LineAssumption DEF Call, TypesInv
    <3> QED BY <1>3, <3>1 DEF Call, TypesInv
  <2> QED BY <1>1, <1>3, <2>1 DEF Call, At, TypesInv, InCall
<1>4. CASE DMADisable
  BY <1>1, <1>4 DEF DMADisable, At, TypesInv, InCall
<1>5. CASE Test
  BY <1>1, <1>5 DEF Test, At, TypesInv, InCall
<1>6. CASE ReadSample
  <2>1. dma.readpt \in Slots
    BY <1>1, <1>6, Size DEF ReadSample, At, Slots
  <2>2. dma.data[dma.readpt] \in Bits
    BY <1>1, <2>1
  <2>3. rx' \in Receivers
    BY <1>6, <2>2, ReceiveType DEF ReadSample, TypesInv
  <2> QED BY <1>1, <1>6, <2>3 DEF ReadSample, At, TypesInv, InCall
<1>7. CASE Load
  <2>1. dma.readpt \in Slots
    BY <1>1, <1>7, Size DEF Load, Slots
  <2> QED BY <1>1, <1>7, <2>1 DEF Load, TypesInv, InCall
<1>8. CASE Store
  <2>1. 0 \in Slots /\ prog.readpt + 1 \in 0 .. PS2DMABUFSIZE
    BY <1>1, Size DEF Slots
  <2> QED BY <1>1, <1>8, <2>1 DEF Store, TypesInv, InCall
<1>9. CASE Wrap
  <2> DEFINE p == IF dma.readpt = PS2DMABUFSIZE THEN 0 ELSE dma.readpt
  <2>1. p \in 0 .. PS2DMABUFSIZE /\ p # PS2DMABUFSIZE
    BY <1>1, Size
  <2>2. dma' = [dma EXCEPT !.readpt = p]
    BY <1>9 DEF Wrap
  <2> HIDE DEF p
  <2> QED BY <1>1, <1>9, <2>1, <2>2 DEF Wrap, At, TypesInv, InCall
<1>10. CASE SetStatus
  <2>1. /\ Start(FALSE) \in [phase : {"none", "presend", "exchange", "sent"}, resend : BOOLEAN,
                             count : 0 .. PS2TIME_PRESEND]
        /\ Start(FALSE).count >= 1
    BY Timeout DEF Start
  <2> QED BY <1>1, <1>10, <2>1 DEF SetStatus, TypesInv, InCall
<1> QED BY <1>2, <1>3, <1>4, <1>5, <1>6, <1>7, <1>8, <1>9, <1>10, Zenon

LEMMA Appended ==
  ASSUME NEW S, NEW s \in Seq(S), NEW e \in S
  PROVE  /\ Append(s, e) \in Seq(S) /\ Append(s, e) # <<>>
         /\ Len(Append(s, e)) = Len(s) + 1
         /\ \A i \in 1 .. Len(s) : Append(s, e)[i] = s[i]
         /\ Append(s, e)[Len(s) + 1] = e
BY AppendProperties

LEMMA RecordType ==
  ASSUME TypesInv, NEW d \in Bits, Record(d)
  PROVE  /\ dma' \in [on : BOOLEAN, data : [Slots -> Bits], DPTR : Slots,
                      readpt : 0 .. PS2DMABUFSIZE]
         /\ dma'.readpt = dma.readpt /\ dma'.on = dma.on
         /\ ~dma.on => dma' = dma
         /\ dma.on => dma'.DPTR = Succ(dma.DPTR) /\ dma'.data = [dma.data EXCEPT ![dma.DPTR] = d]
<1>1. /\ dma \in [on : BOOLEAN, data : [Slots -> Bits], DPTR : Slots, readpt : 0 .. PS2DMABUFSIZE]
      /\ dma.DPTR \in Slots /\ dma.data \in [Slots -> Bits]
  BY DEF TypesInv
<1>2. [dma.data EXCEPT ![dma.DPTR] = d] \in [Slots -> Bits]
  BY <1>1
<1>3. (dma.DPTR + 1) % PS2DMABUFSIZE = Succ(dma.DPTR) /\ Succ(dma.DPTR) \in Slots
  BY <1>1, RoundSucc
<1>4. dma.on => dma' = [dma EXCEPT !.data = [dma.data EXCEPT ![dma.DPTR] = d],
                                   !.DPTR = Succ(dma.DPTR)]
  BY <1>1, <1>3 DEF Record
<1>5. ~dma.on => dma' = dma
  BY DEF Record
<1> QED BY <1>1, <1>2, <1>3, <1>4, <1>5

LEMMA TypesStartFrame ==
  ASSUME TypesInv, StartFrame
  PROVE  TypesInv'
<1> DEFINE Kbds == [pos : -1 .. 10, sent : Seq(Bytes), again : BOOLEAN, clean : BOOLEAN,
                    edges : 0 .. 2, quiet : Nat]
<1>1. kbd \in Kbds /\ (kbd.pos # NotSending \/ kbd.again => kbd.sent # <<>>) /\ 0 \in -1 .. 10
  BY DEF TypesInv
<1>2. kbd' \in Kbds /\ kbd'.sent # <<>>
  <2>1. CASE kbd.again /\ kbd' = [kbd EXCEPT !.pos = 0, !.clean = TRUE, !.again = FALSE]
    BY <1>1, <2>1
  <2>2. ASSUME NEW b \in Bytes,
               kbd' = [kbd EXCEPT !.pos = 0, !.clean = TRUE, !.sent = Append(@, b)]
        PROVE  kbd' \in Kbds /\ kbd'.sent # <<>>
    <3>1. kbd.sent \in Seq(Bytes)
      BY <1>1
    <3>2. Append(kbd.sent, b) \in Seq(Bytes) /\ Append(kbd.sent, b) # <<>>
      BY <3>1, Appended
    <3> QED BY <1>1, <2>2, <3>2
  <2> QED BY <2>1, <2>2 DEF StartFrame
<1> QED BY <1>1, <1>2 DEF StartFrame, TypesInv

(* The bit on the line, and the keyboard after it. *)
Bit == FrameBit(Sending, kbd.pos)
NextKbd == [kbd EXCEPT !.pos = IF @ = 10 THEN NotSending ELSE @ + 1, !.edges = @ + 1, !.quiet = 0]

LEMMA SendingType ==
  ASSUME TypesInv, kbd.pos # NotSending
  PROVE  /\ Sending \in Byte /\ kbd.pos \in 0 .. 10 /\ Len(kbd.sent) >= 1
         /\ Bit \in Bits /\ 1 - Bit \in Bits
<1>1. kbd.sent \in Seq(Bytes) /\ kbd.sent # <<>> /\ kbd.pos \in -1 .. 10
  BY DEF TypesInv
<1>2. Len(kbd.sent) \in 1 .. Len(kbd.sent) /\ Len(kbd.sent) >= 1
  BY <1>1
<1>3. Sending \in Bytes
  BY <1>1, <1>2 DEF Sending
<1>4. Sending \in Byte
  BY <1>3, LineAssumption DEF Byte, Bits
<1>5. kbd.pos \in 0 .. 10
  BY <1>1 DEF NotSending
<1> QED BY <1>2, <1>4, <1>5, FrameBitType DEF Bit

(* An edge: recorded as it is, turned, or missed. *)
LEMMA EdgeCases ==
  ASSUME TypesInv, Edge
  PROVE  /\ kbd.pos # NotSending /\ kbd.edges < 2 /\ cmd.phase # "exchange"
         /\ rx' = rx /\ cmd' = cmd /\ prog' = prog /\ raced' = raced
         /\ \/ Record(Bit) /\ kbd' = NextKbd /\ budget' = budget
            \/ /\ kbd.clean /\ budget.flips > 0 /\ budget.lost = MaxLost
               /\ budget' = [budget EXCEPT !.flips = @ - 1]
               /\ Record(1 - Bit) /\ kbd' = [NextKbd EXCEPT !.clean = FALSE]
            \/ /\ budget.lost > 0 /\ budget.flips = MaxFlips
               /\ budget' = [budget EXCEPT !.lost = @ - 1]
               /\ kbd' = NextKbd /\ dma' = dma
BY DEF Edge, Bit, NextKbd, Sending

LEMMA TypesEdge ==
  ASSUME TypesInv, Edge
  PROVE  TypesInv'
<1> DEFINE Kbds == [pos : -1 .. 10, sent : Seq(Bytes), again : BOOLEAN, clean : BOOLEAN,
                    edges : 0 .. 2, quiet : Nat]
           Dmas == [on : BOOLEAN, data : [Slots -> Bits], DPTR : Slots,
                    readpt : 0 .. PS2DMABUFSIZE]
           Budgets == [flips : 0 .. MaxFlips, lost : 0 .. MaxLost, calls : 0 .. MaxCalls]
<1>1. kbd.pos # NotSending /\ kbd.edges < 2 /\ kbd.sent # <<>>
  BY EdgeCases DEF TypesInv
<1>2. kbd \in Kbds /\ dma \in Dmas /\ budget \in Budgets
  BY DEF TypesInv
<1>3. NextKbd \in Kbds /\ NextKbd.sent = kbd.sent
      /\ [NextKbd EXCEPT !.clean = FALSE] \in Kbds
      /\ [NextKbd EXCEPT !.clean = FALSE].sent = kbd.sent
  <2> DEFINE p == IF kbd.pos = 10 THEN NotSending ELSE kbd.pos + 1
             e == kbd.edges + 1
  <2>1. p \in -1 .. 10 /\ e \in 0 .. 2 /\ 0 \in Nat
    <3>1. kbd.pos \in -1 .. 10 /\ kbd.edges \in 0 .. 2
      BY <1>2
    <3> QED BY <1>1, <3>1 DEF NotSending
  <2>2. NextKbd = [kbd EXCEPT !.pos = p, !.edges = e, !.quiet = 0]
    BY DEF NextKbd
  <2> HIDE DEF p, e
  <2>3. NextKbd \in Kbds
    BY <1>2, <2>1, <2>2, Zenon
  <2>4. NextKbd.sent = kbd.sent
    BY <1>2, <2>2
  <2> QED BY <2>3, <2>4
<1>4. kbd' \in Kbds /\ kbd'.sent = kbd.sent
  BY <1>3, EdgeCases
<1>5. dma' \in Dmas /\ dma'.readpt = dma.readpt
  BY <1>1, <1>2, EdgeCases, RecordType, SendingType
<1>6. budget' \in Budgets
  <2>1. budget.flips \in 0 .. MaxFlips /\ budget.lost \in 0 .. MaxLost
    BY <1>2
  <2>2. budget.flips > 0 => budget.flips - 1 \in 0 .. MaxFlips
    BY <2>1, LineAssumption
  <2>3. budget.lost > 0 => budget.lost - 1 \in 0 .. MaxLost
    BY <2>1, LineAssumption
  <2> QED BY <1>2, <2>2, <2>3, EdgeCases
<1> QED BY <1>1, <1>4, <1>5, <1>6, EdgeCases DEF TypesInv

LEMMA TypesExchanged ==
  ASSUME TypesInv, Exchanged
  PROVE  TypesInv'
<1>1. kbd.sent # <<>> \/ (kbd.again' <=> kbd.again)
  BY DEF Exchanged, TypesInv
<1> QED BY <1>1 DEF Exchanged, TypesInv

-----------------------------------------------------------------------------
(* What ps2receive() makes of a sample, field by field. *)
LEMMA ReceiveFields ==
  ASSUME NEW g \in Receivers, NEW d \in Bits, NEW r, r = Receive(g, d)
  PROVE  /\ g.receiveError => r = g
         /\ ~g.receiveError => 
              /\ (r.receiveError /\ r.receivecount = g.receivecount) \/ ~r.receiveError
              /\ g.receivecount = 0 => 
                   /\ r.got = g.got /\ (r.receiveError <=> d = 1)
                   /\ d = 0 => r.receivecount = 1 /\ r.receivetime = 0
              /\ g.receivecount \in 1 .. 8 =>
                   /\ ~r.receiveError /\ r.receivecount = g.receivecount + 1
                   /\ r.receivetime = g.receivetime /\ r.got = g.got
                   /\ \A i \in 1 .. 8 :
                        r.receivedata[i] = IF i = 8 THEN d ELSE g.receivedata[i + 1]
              /\ g.receivecount = 9 =>
                   /\ r.receiveError <=> ~OddParity(g.receivedata, d)
                   /\ ~r.receiveError => r.receivecount = 10
                   /\ r.receivetime = g.receivetime /\ r.got = g.got
                   /\ r.receivedata = g.receivedata
              /\ g.receivecount = 10 =>
                   /\ r.receiveError <=> d = 0
                   /\ d = 0 => r.got = g.got
                   /\ d = 1 => /\ r.receivecount = 0
                               /\ r.got = Append(g.got, g.receivedata)
<1>1. /\ g.receivecount \in 0 .. 10 /\ g.receivedata \in Byte
      /\ g.receiveError \in BOOLEAN
      /\ g = [receivecount |-> g.receivecount, receivedata |-> g.receivedata,
              receiveError |-> g.receiveError, receivetime |-> g.receivetime, got |-> g.got]
  BY Zenon DEF Receivers
<1>2. CASE g.receiveError
  BY <1>2 DEF Receive
<1>3. CASE ~g.receiveError /\ g.receivecount = 0
  BY <1>1, <1>3 DEF Receive, Error, Bits
<1>4. CASE ~g.receiveError /\ g.receivecount \in 1 .. 8
  <2> DEFINE data == Append(Tail(g.receivedata), d)
  <2>1. \A i \in 1 .. 8 : data[i] = IF i = 8 THEN d ELSE g.receivedata[i + 1]
    <3>1. data = [i \in 1 .. 8 |-> IF i = 8 THEN d ELSE g.receivedata[i + 1]]
      BY <1>1, Shift
    <3> HIDE DEF data
    <3> QED BY <3>1
  <2>2. r = [g EXCEPT !.receivedata = data, !.receivecount = @ + 1]
    BY <1>1, <1>4 DEF Receive
  <2> HIDE DEF data
  <2> QED BY <1>1, <1>4, <2>1, <2>2
<1>5. CASE ~g.receiveError /\ g.receivecount = 9
  BY <1>1, <1>5 DEF Receive, Error
<1>6. CASE ~g.receiveError /\ g.receivecount = 10
  BY <1>1, <1>6 DEF Receive, Error, Between, Bits
<1> QED BY <1>1, <1>2, <1>3, <1>4, <1>5, <1>6

(* An error keeps the count, and bytes only come at the end. *)
LEMMA ReceiveGrows ==
  ASSUME NEW g \in Receivers, NEW d \in Bits
  PROVE  /\ Receive(g, d).got = g.got
            \/ Receive(g, d).got = Append(g.got, g.receivedata)
         /\ Receive(g, d).got # g.got =>
              /\ ~g.receiveError /\ ~Receive(g, d).receiveError
              /\ g.receivecount = 10 /\ d = 1
<1> DEFINE r == Receive(g, d)
<1>1. r = Receive(g, d)
  OBVIOUS
<1>2. g.receivecount \in 0 .. 10 /\ g.receiveError \in BOOLEAN
  BY Zenon DEF Receivers
<1> HIDE DEF r
<1>3. CASE g.receiveError
  BY <1>1, <1>3, ReceiveFields
<1>4. CASE ~g.receiveError /\ g.receivecount = 0
  BY <1>1, <1>4, ReceiveFields
<1>5. CASE ~g.receiveError /\ g.receivecount \in 1 .. 8
  BY <1>1, <1>5, ReceiveFields
<1>6. CASE ~g.receiveError /\ g.receivecount = 9
  BY <1>1, <1>6, ReceiveFields
<1>7. CASE ~g.receiveError /\ g.receivecount = 10
  BY <1>1, <1>7, ReceiveFields DEF Bits
<1> QED BY <1>1, <1>2, <1>3, <1>4, <1>5, <1>6, <1>7

-----------------------------------------------------------------------------
(* The view. *)
LEMMA FirstSlot ==
  ASSUME TypesInv
  PROVE  /\ First \in Slots /\ Succ(First) \in Slots /\ dma.DPTR \in Slots
         /\ Waiting \in Slots
         /\ dma.data \in [Slots -> Bits]
         /\ dma.data[First] \in Bits /\ dma.data[Succ(First)] \in Bits
<1>1. dma.readpt \in 0 .. PS2DMABUFSIZE /\ dma.DPTR \in Slots /\ dma.data \in [Slots -> Bits]
      /\ (dma.readpt = PS2DMABUFSIZE => prog.at \in {"wrap", "hung"})
  BY DEF TypesInv
<1>2. dma.readpt # PS2DMABUFSIZE => dma.readpt \in Slots
  BY <1>1, Size DEF Slots
<1>3. First \in Slots
  <2>1. 0 \in Slots
    BY Size DEF Slots
  <2>2. CASE prog.at \in {"load", "store"}
    BY <1>1, <1>2, <2>2, RoundSucc DEF First
  <2>3. CASE prog.at \notin {"load", "store"}
    BY <1>1, <1>2, <2>1, <2>3 DEF First
  <2> QED BY <2>2, <2>3
<1>4. Succ(First) \in Slots
  BY <1>3, RoundSucc
<1>5. Waiting \in Slots
  BY <1>1, <1>3, RoundAhead DEF Waiting
<1> QED BY <1>1, <1>3, <1>4, <1>5

LEMMA ViewType ==
  ASSUME TypesInv
  PROVE  View \in Receivers /\ rx \in Receivers
<1>1. rx \in Receivers
  BY DEF TypesInv
<1>2. Receive(rx, dma.data[First]) \in Receivers
  BY <1>1, FirstSlot, ReceiveType
<1>3. Receive(Receive(rx, dma.data[First]), dma.data[Succ(First)]) \in Receivers
  BY <1>2, FirstSlot, ReceiveType
<1> QED BY <1>1, <1>2, <1>3 DEF View

LEMMA ViewSame ==
  ASSUME rx' = rx, First' = First, dma'.DPTR = dma.DPTR, dma'.data = dma.data
  PROVE  View' = View /\ Waiting' = Waiting
BY DEF View, Waiting

LEMMA AheadSteps ==
  ASSUME NEW p \in Slots, NEW q \in Slots
  PROVE  /\ Ahead(p, q) = 0 <=> p = q
         /\ Ahead(p, q) = 1 <=> q = Succ(p)
         /\ Ahead(p, Succ(p)) = 1 /\ Ahead(p, Succ(Succ(p))) = 2
         /\ Ahead(p, q) > 0 => Ahead(Succ(p), q) = Ahead(p, q) - 1
         /\ Succ(p) # p /\ Succ(Succ(p)) # p
BY Size DEF Slots, Ahead, Succ

LEMMA ViewRecord ==
  ASSUME TypesInv, Waiting <= 1, dma.on, NEW d \in Bits, Record(d), rx' = rx, prog' = prog
  PROVE  View' = Receive(View, d) /\ Waiting' = Waiting + 1
<1>1. /\ dma'.readpt = dma.readpt /\ dma'.DPTR = Succ(dma.DPTR)
      /\ dma'.data = [dma.data EXCEPT ![dma.DPTR] = d]
  BY RecordType
<1>2. First' = First
  BY <1>1 DEF First
<1>3. /\ First \in Slots /\ Succ(First) \in Slots /\ dma.DPTR \in Slots /\ Waiting \in Slots
      /\ dma.data \in [Slots -> Bits]
  BY FirstSlot
<1>4. CASE Waiting = 0
  <2>1. dma.DPTR = First
    BY <1>3, <1>4, AheadSteps DEF Waiting
  <2>2. Waiting' = 1
    BY <1>1, <1>2, <1>3, <2>1, AheadSteps DEF Waiting
  <2>3. dma'.data[First] = d
    BY <1>1, <1>3, <2>1
  <2>4. View' = Receive(rx, d) /\ View = rx
    BY <1>2, <1>4, <2>2, <2>3 DEF View
  <2> QED BY <1>4, <2>2, <2>4
<1>5. CASE Waiting = 1
  <2>1. dma.DPTR = Succ(First) /\ First # dma.DPTR
    BY <1>3, <1>5, AheadSteps DEF Waiting
  <2>2. Waiting' = 2
    BY <1>1, <1>2, <1>3, <2>1, AheadSteps DEF Waiting
  <2>3. dma'.data[First] = dma.data[First] /\ dma'.data[Succ(First)] = d
    BY <1>1, <1>3, <2>1
  <2>4. View' = Receive(Receive(rx, dma.data[First]), d) /\ View = Receive(rx, dma.data[First])
    BY <1>2, <1>5, <2>2, <2>3 DEF View
  <2> QED BY <1>5, <2>2, <2>4
<1> QED BY <1>3, <1>4, <1>5 DEF Slots

(* The drain ends where the view is. *)
LEMMA DrainIsView ==
  ASSUME TypesInv, prog.at \notin Draining, prog.at # "hung", Waiting <= 2
  PROVE  GetDMABUFdata(rx) = View /\ First = dma.readpt /\ dma.readpt \in Slots
<1>1. dma.readpt \in Slots
  BY Size DEF TypesInv, Draining, Slots
<1>2. First = dma.readpt
  BY <1>1, Size DEF First, Draining, Slots
<1>3. Unread = Waiting /\ Unread \in Slots
  BY <1>1, <1>2, UnreadSamples DEF Waiting
<1>4. PICK read : GetDMABUFdata(rx) = read[Unread] /\ Reads(read, rx, Samples, Unread)
  BY <1>3, Drain DEF Slots
<1>5. CASE Waiting = 0
  <2>1. read[0] = rx
    BY <1>3, <1>4, <1>5 DEF Reads
  <2> QED BY <1>1, <1>2, <1>3, <1>4, <1>5, <2>1 DEF View
<1>6. CASE Waiting = 1
  <2>1. read[0] = rx /\ read[1] = Receive(read[0], Samples[1])
    BY <1>3, <1>4, <1>6 DEF Reads
  <2>2. Samples[1] = dma.data[First]
    BY <1>1, <1>2, <1>3, <1>6, UnreadSamples
  <2> QED BY <1>1, <1>2, <1>3, <1>4, <1>6, <2>1, <2>2 DEF View
<1>7. CASE Waiting = 2
  <2>1. read[0] = rx /\ read[1] = Receive(read[0], Samples[1])
        /\ read[2] = Receive(read[1], Samples[2])
    BY <1>3, <1>4, <1>7 DEF Reads
  <2>2. Samples[1] = dma.data[First] /\ Samples[2] = dma.data[Succ(First)]
    BY <1>1, <1>2, <1>3, <1>7, UnreadSamples
  <2> QED BY <1>1, <1>2, <1>3, <1>4, <1>7, <2>1, <2>2 DEF View
<1> QED BY <1>3, <1>5, <1>6, <1>7 DEF Slots

(* A step of the program's drain: what it has looked at leaves the ring. *)
LEMMA ViewProgram ==
  ASSUME TypesInv, ControlInv, Waiting <= 2,
         DMADisable \/ Test \/ ReadSample \/ Load \/ Store \/ Wrap
  PROVE  /\ View' = View /\ Waiting' <= Waiting
         /\ prog'.at = "read" => Waiting' > 0
         /\ prog'.at = "set" => Waiting' = 0
         /\ prog'.at = "store" => prog'.readpt = dma'.readpt
<1>1. /\ dma.readpt \in 0 .. PS2DMABUFSIZE
      /\ dma.readpt = PS2DMABUFSIZE => prog.at \in {"wrap", "hung"}
      /\ prog \in [at : InCall \cup {"idle", "hung"}, readpt : Slots, cut : BOOLEAN]
      /\ dma \in [on : BOOLEAN, data : [Slots -> Bits], DPTR : Slots, readpt : 0 .. PS2DMABUFSIZE]
  BY DEF TypesInv
<1>2. First \in Slots /\ dma.DPTR \in Slots /\ Waiting \in Slots
  BY FirstSlot
<1>3. Waiting <= Waiting /\ (Waiting > 0 \/ Waiting = 0)
  BY <1>2, Size DEF Slots
<1>4. CASE DMADisable
  <2>1. rx' = rx /\ First' = First /\ dma'.DPTR = dma.DPTR /\ dma'.data = dma.data
        /\ prog'.at = "test"
    BY <1>1, <1>4 DEF DMADisable, At, First
  <2> QED BY <1>3, <2>1, ViewSame
<1>5. CASE Test
  <2>1. /\ rx' = rx /\ First' = First /\ dma'.DPTR = dma.DPTR /\ dma'.data = dma.data
        /\ First = dma.readpt
        /\ prog'.at = IF dma.readpt = dma.DPTR THEN "set" ELSE "read"
    BY <1>1, <1>5 DEF Test, At, First
  <2>2. Waiting = 0 <=> First = dma.DPTR
    BY <1>2, AheadSteps DEF Waiting
  <2> QED BY <1>3, <2>1, <2>2, ViewSame
<1>6. CASE ReadSample
  <2>1. /\ First = dma.readpt /\ First' = Succ(First) /\ dma' = dma
        /\ rx' = Receive(rx, dma.data[First]) /\ prog'.at = "load"
    BY <1>1, <1>6 DEF ReadSample, At, First
  <2>2. Waiting > 0
    BY <1>6 DEF ReadSample, At, ControlInv
  <2>3. Waiting' = Waiting - 1
    BY <1>2, <2>1, <2>2, AheadSteps DEF Waiting
  <2>4. Waiting \in {1, 2}
    BY <1>2, <2>2, Size DEF Slots
  <2>5. View' = View
    BY <2>1, <2>3, <2>4 DEF View
  <2> QED BY <2>1, <2>3, <2>4, <2>5
<1>7. CASE Load
  <2>1. rx' = rx /\ First' = First /\ dma' = dma /\ prog'.at = "store"
        /\ prog'.readpt = dma.readpt
    BY <1>1, <1>7 DEF Load, First
  <2> QED BY <1>3, <2>1, ViewSame
<1>8. CASE Store
  <2>1. prog.at = "store" /\ prog'.at = "wrap" /\ dma'.readpt = prog.readpt + 1
        /\ rx' = rx /\ dma'.DPTR = dma.DPTR /\ dma'.data = dma.data
    BY <1>1, <1>8 DEF Store
  <2>2. prog.readpt = dma.readpt /\ dma.readpt \in Slots
    BY <1>1, <2>1, Size DEF ControlInv, Slots
  <2>3. First = Succ(dma.readpt)
    BY <2>1 DEF First
  <2>4. First' = Succ(dma.readpt)
    BY <2>1, <2>2, Size DEF First, Succ, Slots
  <2> QED BY <1>3, <2>1, <2>3, <2>4, ViewSame
<1>9. CASE Wrap
  <2>1. prog.at = "wrap" /\ prog'.at = "test" /\ rx' = rx
        /\ dma'.readpt = (IF dma.readpt = PS2DMABUFSIZE THEN 0 ELSE dma.readpt)
        /\ dma'.DPTR = dma.DPTR /\ dma'.data = dma.data
    BY <1>1, <1>9 DEF Wrap, At
  <2>2. First' = First
    BY <2>1, Size DEF First
  <2> QED BY <1>3, <2>1, <2>2, ViewSame
<1> QED BY <1>4, <1>5, <1>6, <1>7, <1>8, <1>9

-----------------------------------------------------------------------------
(* T5Handler, outside of a drain. *)
LEMMA SeenFields ==
  ASSUME NEW g \in Receivers, NEW r, r = Seen(g)
  PROVE  /\ r \in Receivers /\ r.got = g.got /\ r.receivedata = g.receivedata
         /\ r.receiveError <=> g.receiveError /\ ~(cmd.phase = "sent" /\ ~cmd.resend)
         /\ SendStart => r.receivecount = 0
         /\ g.receivecount = 0 => r.receivecount = 0
         /\ ~SendStart /\ g.receivecount > 0 /\ g.receivetime < PS2TIME_RECEIVETIMEOUT =>
              r.receivecount = g.receivecount /\ r.receivetime = g.receivetime + 1
         /\ g.receivetime >= PS2TIME_RECEIVETIMEOUT => r.receivecount = 0
<1>1. r \in Receivers
  BY AfterDrainType DEF Seen
<1>2. /\ g = [receivecount |-> g.receivecount, receivedata |-> g.receivedata,
              receiveError |-> g.receiveError, receivetime |-> g.receivetime, got |-> g.got]
      /\ g.receivecount \in 0 .. 10 /\ g.receivetime \in 0 .. PS2TIME_RECEIVETIMEOUT
      /\ g.receiveError \in BOOLEAN
  BY Zenon DEF Receivers
<1> DEFINE h == ClearError(ResetCount(g))
<1>3. /\ h \in [receivecount : 0 .. 10, receivedata : {g.receivedata}, receiveError : BOOLEAN,
                receivetime : 0 .. PS2TIME_RECEIVETIMEOUT, got : {g.got}]
      /\ h.receiveError <=> g.receiveError /\ ~(cmd.phase = "sent" /\ ~cmd.resend)
      /\ SendStart => h.receivecount = 0
      /\ ~SendStart => h.receivecount = g.receivecount /\ h.receivetime = g.receivetime
      /\ g.receivecount = 0 => h.receivecount = 0
  <2> DEFINE k == ResetCount(g)
  <2>1. /\ k \in [receivecount : 0 .. 10, receivedata : {g.receivedata},
                  receiveError : {g.receiveError},
                  receivetime : 0 .. PS2TIME_RECEIVETIMEOUT, got : {g.got}]
        /\ SendStart => k.receivecount = 0
        /\ ~SendStart => k.receivecount = g.receivecount /\ k.receivetime = g.receivetime
        /\ g.receivecount = 0 => k.receivecount = 0
    <3>1. CASE SendStart
      <4>1. k = [receivecount |-> 0, receivedata |-> g.receivedata,
                 receiveError |-> g.receiveError, receivetime |-> 0, got |-> g.got]
        BY <1>2, <3>1 DEF ResetCount, Between
      <4>2. 0 \in 0 .. 10 /\ 0 \in 0 .. PS2TIME_RECEIVETIMEOUT
        BY Timeout
      <4> HIDE DEF k
      <4> QED BY <3>1, <4>1, <4>2
    <3>2. CASE ~SendStart
      BY <1>2, <3>2 DEF ResetCount
    <3> QED BY <3>1, <3>2
  <2> HIDE DEF k
  <2>2. h = ClearError(k)
    BY DEF k
  <2>3. CASE cmd.phase = "sent" /\ ~cmd.resend
    <3>1. h = [k EXCEPT !.receiveError = FALSE]
      BY <2>2, <2>3 DEF ClearError
    <3> HIDE DEF h
    <3> QED BY <2>1, <2>3, <3>1
  <2>4. CASE ~(cmd.phase = "sent" /\ ~cmd.resend)
    <3>1. h = k
      BY <2>2, <2>4 DEF ClearError
    <3> HIDE DEF h
    <3> QED BY <1>2, <2>1, <2>4, <3>1
  <2> QED BY <2>3, <2>4
<1>4. r = ReceiveTimeout(h)
  BY DEF Seen
<1> HIDE DEF h
<1>5. CASE h.receivecount = 0
  <2>1. r = h
    BY <1>4, <1>5 DEF ReceiveTimeout
  <2> QED BY <1>1, <1>2, <1>3, <1>5, <2>1
<1>6. CASE h.receivecount # 0 /\ h.receivetime < PS2TIME_RECEIVETIMEOUT
  <2>1. ~(h.receivetime >= PS2TIME_RECEIVETIMEOUT)
    BY <1>3, <1>6, Timeout
  <2>2. r = [h EXCEPT !.receivetime = @ + 1]
    BY <1>4, <1>6, <2>1 DEF ReceiveTimeout
  <2> QED BY <1>1, <1>2, <1>3, <1>6, <2>1, <2>2
<1>7. CASE h.receivecount # 0 /\ h.receivetime >= PS2TIME_RECEIVETIMEOUT
  <2>1. ~(h.receivetime < PS2TIME_RECEIVETIMEOUT)
    BY <1>3, <1>7, Timeout
  <2>2. r = Between(h)
    BY <1>4, <1>7, <2>1 DEF ReceiveTimeout
  <2> QED BY <1>1, <1>2, <1>3, <1>7, <2>1, <2>2 DEF Between
<1>8. h.receivetime \in 0 .. PS2TIME_RECEIVETIMEOUT
  BY <1>3
<1> QED BY <1>5, <1>6, <1>7, <1>8, Timeout

LEMMA AfterPhases ==
  ASSUME TypesInv, NEW err \in BOOLEAN, NEW lock \in BOOLEAN, NEW c, c = After(err, lock)
  PROVE  /\ SendStart => c.phase = "exchange" /\ c.resend = cmd.resend
         /\ cmd.phase = "exchange" => c.phase = "exchange" /\ c.resend = cmd.resend
         /\ cmd.phase = "presend" /\ ~SendStart =>
              c.phase = "presend" /\ c.resend = cmd.resend /\ c.count = cmd.count - 1
         /\ cmd.phase \in {"none", "sent"} =>
              /\ err => c = Start(TRUE)
              /\ ~err /\ lock => c = Start(FALSE)
              /\ ~err /\ ~lock => c.phase = "none"
<1>1. /\ cmd \in [phase : {"none", "presend", "exchange", "sent"}, resend : BOOLEAN,
                  count : 0 .. PS2TIME_PRESEND]
      /\ cmd.phase = "presend" => cmd.count >= 1
  BY DEF TypesInv
<1>2. /\ SendStart => Status.phase = "exchange" /\ Status.resend = cmd.resend
      /\ cmd.phase = "exchange" => Status.phase = "exchange" /\ Status.resend = cmd.resend
      /\ cmd.phase = "presend" /\ ~SendStart =>
           Status.phase = "presend" /\ Status.resend = cmd.resend
           /\ Status.count = cmd.count - 1
      /\ cmd.phase \in {"none", "sent"} => Status.phase = "none"
  <2>1. CASE SendStart
    BY <1>1, <2>1 DEF Status, SendStart
  <2>2. CASE ~SendStart /\ cmd.phase = "sent"
    BY <1>1, <2>2 DEF Status, NoCommand
  <2>3. CASE ~SendStart /\ cmd.phase # "sent"
    BY <1>1, <2>3 DEF Status, Progress
  <2> QED BY <2>1, <2>2, <2>3
<1>3. Status.phase # "none" => c = Status
  BY DEF After, Command
<1>4. Status.phase = "none" =>
        /\ err => c = Start(TRUE)
        /\ ~err /\ lock => c = Start(FALSE)
        /\ ~err /\ ~lock => c = Status
  BY DEF After, Command, Start
<1> QED BY <1>2, <1>3, <1>4

LEMMA T5View ==
  ASSUME TypesInv, ControlInv, T5Handler, ~raced'
  PROVE  /\ prog.at \in {"idle", "disable", "set"} /\ prog'.at = prog.at
         /\ prog.at # "idle" => ~prog.cut /\ prog'.cut
         /\ \E g \in Receivers :
              /\ g = Seen(View) /\ rx' = [g EXCEPT !.receiveError = FALSE]
              /\ cmd' = After(g.receiveError, NewLock(g))
              /\ dma'.on = (dma.on /\ cmd'.phase \notin {"presend", "exchange"})
         /\ Waiting' = 0 /\ View' = rx' /\ ~raced
<1> DEFINE g == Seen(GetDMABUFdata(rx))
           after == After(g.receiveError, NewLock(g))
<1>1. /\ prog.at # "hung" /\ dma.readpt \in Slots
      /\ rx' = [g EXCEPT !.receiveError = FALSE]
      /\ cmd' = after
      /\ dma' = [dma EXCEPT !.readpt = dma.DPTR,
                            !.on = @ /\ after.phase \notin {"presend", "exchange"}]
      /\ prog.at # "idle" => ~prog.cut
      /\ prog' = [prog EXCEPT !.cut = prog.at # "idle"]
      /\ raced' = (raced \/ prog.at \in Draining)
  BY T5Cases
<1>2. /\ prog \in [at : InCall \cup {"idle", "hung"}, readpt : Slots, cut : BOOLEAN]
      /\ dma \in [on : BOOLEAN, data : [Slots -> Bits], DPTR : Slots, readpt : 0 .. PS2DMABUFSIZE]
  BY DEF TypesInv
<1>3. prog.at \notin Draining /\ ~raced
  BY <1>1
<1>4. prog.at \in {"idle", "disable", "set"}
  BY <1>1, <1>2, <1>3 DEF Draining, InCall
<1>5. Waiting <= 2
  BY FirstSlot, Size DEF ControlInv, TypesInv, Slots
<1>6. GetDMABUFdata(rx) = View
  BY <1>1, <1>3, <1>5, DrainIsView
<1>7. g \in Receivers /\ g = Seen(View)
  <2>1. Seen(View) \in Receivers
    BY ViewType, SeenFields
  <2> QED BY <1>6, <2>1
<1>8. /\ prog'.at = prog.at /\ (prog.at # "idle" => prog'.cut)
      /\ dma'.on = (dma.on /\ after.phase \notin {"presend", "exchange"})
      /\ dma'.readpt = dma.DPTR /\ dma'.DPTR = dma.DPTR
  <2> HIDE DEF after
  <2> QED BY <1>1, <1>2
<1>9. Waiting' = 0
  <2>1. First' = dma.DPTR
    BY <1>2, <1>4, <1>8, Size DEF First, Slots
  <2> QED BY <1>2, <1>8, <2>1, AheadSteps DEF Waiting
<1>10. View' = rx'
  BY <1>9 DEF View
<1> HIDE DEF g, after
<1>11. /\ g = Seen(View) /\ rx' = [g EXCEPT !.receiveError = FALSE]
       /\ cmd' = After(g.receiveError, NewLock(g))
       /\ dma'.on = (dma.on /\ cmd'.phase \notin {"presend", "exchange"})
  BY <1>1, <1>7, <1>8 DEF after
<1> QED BY <1>1, <1>3, <1>4, <1>7, <1>8, <1>9, <1>10, <1>11

-----------------------------------------------------------------------------
(* The parts of the driver keep their places. *)
LEMMA ControlInit ==
  ASSUME TypesInv, Init
  PROVE  ControlInv
<1>1. Waiting = 0
  BY Size DEF Init, Waiting, First, Ahead
<1>2. View = rx
  BY <1>1 DEF View
<1> QED BY <1>1, <1>2, LineAssumption DEF Init, ControlInv, NoCommand, Draining, NotSending

LEMMA ControlT5 ==
  ASSUME TypesInv, TypesInv', ControlInv, T5Handler, ~raced'
  PROVE  ControlInv'
<1>1. /\ prog.at \in {"idle", "disable", "set"} /\ prog'.at = prog.at
      /\ prog.at # "idle" => ~prog.cut /\ prog'.cut
      /\ Waiting' = 0 /\ View' = rx'
  BY T5View
<1>2. PICK g \in Receivers :
        /\ g = Seen(View) /\ rx' = [g EXCEPT !.receiveError = FALSE]
        /\ cmd' = After(g.receiveError, NewLock(g))
        /\ dma'.on = (dma.on /\ cmd'.phase \notin {"presend", "exchange"})
  BY T5View
<1>3. /\ kbd.pos # NotSending => kbd.edges > 0
      /\ kbd' = [kbd EXCEPT
                   !.edges = 0,
                   !.quiet = IF kbd.pos # NotSending THEN 0
                             ELSE IF @ > PS2TIME_RECEIVETIMEOUT + 1 THEN @ ELSE @ + 1,
                   !.pos = IF SendStart THEN NotSending ELSE @,
                   !.again = @ \/ (SendStart /\ kbd.pos # NotSending)]
      /\ budget' = budget
  BY T5Cases
<1>4. /\ kbd'.edges = 0 /\ kbd'.sent = kbd.sent /\ kbd'.clean = kbd.clean
      /\ SendStart => kbd'.pos = NotSending
      /\ ~SendStart => kbd'.pos = kbd.pos /\ kbd'.again = kbd.again
      /\ kbd.edges \in 0 .. 2 /\ kbd.quiet \in Nat
  BY <1>3 DEF TypesInv
<1>5. rx'.receivecount = g.receivecount /\ ~rx'.receiveError
  BY <1>2 DEF Receivers
<1>6. /\ g.receiveError \in BOOLEAN /\ NewLock(g) \in BOOLEAN
      /\ cmd.phase \in {"none", "presend", "exchange", "sent"} /\ cmd.resend \in BOOLEAN
      /\ dma.on \in BOOLEAN
  BY DEF Receivers, NewLock, TypesInv
<1>7. /\ SendStart => cmd'.phase = "exchange" /\ cmd'.resend = cmd.resend
      /\ cmd.phase = "exchange" => cmd'.phase = "exchange" /\ cmd'.resend = cmd.resend
      /\ cmd.phase = "presend" /\ ~SendStart =>
           cmd'.phase = "presend" /\ cmd'.resend = cmd.resend
      /\ cmd.phase \in {"none", "sent"} =>
           /\ g.receiveError => cmd' = Start(TRUE)
           /\ ~g.receiveError /\ NewLock(g) => cmd' = Start(FALSE)
           /\ ~g.receiveError /\ ~NewLock(g) => cmd'.phase = "none"
  BY <1>2, <1>6, AfterPhases
<1>8. SendStart => cmd.phase = "presend"
  BY DEF SendStart
<1>9. cmd'.phase \in {"none", "presend", "exchange"}
      /\ (cmd.phase \in {"none", "sent"} => cmd'.phase \in {"none", "presend"})
      /\ (cmd.phase \in {"presend", "exchange"} => cmd'.phase \in {"presend", "exchange"})
  BY <1>6, <1>7, <1>8 DEF Start
<1>10. cmd'.phase = "exchange" => kbd'.pos = NotSending /\ rx'.receivecount = 0
  <2>1. CASE SendStart
    <3>1. g.receivecount = 0
      BY <1>2, <2>1, ViewType, SeenFields
    <3> QED BY <1>4, <1>5, <2>1, <3>1
  <2>2. CASE ~SendStart /\ cmd.phase = "exchange"
    <3>1. Waiting = 0 /\ rx.receivecount = 0 /\ kbd.pos = NotSending
      BY <1>4, <2>2, FirstSlot DEF ControlInv, Slots
    <3>2. View.receivecount = 0
      BY <3>1 DEF View
    <3>3. g.receivecount = 0
      BY <1>2, <3>2, ViewType, SeenFields
    <3> QED BY <1>4, <1>5, <2>2, <3>1, <3>3
  <2> QED BY <1>6, <1>7, <1>9, <2>1, <2>2
<1>11. cmd'.phase \in {"presend", "exchange"} /\ cmd'.resend => kbd'.sent # <<>>
  <2>1. g.receiveError => View.receiveError
    BY <1>2, ViewType, SeenFields
  <2>2. g.receiveError => kbd.sent # <<>>
    BY <2>1 DEF ControlInv
  <2>3. cmd.phase \in {"presend", "exchange"} /\ cmd.resend => kbd.sent # <<>>
    BY DEF ControlInv
  <2>4. CASE cmd.phase \in {"presend", "exchange"}
    <3>1. cmd'.resend = cmd.resend
      BY <1>7, <2>4
    <3> QED BY <1>4, <2>3, <2>4, <3>1
  <2>5. CASE cmd.phase \in {"none", "sent"}
    BY <1>4, <1>6, <1>7, <2>2, <2>5 DEF Start
  <2> QED BY <1>6, <2>4, <2>5
<1>12. kbd'.pos = 0 => kbd'.quiet > 0
  BY <1>3, <1>4 DEF ControlInv, NotSending
<1>13. prog'.at \in {"idle", "disable"} => (dma'.on <=> cmd'.phase \in {"none", "sent"})
  BY <1>1, <1>2, <1>6, <1>9 DEF ControlInv
<1>14. prog'.at \in Draining \cup {"set"} => ~dma'.on
  BY <1>1, <1>2 DEF ControlInv
<1>15. prog'.at # "idle" => cmd'.phase \in {"none", "presend"} /\ prog'.cut
  BY <1>1, <1>9 DEF ControlInv
<1>16. budget.calls = MaxCalls => prog'.at = "idle"
  BY <1>1 DEF ControlInv
<1> QED BY <1>1, <1>3, <1>4, <1>5, <1>9, <1>10, <1>11, <1>12, <1>13, <1>14, <1>15, <1>16
        DEF ControlInv, Draining

LEMMA CallView ==
  ASSUME TypesInv, Call \/ SetStatus \/ StartFrame \/ Exchanged
  PROVE  View' = View /\ Waiting' = Waiting /\ rx' = rx
<1>1. /\ prog \in [at : InCall \cup {"idle", "hung"}, readpt : Slots, cut : BOOLEAN]
      /\ dma \in [on : BOOLEAN, data : [Slots -> Bits], DPTR : Slots, readpt : 0 .. PS2DMABUFSIZE]
  BY DEF TypesInv
<1>2. rx' = rx /\ dma'.DPTR = dma.DPTR /\ dma'.data = dma.data /\ dma'.readpt = dma.readpt
  BY <1>1 DEF Call, SetStatus, StartFrame, Exchanged
<1>3. prog' = prog \/ (prog.at \in {"idle", "set"} /\ prog'.at \in {"idle", "disable"})
  BY <1>1 DEF Call, SetStatus, StartFrame, Exchanged, At
<1>4. First' = First
  BY <1>2, <1>3 DEF First
<1> QED BY <1>2, <1>4, ViewSame

LEMMA ControlProgram ==
  ASSUME TypesInv, TypesInv', ControlInv,
         DMADisable \/ Test \/ ReadSample \/ Load \/ Store \/ Wrap
  PROVE  ControlInv'
<1>1. Waiting <= 2 /\ kbd.edges \in 0 .. 2 /\ Waiting \in Slots /\ Waiting <= kbd.edges
  <2>1. kbd.edges \in 0 .. 2 /\ Waiting \in Slots /\ Waiting <= kbd.edges
    BY FirstSlot DEF ControlInv, TypesInv
  <2> QED BY <2>1, Size DEF Slots
<1>2. /\ View' = View /\ Waiting' <= Waiting
      /\ prog'.at = "read" => Waiting' > 0
      /\ prog'.at = "set" => Waiting' = 0
      /\ prog'.at = "store" => prog'.readpt = dma'.readpt
  BY <1>1, ViewProgram
<1>3. Waiting' \in Slots
  <2>1. (First \in Slots /\ Succ(First) \in Slots /\ dma.DPTR \in Slots /\ Waiting \in Slots)'
    BY FirstSlot, PTL
  <2> QED BY <2>1
<1>4. Waiting' <= kbd.edges
  BY <1>1, <1>2, <1>3, Size DEF Slots
<1>5. /\ kbd' = kbd /\ cmd' = cmd /\ budget' = budget /\ prog'.cut = prog.cut
      /\ prog'.at \in Draining \cup {"set"} /\ prog.at \in Draining \cup {"disable"}
      /\ ~dma'.on
  <2>1. /\ prog \in [at : InCall \cup {"idle", "hung"}, readpt : Slots, cut : BOOLEAN]
        /\ dma \in [on : BOOLEAN, data : [Slots -> Bits], DPTR : Slots,
                   readpt : 0 .. PS2DMABUFSIZE]
        /\ prog.at \in Draining \cup {"set"} => ~dma.on
    BY DEF TypesInv, ControlInv
  <2>2. CASE DMADisable
    BY <2>1, <2>2 DEF DMADisable, At, Draining
  <2>3. CASE Test
    BY <2>1, <2>3 DEF Test, At, Draining
  <2>4. CASE ReadSample
    BY <2>1, <2>4 DEF ReadSample, At, Draining
  <2>5. CASE Load
    BY <2>1, <2>5 DEF Load, Draining
  <2>6. CASE Store
    BY <2>1, <2>6 DEF Store, Draining
  <2>7. CASE Wrap
    BY <2>1, <2>7 DEF Wrap, At, Draining
  <2> QED BY <2>2, <2>3, <2>4, <2>5, <2>6, <2>7
<1>6. prog.at # "idle" /\ prog'.at \notin {"idle", "disable", "hung"}
  BY <1>5 DEF Draining
<1>7. cmd.phase \in {"none", "presend"} /\ budget.calls # MaxCalls
  BY <1>6 DEF ControlInv
<1> QED BY <1>2, <1>4, <1>5, <1>6, <1>7 DEF ControlInv, Draining

LEMMA ControlCalls ==
  ASSUME TypesInv, TypesInv', ControlInv, Call \/ SetStatus \/ Exchanged
  PROVE  ControlInv'
<1>1. View' = View /\ Waiting' = Waiting /\ rx' = rx
  BY CallView
<1>2. /\ prog \in [at : InCall \cup {"idle", "hung"}, readpt : Slots, cut : BOOLEAN]
      /\ dma \in [on : BOOLEAN, data : [Slots -> Bits], DPTR : Slots, readpt : 0 .. PS2DMABUFSIZE]
      /\ cmd \in [phase : {"none", "presend", "exchange", "sent"}, resend : BOOLEAN,
                  count : 0 .. PS2TIME_PRESEND]
      /\ kbd \in [pos : -1 .. 10, sent : Seq(Bytes), again : BOOLEAN, clean : BOOLEAN,
                  edges : 0 .. 2, quiet : Nat]
      /\ budget \in [flips : 0 .. MaxFlips, lost : 0 .. MaxLost, calls : 0 .. MaxCalls]
  BY DEF TypesInv
<1>3. CASE Call
  <2>1. budget.calls - 1 # MaxCalls /\ budget'.calls = budget.calls - 1
        /\ budget'.lost = budget.lost /\ budget'.flips = budget.flips
    BY <1>2, <1>3, LineAssumption DEF Call
  <2> QED BY <1>1, <1>2, <1>3, <2>1 DEF ControlInv, Call, At, Draining
<1>4. CASE SetStatus
  <2>1. prog.at = "set" /\ ~dma.on /\ budget.calls # MaxCalls
    BY <1>4 DEF SetStatus, ControlInv
  <2> QED BY <1>1, <1>2, <1>4, <2>1 DEF ControlInv, SetStatus, Start, Draining
<1>5. CASE Exchanged
  <2>1. prog.at = "idle"
    BY <1>5 DEF Exchanged, ControlInv
  <2>2. /\ kbd'.pos = kbd.pos /\ kbd'.edges = kbd.edges /\ kbd'.quiet = 0
        /\ kbd'.sent = kbd.sent /\ kbd'.clean = kbd.clean
        /\ cmd'.phase = "sent" /\ dma'.on = TRUE /\ prog' = prog /\ budget' = budget
    BY <1>2, <1>5 DEF Exchanged
  <2>3. kbd.pos = NotSending /\ kbd.edges = 0 /\ rx.receivecount = 0 /\ ~rx.receiveError
    BY <1>5 DEF Exchanged, ControlInv
  <2> QED BY <1>1, <1>2, <2>1, <2>2, <2>3 DEF ControlInv, Draining, NotSending
<1> QED BY <1>3, <1>4, <1>5

LEMMA StartFrameCases ==
  ASSUME TypesInv, StartFrame
  PROVE  /\ kbd.pos = NotSending /\ kbd.quiet \in Gaps /\ kbd.quiet > 0
         /\ cmd.phase # "exchange" /\ kbd'.pos = 0 /\ kbd'.clean /\ ~kbd'.again
         /\ kbd'.edges = kbd.edges /\ kbd'.quiet = kbd.quiet
         /\ kbd.sent \in Seq(Bytes) /\ kbd'.sent \in Seq(Bytes)
         /\ \/ kbd.again /\ kbd'.sent = kbd.sent
            \/ ~kbd.again /\ \E b \in Bytes : kbd'.sent = Append(kbd.sent, b)
<1>1. kbd \in [pos : -1 .. 10, sent : Seq(Bytes), again : BOOLEAN, clean : BOOLEAN,
               edges : 0 .. 2, quiet : Nat]
  BY DEF TypesInv
<1>2. kbd.pos = NotSending /\ kbd.quiet \in Gaps /\ cmd.phase # "exchange"
  BY DEF StartFrame
<1>3. kbd.quiet > 0
  BY <1>2, LineAssumption
<1>4. CASE kbd.again /\ kbd' = [kbd EXCEPT !.pos = 0, !.clean = TRUE, !.again = FALSE]
  BY <1>1, <1>2, <1>3, <1>4
<1>5. ASSUME ~kbd.again, NEW b \in Bytes,
             kbd' = [kbd EXCEPT !.pos = 0, !.clean = TRUE, !.sent = Append(@, b)]
      PROVE  /\ kbd'.pos = 0 /\ kbd'.clean /\ ~kbd'.again
             /\ kbd'.edges = kbd.edges /\ kbd'.quiet = kbd.quiet
             /\ kbd'.sent \in Seq(Bytes) /\ kbd'.sent = Append(kbd.sent, b)
  <2>1. Append(kbd.sent, b) \in Seq(Bytes)
    BY <1>1, Appended
  <2> QED BY <1>1, <1>5, <2>1
<1> QED BY <1>1, <1>2, <1>3, <1>4, <1>5 DEF StartFrame

LEMMA ControlStartFrame ==
  ASSUME TypesInv, TypesInv', ControlInv, StartFrame
  PROVE  ControlInv'
<1>1. View' = View /\ Waiting' = Waiting /\ rx' = rx
  BY CallView
<1>2. dma' = dma /\ cmd' = cmd /\ prog' = prog /\ budget' = budget
  BY DEF StartFrame
<1>3. /\ kbd.quiet > 0 /\ cmd.phase # "exchange" /\ kbd'.pos = 0 /\ kbd'.clean /\ ~kbd'.again
      /\ kbd'.edges = kbd.edges /\ kbd'.quiet = kbd.quiet /\ kbd.quiet \in Nat
      /\ kbd'.sent # <<>>
  BY StartFrameCases DEF TypesInv, NotSending
<1>4. cmd.phase # "sent"
  BY <1>3 DEF ControlInv
<1> QED BY <1>1, <1>2, <1>3, <1>4 DEF ControlInv

(* An edge adds its sample to the view, or nothing. *)
LEMMA EdgeFields ==
  ASSUME TypesInv, Edge
  PROVE  /\ kbd.pos # NotSending /\ kbd.edges < 2 /\ cmd.phase # "exchange"
         /\ kbd'.pos = (IF kbd.pos = 10 THEN NotSending ELSE kbd.pos + 1)
         /\ kbd'.edges = kbd.edges + 1 /\ kbd'.quiet = 0
         /\ kbd'.sent = kbd.sent /\ kbd'.again = kbd.again
         /\ kbd.pos \in 0 .. 10 /\ kbd.edges \in 0 .. 2 /\ kbd.sent # <<>>
         /\ rx' = rx /\ cmd' = cmd /\ prog' = prog /\ raced' = raced
         /\ dma'.on = dma.on /\ dma'.readpt = dma.readpt
<1> DEFINE Kbds == [pos : -1 .. 10, sent : Seq(Bytes), again : BOOLEAN, clean : BOOLEAN,
                    edges : 0 .. 2, quiet : Nat]
<1>1. kbd \in Kbds /\ kbd.pos # NotSending /\ kbd.sent # <<>>
  BY EdgeCases DEF TypesInv
<1>2. kbd' = NextKbd \/ kbd' = [NextKbd EXCEPT !.clean = FALSE]
  BY EdgeCases
<1>3. dma'.on = dma.on /\ dma'.readpt = dma.readpt
  BY <1>1, EdgeCases, RecordType, SendingType
<1>4. /\ kbd'.pos = (IF kbd.pos = 10 THEN NotSending ELSE kbd.pos + 1)
      /\ kbd'.edges = kbd.edges + 1 /\ kbd'.quiet = 0
      /\ kbd'.sent = kbd.sent /\ kbd'.again = kbd.again
  <2>1. CASE kbd' = NextKbd
    BY <1>1, <2>1 DEF NextKbd
  <2>2. CASE kbd' = [NextKbd EXCEPT !.clean = FALSE]
    BY <1>1, <2>2 DEF NextKbd
  <2> QED BY <1>2, <2>1, <2>2
<1>5. kbd.pos \in 0 .. 10 /\ kbd.edges \in 0 .. 2
  BY <1>1 DEF NotSending
<1> QED BY <1>1, <1>3, <1>4, <1>5, EdgeCases

LEMMA EdgeBudget ==
  ASSUME TypesInv, ControlInv, Edge
  PROVE  /\ budget'.lost < MaxLost => budget'.flips = MaxFlips
         /\ budget'.flips = MaxFlips => kbd'.clean
         /\ budget'.calls = budget.calls
         /\ budget'.lost = MaxLost => budget.lost = MaxLost
<1>1. budget \in [flips : 0 .. MaxFlips, lost : 0 .. MaxLost, calls : 0 .. MaxCalls]
      /\ kbd \in [pos : -1 .. 10, sent : Seq(Bytes), again : BOOLEAN, clean : BOOLEAN,
                  edges : 0 .. 2, quiet : Nat]
      /\ MaxFlips \in Nat /\ MaxLost \in Nat
  BY LineAssumption DEF TypesInv
<1>2. /\ budget.lost < MaxLost => budget.flips = MaxFlips
      /\ budget.flips = MaxFlips => kbd.clean
  BY DEF ControlInv
<1>3. NextKbd.clean = kbd.clean
  BY <1>1 DEF NextKbd
<1>4. CASE kbd' = NextKbd /\ budget' = budget
  BY <1>1, <1>2, <1>3, <1>4
<1>5. CASE /\ kbd.clean /\ budget.flips > 0 /\ budget.lost = MaxLost
           /\ budget' = [budget EXCEPT !.flips = @ - 1]
  BY <1>1, <1>5
<1>6. CASE /\ budget.lost > 0 /\ budget.flips = MaxFlips
           /\ budget' = [budget EXCEPT !.lost = @ - 1] /\ kbd' = NextKbd
  BY <1>1, <1>2, <1>3, <1>6
<1> QED BY <1>4, <1>5, <1>6, EdgeCases

LEMMA EdgeView ==
  ASSUME TypesInv, ControlInv, Edge
  PROVE  \/ /\ dma.on /\ View' = Receive(View, Bit) /\ Waiting' = Waiting + 1
            /\ kbd'.clean = kbd.clean /\ budget' = budget
         \/ /\ dma.on /\ View' = Receive(View, 1 - Bit) /\ Waiting' = Waiting + 1
            /\ kbd.clean /\ ~kbd'.clean /\ budget.lost = MaxLost
            /\ budget'.lost = budget.lost
         \/ /\ dma.on /\ View' = View /\ Waiting' = Waiting
            /\ kbd'.clean /\ kbd.clean /\ budget.lost > 0 /\ budget'.lost = budget.lost - 1
         \/ ~dma.on /\ View' = View /\ Waiting' = Waiting
<1>1. /\ kbd \in [pos : -1 .. 10, sent : Seq(Bytes), again : BOOLEAN, clean : BOOLEAN,
                  edges : 0 .. 2, quiet : Nat]
      /\ budget \in [flips : 0 .. MaxFlips, lost : 0 .. MaxLost, calls : 0 .. MaxCalls]
      /\ dma.on \in BOOLEAN
      /\ budget.flips = MaxFlips => kbd.clean
  BY DEF TypesInv, ControlInv
<1>2. /\ kbd.pos # NotSending /\ kbd.edges < 2 /\ kbd.edges \in 0 .. 2
      /\ rx' = rx /\ prog' = prog
      /\ Bit \in Bits /\ 1 - Bit \in Bits
  BY EdgeFields, SendingType
<1>3. Waiting <= 1
  <2>1. Waiting \in Slots /\ Waiting <= kbd.edges
    BY FirstSlot DEF ControlInv
  <2> QED BY <1>2, <2>1, Size DEF Slots
<1>4. \A d \in Bits : Record(d) /\ dma.on => View' = Receive(View, d) /\ Waiting' = Waiting + 1
  BY <1>2, <1>3, ViewRecord
<1>5. dma' = dma => View' = View /\ Waiting' = Waiting
  <2>1. dma' = dma => First' = First
    BY <1>2 DEF First
  <2> QED BY <1>2, <2>1, ViewSame
<1>6. \A d \in Bits : Record(d) /\ ~dma.on => dma' = dma
  BY RecordType
<1>7. NextKbd.clean = kbd.clean /\ ~[NextKbd EXCEPT !.clean = FALSE].clean
  BY <1>1 DEF NextKbd
<1>8. CASE Record(Bit) /\ kbd' = NextKbd /\ budget' = budget
  BY <1>1, <1>2, <1>4, <1>5, <1>6, <1>7, <1>8
<1>9. CASE /\ kbd.clean /\ budget.flips > 0 /\ budget.lost = MaxLost
           /\ budget' = [budget EXCEPT !.flips = @ - 1]
           /\ Record(1 - Bit) /\ kbd' = [NextKbd EXCEPT !.clean = FALSE]
  BY <1>1, <1>2, <1>4, <1>5, <1>6, <1>7, <1>9
<1>10. CASE /\ budget.lost > 0 /\ budget.flips = MaxFlips
            /\ budget' = [budget EXCEPT !.lost = @ - 1]
            /\ kbd' = NextKbd /\ dma' = dma
  BY <1>1, <1>5, <1>7, <1>10
<1> QED BY <1>8, <1>9, <1>10, EdgeCases

LEMMA ControlEdge ==
  ASSUME TypesInv, TypesInv', ControlInv, Edge
  PROVE  ControlInv'
<1>1. Waiting' <= kbd'.edges
  <2>1. Waiting \in Slots /\ Waiting <= kbd.edges /\ (Waiting' = Waiting + 1 \/ Waiting' = Waiting)
    BY FirstSlot, EdgeView DEF ControlInv
  <2> QED BY <2>1, EdgeFields, Size DEF Slots
<1>2. ~dma.on => Waiting' = Waiting
  BY EdgeView
<1>3. kbd'.pos # 0 /\ kbd'.quiet = 0 /\ kbd'.sent # <<>> /\ cmd.phase \notin {"exchange", "sent"}
  BY EdgeFields DEF ControlInv, NotSending
<1>4. prog.at = "read" => Waiting' > 0
  BY <1>2 DEF ControlInv, Draining
<1> QED BY <1>1, <1>2, <1>3, <1>4, EdgeFields, EdgeBudget DEF ControlInv, Draining

(* The steps of the program leave the view, the keyboard and the number of  *)
(* missed edges as they are, and the calls are no longer all to come.       *)
LEMMA ProgramStill ==
  ASSUME TypesInv, ControlInv,
         Call \/ DMADisable \/ Test \/ ReadSample \/ Load \/ Store \/ Wrap \/ SetStatus
  PROVE  /\ View' = View /\ kbd' = kbd /\ budget'.lost = budget.lost
         /\ budget'.calls # MaxCalls /\ (dma'.on => dma.on)
         /\ cmd' = cmd \/ cmd' = Start(FALSE)
<1>1. /\ budget \in [flips : 0 .. MaxFlips, lost : 0 .. MaxLost, calls : 0 .. MaxCalls]
      /\ dma \in [on : BOOLEAN, data : [Slots -> Bits], DPTR : Slots,
                  readpt : 0 .. PS2DMABUFSIZE]
      /\ MaxCalls \in Nat
  BY LineAssumption DEF TypesInv
<1>2. prog.at # "idle" => budget.calls # MaxCalls
  BY DEF ControlInv
<1>3. CASE Call
  <2>1. budget'.calls = budget.calls - 1 /\ budget'.lost = budget.lost /\ budget.calls - 1 # MaxCalls
    BY <1>1, <1>3 DEF Call
  <2>2. kbd' = kbd /\ dma' = dma /\ cmd' = cmd
    BY <1>3 DEF Call
  <2> QED BY <1>3, <2>1, <2>2, CallView
<1>4. CASE SetStatus
  BY <1>2, <1>4, CallView DEF SetStatus
<1>5. CASE DMADisable \/ Test \/ ReadSample \/ Load \/ Store \/ Wrap
  <2>1. Waiting <= 2
    <3>1. Waiting \in Nat
      BY FirstSlot, Size DEF Slots
    <3>2. Waiting <= kbd.edges
      BY DEF ControlInv
    <3>3. kbd.edges \in 0 .. 2
      BY DEF TypesInv
    <3> QED BY <3>1, <3>2, <3>3
  <2>2. View' = View
    BY <1>5, <2>1, ViewProgram
  <2>3. /\ kbd' = kbd /\ cmd' = cmd /\ budget' = budget /\ prog.at # "idle"
        /\ dma'.on => dma.on
    BY <1>1, <1>5 DEF DMADisable, Test, ReadSample, Load, Store, Wrap, At
  <2> QED BY <1>2, <2>2, <2>3
<1> QED BY <1>3, <1>4, <1>5

(* When the line is quiet nothing waits. *)
LEMMA QuietView ==
  ASSUME TypesInv, ControlInv, kbd.edges = 0
  PROVE  Waiting = 0 /\ View = rx
<1>1. Waiting = 0
  BY FirstSlot DEF ControlInv, Slots
<1> QED BY <1>1 DEF View

LEMMA QuietStep ==
  ASSUME TypesInv, ControlInv, QuietInv, Next, ~raced'
  PROVE  QuietInv'
<1>1. CASE T5Handler
  <2>1. kbd.quiet \in Nat /\ kbd'.quiet = (IF kbd.pos # NotSending THEN 0
                            ELSE IF kbd.quiet > PS2TIME_RECEIVETIMEOUT + 1
                                 THEN kbd.quiet ELSE kbd.quiet + 1)
    <3>1. kbd \in [pos : -1 .. 10, sent : Seq(Bytes), again : BOOLEAN, clean : BOOLEAN,
                   edges : 0 .. 2, quiet : Nat]
      BY DEF TypesInv
    <3> QED BY <1>1, <3>1, T5Cases
  <2>2. PICK g \in Receivers : g = Seen(View) /\ rx' = [g EXCEPT !.receiveError = FALSE]
    BY <1>1, T5View
  <2>3. View'.receivecount = g.receivecount /\ View'.receivetime = g.receivetime
    BY <1>1, <2>2, T5View DEF Receivers
  <2>4. View.receivecount \in 0 .. 10 /\ View.receivetime \in 0 .. PS2TIME_RECEIVETIMEOUT
        /\ g.receivecount \in 0 .. 10
    BY ViewType DEF Receivers
  <2>5. g.receivecount > 0 => View.receivecount > 0 /\ g.receivetime = View.receivetime + 1
    BY <2>2, <2>4, ViewType, SeenFields, Timeout
  <2> QED BY <2>1, <2>3, <2>4, <2>5, Timeout DEF QuietInv
<1>2. CASE T5Loops
  BY <1>2 DEF T5Loops
<1>3. CASE Call \/ DMADisable \/ Test \/ ReadSample \/ Load \/ Store \/ Wrap \/ SetStatus
  BY <1>3, ProgramStill DEF QuietInv
<1>4. CASE StartFrame
  BY <1>4, CallView, StartFrameCases DEF QuietInv
<1>5. CASE Edge
  BY <1>5, EdgeFields DEF QuietInv
<1>6. CASE Exchanged
  <2>1. kbd'.quiet = 0
    BY <1>6 DEF Exchanged, TypesInv
  <2> QED BY <2>1 DEF QuietInv
<1> QED BY <1>1, <1>2, <1>3, <1>4, <1>5, <1>6 DEF Next

-----------------------------------------------------------------------------
(* The count of bits keeps step with the keyboard. *)
LEMMA HoldsMore ==
  ASSUME NEW data, NEW new, NEW b, NEW d, NEW n \in 1 .. 8,
         \A i \in 1 .. 8 : new[i] = IF i = 8 THEN d ELSE data[i + 1]
  PROVE  /\ \A clean \in BOOLEAN :
              Holds(clean, data, b, n - 1) /\ d = b[n] => Holds(clean, new, b, n)
         /\ Holds(TRUE, data, b, n - 1) /\ d # b[n] => Holds(FALSE, new, b, n)
<1>1. new[8 - n + n] = d
  OBVIOUS
<1>2. \A i \in 1 .. n - 1 : new[8 - n + i] = data[8 - (n - 1) + i]
  OBVIOUS
<1>3. ASSUME Holds(TRUE, data, b, n - 1) PROVE \A i \in 1 .. n - 1 : new[8 - n + i] = b[i]
  BY <1>2, <1>3 DEF Holds
<1>4. Holds(TRUE, data, b, n - 1) /\ d = b[n] => Holds(TRUE, new, b, n)
  <2>1. ASSUME Holds(TRUE, data, b, n - 1), d = b[n], NEW i \in 1 .. n
        PROVE  new[8 - n + i] = b[i]
    BY <1>1, <1>3, <2>1
  <2> QED BY <2>1 DEF Holds
<1>5. Holds(TRUE, data, b, n - 1) /\ d # b[n] => Holds(FALSE, new, b, n)
  <2>1. ASSUME Holds(TRUE, data, b, n - 1), d # b[n]
        PROVE  /\ n \in 1 .. n /\ new[8 - n + n] # b[n]
               /\ \A i \in 1 .. n \ {n} : new[8 - n + i] = b[i]
    BY <1>1, <1>3, <2>1
  <2> QED BY <2>1 DEF Holds
<1>6. ASSUME Holds(FALSE, data, b, n - 1), d = b[n] PROVE Holds(FALSE, new, b, n)
  <2>1. PICK j \in 1 .. n - 1 :
          /\ data[8 - (n - 1) + j] # b[j]
          /\ \A i \in 1 .. n - 1 \ {j} : data[8 - (n - 1) + i] = b[i]
    BY <1>6 DEF Holds
  <2>2. j \in 1 .. n /\ new[8 - n + j] # b[j]
    BY <1>2, <2>1
  <2>3. ASSUME NEW i \in 1 .. n \ {j} PROVE new[8 - n + i] = b[i]
    BY <1>1, <1>2, <1>6, <2>1, <2>3
  <2> QED BY <2>2, <2>3 DEF Holds
<1> QED BY <1>4, <1>5, <1>6

(* All eight bits, and the parity after them. *)
LEMMA HoldsAll ==
  ASSUME NEW data \in Byte, NEW b \in Byte
  PROVE  /\ Holds(TRUE, data, b, 8) => data = b
         /\ Holds(FALSE, data, b, 8) => ~OddParity(data, ParityBit(b))
<1>1. ASSUME Holds(TRUE, data, b, 8) PROVE data = b
  <2>1. \A i \in 1 .. 8 : data[i] = b[i]
    <3>1. \A i \in 1 .. 8 : data[8 - 8 + i] = b[i]
      BY <1>1 DEF Holds
    <3>2. \A i \in 1 .. 8 : 8 - 8 + i = i
      OBVIOUS
    <3> QED BY <3>1, <3>2
  <2> QED BY <2>1 DEF Byte
<1>2. ASSUME Holds(FALSE, data, b, 8) PROVE ~OddParity(data, ParityBit(b))
  <2>1. PICK j \in 1 .. 8 : /\ data[8 - 8 + j] # b[j]
                            /\ \A i \in 1 .. 8 \ {j} : data[8 - 8 + i] = b[i]
    BY <1>2 DEF Holds
  <2>2. \A i \in 1 .. 8 : 8 - 8 + i = i
    OBVIOUS
  <2>3. data[j] # b[j] /\ \A i \in 1 .. 8 \ {j} : data[i] = b[i]
    BY <2>1, <2>2
  <2> QED BY <2>3, ParityFails
<1> QED BY <1>1, <1>2

LEMMA HoldsNone ==
  ASSUME NEW data, NEW b
  PROVE  Holds(TRUE, data, b, 0) /\ ~Holds(FALSE, data, b, 0)
BY DEF Holds

LEMMA FrameBits ==
  /\ kbd.pos = 0 => Bit = 0
  /\ kbd.pos \in 1 .. 8 => Bit = Sending[kbd.pos]
  /\ kbd.pos = 9 => Bit = ParityBit(Sending)
  /\ kbd.pos = 10 => Bit = 1
<1>1. CASE kbd.pos = 0
  BY <1>1 DEF Bit, FrameBit
<1>2. CASE kbd.pos \in 1 .. 8
  BY <1>2 DEF Bit, FrameBit
<1>3. CASE kbd.pos = 9
  BY <1>3 DEF Bit, FrameBit, ParityBit
<1>4. CASE kbd.pos = 10
  BY <1>4 DEF Bit, FrameBit
<1> QED BY <1>1, <1>2, <1>3, <1>4

(* A bit that is recorded while the receiver is in step. *)
LEMMA InStepRecord ==
  ASSUME TypesInv, kbd.pos # NotSending, NEW g \in Receivers, InStep(g), NEW d \in Bits,
         d = Bit \/ kbd.clean, NEW r, r = Receive(g, d), ~r.receiveError,
         NEW clean \in BOOLEAN, clean = (kbd.clean /\ d = Bit)
  PROVE  /\ r.receivecount = IF kbd.pos = 10 THEN 0 ELSE kbd.pos + 1
         /\ r.receivecount = 10 => clean
         /\ kbd.pos # 10 => Holds(clean, r.receivedata, Sending, DataBits(r.receivecount))
         /\ kbd.pos = 0 => r.receivetime = 0
         /\ kbd.pos \in 1 .. 9 => r.receivetime = g.receivetime
<1>1. /\ g.receivecount = kbd.pos /\ (g.receivecount = 10 => kbd.clean)
      /\ Holds(kbd.clean, g.receivedata, Sending, DataBits(kbd.pos))
  BY DEF InStep
<1>2. Sending \in Byte /\ kbd.pos \in 0 .. 10 /\ Bit \in Bits /\ kbd.clean \in BOOLEAN
      /\ g.receivedata \in Byte
  BY SendingType DEF TypesInv, Receivers
<1>3. ~g.receiveError
  BY ReceiveFields
<1>4. CASE kbd.pos = 0
  <2>1. d = 0 /\ r.receivecount = 1 /\ r.receivetime = 0
    BY <1>1, <1>3, <1>4, ReceiveFields DEF Bits
  <2>2. d = Bit
    BY <1>4, <2>1, FrameBits
  <2>3. DataBits(kbd.pos) = 0 /\ DataBits(r.receivecount) = 0
    BY <1>4, <2>1 DEF DataBits
  <2>4. kbd.clean
    BY <1>1, <1>2, <2>3, HoldsNone
  <2>5. clean = TRUE /\ Holds(TRUE, r.receivedata, Sending, 0)
    BY <2>2, <2>4, HoldsNone
  <2>6. Holds(clean, r.receivedata, Sending, DataBits(r.receivecount))
    BY <2>3, <2>5, Zenon
  <2> QED BY <1>4, <2>1, <2>6
<1>5. CASE kbd.pos \in 1 .. 8
  <2>1. /\ r.receivecount = kbd.pos + 1 /\ r.receivetime = g.receivetime
        /\ \A i \in 1 .. 8 : r.receivedata[i] = IF i = 8 THEN d ELSE g.receivedata[i + 1]
    BY <1>1, <1>3, <1>5, ReceiveFields
  <2>2. DataBits(kbd.pos) = kbd.pos - 1 /\ DataBits(r.receivecount) = kbd.pos
    BY <1>5, <2>1 DEF DataBits
  <2>3. Bit = Sending[kbd.pos]
    BY <1>5, FrameBits
  <2>4. Holds(clean, r.receivedata, Sending, kbd.pos)
    <3>1. Holds(kbd.clean, g.receivedata, Sending, kbd.pos - 1)
      BY <1>1, <2>2
    <3> DEFINE data == g.receivedata
               new == r.receivedata
               b == Sending
               n == kbd.pos
    <3>2. /\ \A c \in BOOLEAN : Holds(c, data, b, n - 1) /\ d = b[n] => Holds(c, new, b, n)
          /\ Holds(TRUE, data, b, n - 1) /\ d # b[n] => Holds(FALSE, new, b, n)
      <4>1. n \in 1 .. 8 /\ \A i \in 1 .. 8 : new[i] = IF i = 8 THEN d ELSE data[i + 1]
        BY <1>5, <2>1
      <4> HIDE DEF data, new, b, n
      <4> QED BY <4>1, HoldsMore
    <3>3. CASE d = Bit
      <4>1. kbd.clean = clean
        BY <1>2, <3>3
      <4> QED BY <1>2, <2>3, <3>1, <3>2, <3>3, <4>1, Zenon
    <3>4. CASE d # Bit
      <4>1. kbd.clean = TRUE /\ clean = FALSE
        BY <1>2, <3>4
      <4> QED BY <2>3, <3>1, <3>2, <3>4, <4>1, Zenon
    <3> QED BY <3>3, <3>4
  <2>5. kbd.pos # 10 /\ kbd.pos # 0 /\ r.receivecount # 10
    BY <1>5, <2>1
  <2> QED BY <2>1, <2>2, <2>4, <2>5
<1>6. CASE kbd.pos = 9
  <2>1. /\ OddParity(g.receivedata, d) /\ r.receivecount = 10
        /\ r.receivetime = g.receivetime /\ r.receivedata = g.receivedata
    BY <1>1, <1>3, <1>6, ReceiveFields
  <2>2. DataBits(kbd.pos) = 8 /\ DataBits(r.receivecount) = 8
    BY <1>6, <2>1 DEF DataBits
  <2>3. Bit = ParityBit(Sending)
    BY <1>6, FrameBits
  <2>4. kbd.clean
    <3>1. CASE kbd.clean = FALSE
      <4>1. d = Bit /\ Holds(FALSE, g.receivedata, Sending, 8)
        BY <1>1, <2>2, <3>1
      <4> QED BY <1>2, <2>1, <2>3, <4>1, HoldsAll
    <3> QED BY <1>2, <3>1
  <2>5. kbd.clean = TRUE /\ Holds(TRUE, g.receivedata, Sending, 8)
    BY <1>1, <1>2, <2>2, <2>4
  <2>6. g.receivedata = Sending
    BY <1>2, <2>5, HoldsAll
  <2>7. d = Bit
    <3>1. d = Bit \/ d = 1 - Bit
      BY <1>2 DEF Bits
    <3>2. ~OddParity(Sending, 1 - ParityBit(Sending))
      BY <1>2, ParityFits
    <3> QED BY <2>1, <2>3, <2>6, <3>1, <3>2
  <2>8. clean = TRUE /\ Holds(TRUE, r.receivedata, Sending, 8)
    BY <2>1, <2>5, <2>7
  <2>9. Holds(clean, r.receivedata, Sending, DataBits(r.receivecount))
    BY <2>2, <2>8, Zenon
  <2> QED BY <1>6, <2>1, <2>8, <2>9
<1>7. CASE kbd.pos = 10
  <2>1. r.receivecount = 0
    BY <1>1, <1>3, <1>7, ReceiveFields DEF Bits
  <2> QED BY <1>7, <2>1
<1> QED BY <1>2, <1>4, <1>5, <1>6, <1>7

(* One behind, the start bit of the next frame is where the stop bit should *)
(* be.                                                                      *)
LEMMA BehindRecord ==
  ASSUME TypesInv, kbd.pos # NotSending, NEW g \in Receivers, Behind(g),
         NEW r, r = Receive(g, Bit), ~r.receiveError
  PROVE  /\ kbd.pos \in 1 .. 10 /\ g.receivecount = kbd.pos - 1
         /\ r.receivecount = kbd.pos
         /\ kbd.pos = 1 => r.receivetime = 0
         /\ kbd.pos > 1 => r.receivetime = g.receivetime
<1>1. ~g.receiveError /\ kbd.pos \in 0 .. 10
  BY ReceiveFields, SendingType
<1>2. kbd.pos # 0
  <2>1. SUFFICES ASSUME kbd.pos = 0 PROVE FALSE
    OBVIOUS
  <2>2. g.receivecount = 10 /\ Bit = 0
    BY <2>1, FrameBits DEF Behind
  <2>3. 0 \in Bits
    BY DEF Bits
  <2> QED BY <1>1, <2>2, <2>3, ReceiveFields
<1>3. kbd.pos \in 1 .. 10 /\ g.receivecount = kbd.pos - 1
  BY <1>1, <1>2 DEF Behind
<1>4. Bit \in Bits
  BY SendingType
<1>5. CASE kbd.pos = 1
  <2>1. g.receivecount = 0
    BY <1>3, <1>5
  <2>2. Bit = 0
    BY <1>1, <1>4, <2>1, ReceiveFields DEF Bits
  <2>3. r.receivecount = 1 /\ r.receivetime = 0
    BY <1>1, <1>4, <2>1, <2>2, ReceiveFields
  <2> QED BY <1>3, <1>5, <2>3
<1>6. CASE kbd.pos \in 2 .. 9
  <2>1. g.receivecount \in 1 .. 8
    BY <1>3, <1>6
  <2>2. r.receivecount = g.receivecount + 1 /\ r.receivetime = g.receivetime
    BY <1>1, <1>4, <2>1, ReceiveFields
  <2> QED BY <1>3, <1>6, <2>2
<1>7. CASE kbd.pos = 10
  <2>1. g.receivecount = 9
    BY <1>3, <1>7
  <2>2. r.receivecount = 10 /\ r.receivetime = g.receivetime
    BY <1>1, <1>4, <2>1, ReceiveFields
  <2> QED BY <1>3, <1>7, <2>2
<1> QED BY <1>3, <1>5, <1>6, <1>7

(* T5Handler in the middle of a frame counts the time, which is less than   *)
(* the timeout; in a pause it can only give a count up.                     *)
LEMMA StepT5 ==
  ASSUME TypesInv, ControlInv, ControlInv', StepInv, T5Handler, ~raced'
  PROVE  StepInv'
<1>1. SUFFICES ASSUME dma'.on, ~View'.receiveError
               PROVE  /\ InStep(View)' \/ Behind(View)'
                      /\ kbd'.pos > 0 /\ View'.receivecount > 0 =>
                           View'.receivetime + (IF kbd'.edges > 0 THEN 1 ELSE 0) <= kbd'.pos
  BY DEF StepInv
<1>2. PICK g \in Receivers :
        /\ g = Seen(View) /\ rx' = [g EXCEPT !.receiveError = FALSE]
        /\ cmd' = After(g.receiveError, NewLock(g))
        /\ dma'.on = (dma.on /\ cmd'.phase \notin {"presend", "exchange"})
  BY T5View
<1>3. dma.on /\ cmd'.phase \notin {"presend", "exchange"}
  BY <1>1, <1>2
<1>4. /\ g.receiveError \in BOOLEAN /\ NewLock(g) \in BOOLEAN
      /\ cmd.phase \in {"none", "presend", "exchange", "sent"}
  BY DEF Receivers, NewLock, TypesInv
<1>5. ~g.receiveError /\ ~SendStart /\ cmd.phase \in {"none", "sent"}
  <2>1. /\ SendStart => cmd'.phase = "exchange"
        /\ cmd.phase = "exchange" => cmd'.phase = "exchange"
        /\ cmd.phase = "presend" /\ ~SendStart => cmd'.phase = "presend"
        /\ cmd.phase \in {"none", "sent"} /\ g.receiveError => cmd' = Start(TRUE)
    BY <1>2, <1>4, AfterPhases
  <2> QED BY <1>3, <1>4, <2>1 DEF Start
<1>6. /\ View'.receivecount = g.receivecount /\ View'.receivetime = g.receivetime
      /\ View'.receivedata = g.receivedata
  BY <1>2, T5View DEF Receivers
<1>7. /\ kbd'.pos = kbd.pos /\ kbd'.edges = 0 /\ kbd'.clean = kbd.clean /\ kbd'.sent = kbd.sent
      /\ budget' = budget /\ (kbd.pos # NotSending => kbd.edges > 0)
      /\ kbd.pos \in -1 .. 10 /\ kbd.quiet \in Nat /\ kbd.edges \in 0 .. 2
  <2>1. kbd \in [pos : -1 .. 10, sent : Seq(Bytes), again : BOOLEAN, clean : BOOLEAN,
                 edges : 0 .. 2, quiet : Nat]
    BY DEF TypesInv
  <2> QED BY <1>5, <2>1, T5Cases
<1>8. /\ g.receivedata = View.receivedata
      /\ View.receivecount = 0 => g.receivecount = 0
      /\ View.receivecount > 0 /\ View.receivetime < PS2TIME_RECEIVETIMEOUT =>
           g.receivecount = View.receivecount /\ g.receivetime = View.receivetime + 1
      /\ View.receivetime >= PS2TIME_RECEIVETIMEOUT => g.receivecount = 0
      /\ g.receiveError <=> View.receiveError /\ ~(cmd.phase = "sent" /\ ~cmd.resend)
  BY <1>2, <1>5, ViewType, SeenFields
<1>9. /\ View.receivecount \in 0 .. 10 /\ View.receivetime \in 0 .. PS2TIME_RECEIVETIMEOUT
  BY ViewType DEF Receivers
<1>10. CASE cmd.phase = "sent"
  <2>1. kbd.pos = NotSending /\ View = rx /\ rx.receivecount = 0
    BY <1>10, QuietView DEF ControlInv
  <2>2. View'.receivecount = 0
    BY <1>6, <1>8, <2>1
  <2> QED BY <1>7, <2>1, <2>2 DEF InStep, NotSending
<1>11. CASE cmd.phase # "sent"
  <2>1. ~View.receiveError
    BY <1>5, <1>8, <1>11
  <2>2. /\ InStep(View) \/ Behind(View)
        /\ kbd.pos > 0 /\ View.receivecount > 0 =>
             View.receivetime + (IF kbd.edges > 0 THEN 1 ELSE 0) <= kbd.pos
    BY <1>3, <2>1 DEF StepInv
  <2>3. CASE kbd.pos = NotSending
    <3>1. g.receivecount \in {0, View.receivecount}
      BY <1>8, <1>9, Timeout
    <3>2. kbd'.pos = NotSending /\ View'.receivecount \in {0, View.receivecount}
      BY <1>6, <1>7, <2>3, <3>1
    <3>3. InStep(View) => View.receivecount = 0
      BY <2>3 DEF InStep
    <3>4. View'.receivecount = 0 => InStep(View)'
      BY <3>2 DEF InStep
    <3>5. Behind(View) /\ View'.receivecount = View.receivecount => Behind(View)'
      BY <1>7 DEF Behind
    <3>6. ~(kbd'.pos > 0)
      BY <3>2 DEF NotSending
    <3> QED BY <2>2, <3>2, <3>3, <3>4, <3>5, <3>6
  <2>4. CASE kbd.pos # NotSending
    <3>1. kbd.edges > 0 /\ kbd.pos # 0
      BY <1>7, <2>4 DEF ControlInv
    <3>2. kbd.pos \in 1 .. 10
      BY <1>7, <2>4, <3>1 DEF NotSending
    <3>3. View.receivecount > 0 => View.receivetime + 1 <= kbd.pos
      BY <2>2, <3>1, <3>2
    <3>4. g.receivecount = View.receivecount
          /\ (g.receivecount > 0 => g.receivetime <= kbd.pos)
      BY <1>8, <1>9, <3>2, <3>3, Timeout
    <3>5. InStep(View) => InStep(View)'
      <4>1. Sending' = Sending
        BY <1>7 DEF Sending
      <4> QED BY <1>6, <1>7, <1>8, <3>4, <4>1 DEF InStep
    <3>6. Behind(View) => Behind(View)'
      BY <1>6, <1>7, <3>4 DEF Behind
    <3>7. g.receivetime \in 0 .. PS2TIME_RECEIVETIMEOUT
      BY DEF Receivers
    <3> QED BY <1>6, <1>7, <2>2, <3>4, <3>5, <3>6, <3>7
  <2> QED BY <2>3, <2>4
<1> QED BY <1>10, <1>11

(* An edge is recorded right, or turned, or missed. *)
LEMMA StepEdge ==
  ASSUME TypesInv, ControlInv, StepInv, Edge, MaxLost <= 1 \/ budget'.lost = MaxLost
  PROVE  StepInv'
<1>1. SUFFICES ASSUME dma'.on, ~View'.receiveError
               PROVE  /\ InStep(View)' \/ Behind(View)'
                      /\ kbd'.pos > 0 /\ View'.receivecount > 0 =>
                           View'.receivetime + (IF kbd'.edges > 0 THEN 1 ELSE 0) <= kbd'.pos
  BY DEF StepInv
<1>2. /\ kbd.pos # NotSending /\ kbd.pos \in 0 .. 10 /\ kbd.edges \in 0 .. 2
      /\ kbd'.pos = (IF kbd.pos = 10 THEN NotSending ELSE kbd.pos + 1)
      /\ kbd'.edges = kbd.edges + 1 /\ kbd'.sent = kbd.sent /\ dma.on
  BY <1>1, EdgeFields
<1>3. kbd'.edges > 0 /\ Sending' = Sending
  BY <1>2 DEF Sending
<1>4. /\ View \in Receivers /\ View.receivetime \in 0 .. PS2TIME_RECEIVETIMEOUT
      /\ View.receivecount \in 0 .. 10
      /\ Bit \in Bits /\ 1 - Bit \in Bits /\ 1 - Bit # Bit
      /\ kbd.clean \in BOOLEAN /\ kbd'.clean \in BOOLEAN
  <2>1. View \in Receivers /\ View.receivetime \in 0 .. PS2TIME_RECEIVETIMEOUT
        /\ View.receivecount \in 0 .. 10
    BY ViewType DEF Receivers
  <2>2. Bit \in Bits /\ 1 - Bit \in Bits /\ 1 - Bit # Bit
    BY <1>2, SendingType DEF Bits
  <2>3. kbd.clean \in BOOLEAN /\ kbd'.clean \in BOOLEAN
    BY TypesEdge DEF TypesInv
  <2> QED BY <2>1, <2>2, <2>3
<1>5. budget.lost \in 0 .. MaxLost /\ budget'.lost \in 0 .. MaxLost /\ MaxLost \in Nat
  BY TypesEdge, LineAssumption DEF TypesInv
<1>6. ASSUME ~View.receiveError
      PROVE  /\ InStep(View) \/ Behind(View)
             /\ kbd.pos > 0 /\ View.receivecount > 0 =>
                  View.receivetime + (IF kbd.edges > 0 THEN 1 ELSE 0) <= kbd.pos
  BY <1>2, <1>6 DEF StepInv
<1>7. ASSUME NEW d \in Bits, View' = Receive(View, d), d = Bit \/ kbd.clean,
             kbd'.clean = (kbd.clean /\ d = Bit),
             budget'.lost = budget.lost, d = Bit \/ budget.lost = MaxLost
      PROVE  /\ InStep(View)' \/ Behind(View)'
             /\ kbd'.pos > 0 /\ View'.receivecount > 0 => View'.receivetime + 1 <= kbd'.pos
  <2>1. ~View.receiveError
    BY <1>1, <1>4, <1>7, ReceiveFields
  <2>2. CASE InStep(View)
    <3>1. /\ View'.receivecount = IF kbd.pos = 10 THEN 0 ELSE kbd.pos + 1
          /\ View'.receivecount = 10 => kbd'.clean
          /\ kbd.pos # 10 =>
               Holds(kbd'.clean, View'.receivedata, Sending, DataBits(View'.receivecount))
          /\ kbd.pos = 0 => View'.receivetime = 0
          /\ kbd.pos \in 1 .. 9 => View'.receivetime = View.receivetime
      <4> DEFINE clean == kbd'.clean
                 r == View'
      <4>1. clean \in BOOLEAN /\ clean = (kbd.clean /\ d = Bit) /\ r = Receive(View, d)
            /\ ~r.receiveError /\ View \in Receivers
        BY <1>1, <1>4, <1>7
      <4> HIDE DEF clean, r
      <4>2. /\ r.receivecount = IF kbd.pos = 10 THEN 0 ELSE kbd.pos + 1
            /\ r.receivecount = 10 => clean
            /\ kbd.pos # 10 => Holds(clean, r.receivedata, Sending, DataBits(r.receivecount))
            /\ kbd.pos = 0 => r.receivetime = 0
            /\ kbd.pos \in 1 .. 9 => r.receivetime = View.receivetime
        BY <1>2, <1>7, <2>2, <4>1, InStepRecord
      <4> QED BY <4>2 DEF clean, r
    <3>2. InStep(View)'
      <4>1. CASE kbd.pos = 10
        BY <1>2, <3>1, <4>1 DEF InStep
      <4>2. CASE kbd.pos # 10
        <5>1. View'.receivecount = kbd'.pos /\ kbd'.pos # NotSending
          BY <1>2, <3>1, <4>2 DEF NotSending
        <5> QED BY <1>3, <3>1, <4>2, <5>1 DEF InStep
      <4> QED BY <4>1, <4>2
    <3>3. View.receivecount = kbd.pos
      BY <1>2, <2>2 DEF InStep
    <3>4. CASE kbd.pos \in 1 .. 9
      BY <1>2, <1>4, <1>6, <2>1, <3>1, <3>2, <3>3, <3>4
    <3>5. CASE kbd.pos \in {0, 10}
      BY <1>2, <3>1, <3>2, <3>5 DEF NotSending
    <3> QED BY <1>2, <3>4, <3>5
  <2>3. CASE Behind(View)
    <3>1. budget.lost < MaxLost
      BY <2>3 DEF Behind
    <3>2. d = Bit
      BY <1>5, <1>7, <3>1
    <3>3. /\ kbd.pos \in 1 .. 10 /\ View.receivecount = kbd.pos - 1
          /\ View'.receivecount = kbd.pos
          /\ kbd.pos = 1 => View'.receivetime = 0
          /\ kbd.pos > 1 => View'.receivetime = View.receivetime
      <4> DEFINE r == View'
      <4>1. r = Receive(View, Bit) /\ ~r.receiveError
        BY <1>1, <1>7, <3>2
      <4> HIDE DEF r
      <4>2. /\ kbd.pos \in 1 .. 10 /\ View.receivecount = kbd.pos - 1
            /\ r.receivecount = kbd.pos
            /\ kbd.pos = 1 => r.receivetime = 0
            /\ kbd.pos > 1 => r.receivetime = View.receivetime
        BY <1>2, <1>4, <2>3, <4>1, BehindRecord
      <4> QED BY <4>2 DEF r
    <3>4. Behind(View)'
      <4>1. budget'.lost < MaxLost
        BY <1>7, <3>1
      <4>2. CASE kbd.pos = 10
        <5>1. kbd'.pos <= 0 /\ View'.receivecount = 10
          BY <1>2, <3>3, <4>2 DEF NotSending
        <5> QED BY <4>1, <5>1 DEF Behind
      <4>3. CASE kbd.pos # 10
        <5>1. kbd'.pos > 0 /\ View'.receivecount = kbd'.pos - 1
          BY <1>2, <3>3, <4>3
        <5> QED BY <4>1, <5>1 DEF Behind
      <4> QED BY <4>2, <4>3
    <3>5. CASE kbd.pos = 1
      BY <1>2, <3>3, <3>4, <3>5
    <3>6. CASE kbd.pos \in 2 .. 9
      BY <1>2, <1>4, <1>6, <2>1, <3>3, <3>4, <3>6
    <3>7. CASE kbd.pos = 10
      BY <1>2, <3>4, <3>7 DEF NotSending
    <3> QED BY <3>3, <3>4, <3>5, <3>6, <3>7
  <2> QED BY <1>6, <2>1, <2>2, <2>3
<1>8. ASSUME View' = View, budget.lost > 0, budget'.lost = budget.lost - 1
      PROVE  /\ InStep(View)' \/ Behind(View)'
             /\ kbd'.pos > 0 /\ View'.receivecount > 0 => View'.receivetime + 1 <= kbd'.pos
  <2>1. ~View.receiveError
    BY <1>1, <1>8
  <2>2. ~Behind(View)
    BY <1>5, <1>8 DEF Behind
  <2>3. InStep(View)
    BY <1>6, <2>1, <2>2
  <2>4. View.receivecount = kbd.pos
    BY <1>2, <2>3 DEF InStep
  <2>5. budget'.lost < MaxLost
    BY <1>5, <1>8
  <2>6. CASE kbd.pos = 10
    <3>1. kbd'.pos <= 0 /\ View'.receivecount = 10 /\ ~(kbd'.pos > 0)
      BY <1>2, <1>8, <2>4, <2>6 DEF NotSending
    <3> QED BY <2>5, <3>1 DEF Behind
  <2>7. CASE kbd.pos # 10
    <3>1. kbd'.pos > 0 /\ View'.receivecount = kbd'.pos - 1
      BY <1>2, <1>8, <2>4, <2>7
    <3>2. Behind(View)'
      BY <2>5, <3>1 DEF Behind
    <3>3. View'.receivecount > 0 => View'.receivetime + 1 <= kbd'.pos
      BY <1>2, <1>4, <1>6, <1>8, <2>1, <2>4, <2>7
    <3> QED BY <3>2, <3>3
  <2> QED BY <2>6, <2>7
<1>9. CASE View' = Receive(View, Bit) /\ kbd'.clean = kbd.clean /\ budget' = budget
  BY <1>3, <1>4, <1>7, <1>9
<1>10. CASE /\ View' = Receive(View, 1 - Bit) /\ kbd.clean /\ ~kbd'.clean
            /\ budget.lost = MaxLost /\ budget'.lost = budget.lost
  BY <1>3, <1>4, <1>7, <1>10
<1>11. CASE View' = View /\ budget.lost > 0 /\ budget'.lost = budget.lost - 1
  BY <1>3, <1>8, <1>11
<1> QED BY <1>2, <1>9, <1>10, <1>11, EdgeView

LEMMA StepOther ==
  ASSUME TypesInv, ControlInv, StepInv, ~raced',
         T5Loops \/ Call \/ DMADisable \/ Test \/ ReadSample \/ Load \/ Store \/ Wrap
         \/ SetStatus \/ StartFrame \/ Exchanged
  PROVE  StepInv'
<1>1. CASE T5Loops
  BY <1>1 DEF T5Loops
<1>2. CASE Call \/ DMADisable \/ Test \/ ReadSample \/ Load \/ Store \/ Wrap \/ SetStatus
  BY <1>2, ProgramStill DEF StepInv, InStep, Behind, Sending
<1>3. CASE StartFrame
  <2>1. View' = View /\ dma' = dma /\ budget' = budget
    BY <1>3, CallView DEF StartFrame
  <2>2. kbd.pos = NotSending /\ kbd'.pos = 0 /\ kbd'.clean
    BY <1>3, StartFrameCases
  <2>3. InStep(View) => InStep(View)'
    <3>1. ASSUME InStep(View) PROVE InStep(View)'
      <4>1. View'.receivecount = 0 /\ kbd'.pos # NotSending
        BY <2>1, <2>2, <3>1 DEF InStep, NotSending
      <4>2. DataBits(View'.receivecount) = 0
        BY <4>1 DEF DataBits
      <4>3. kbd'.clean = TRUE
        BY <1>3, <2>2, TypesStartFrame DEF TypesInv
      <4>4. Holds(kbd'.clean, View'.receivedata, Sending', DataBits(View'.receivecount))
        BY <4>2, <4>3, HoldsNone
      <4> QED BY <2>2, <4>1, <4>4 DEF InStep
    <3> QED BY <3>1
  <2>4. Behind(View) => Behind(View)'
    BY <2>1, <2>2 DEF Behind, NotSending
  <2> QED BY <2>1, <2>2, <2>3, <2>4 DEF StepInv
<1>4. CASE Exchanged
  <2>1. kbd'.pos = kbd.pos /\ kbd.pos = NotSending /\ View = rx /\ rx.receivecount = 0
    BY <1>4, QuietView DEF Exchanged, TypesInv, ControlInv
  <2>2. View'.receivecount = 0
    BY <1>4, <2>1, CallView
  <2> QED BY <2>1, <2>2 DEF StepInv, InStep, NotSending
<1> QED BY <1>1, <1>2, <1>3, <1>4

-----------------------------------------------------------------------------
(* What is accepted, among what was sent. *)
LEMMA EmbedsNone ==
  ASSUME NEW t, NEW n
  PROVE  Embeds(<<>>, t, n)
<1> DEFINE at == [i \in DOMAIN <<>> |-> 1]
<1>1. DOMAIN <<>> = {}
  OBVIOUS
<1>2. at \in [DOMAIN <<>> -> 1 .. n]
  BY <1>1
<1> QED BY <1>1, <1>2 DEF Embeds

LEMMA EmbedsMore ==
  ASSUME NEW s, NEW t, NEW n \in Int, NEW u, NEW m \in Int, Embeds(s, t, n),
         n <= m, \A i \in 1 .. n : u[i] = t[i]
  PROVE  Embeds(s, u, m)
<1>1. PICK at \in [DOMAIN s -> 1 .. n] :
        /\ \A i, j \in DOMAIN s : i < j => at[i] < at[j]
        /\ \A i \in DOMAIN s : s[i] = t[at[i]]
  BY DEF Embeds
<1>2. at \in [DOMAIN s -> 1 .. m]
  <2>1. 1 .. n \subseteq 1 .. m
    OBVIOUS
  <2> QED BY <2>1
<1>3. \A i \in DOMAIN s : s[i] = u[at[i]]
  BY <1>1
<1> QED BY <1>1, <1>2, <1>3 DEF Embeds

LEMMA EmbedsNext ==
  ASSUME NEW S, NEW s \in Seq(S), NEW t, NEW e \in S, NEW n \in Int, n >= 1,
         Embeds(s, t, n - 1), t[n] = e
  PROVE  Embeds(Append(s, e), t, n)
<1>1. PICK at \in [DOMAIN s -> 1 .. n - 1] :
        /\ \A i, j \in DOMAIN s : i < j => at[i] < at[j]
        /\ \A i \in DOMAIN s : s[i] = t[at[i]]
  BY DEF Embeds
<1> DEFINE r == Append(s, e)
           l == Len(s)
           more == [i \in 1 .. l + 1 |-> IF i = l + 1 THEN n ELSE at[i]]
<1>2. /\ l \in Nat /\ DOMAIN s = 1 .. l /\ DOMAIN r = 1 .. l + 1
      /\ \A i \in 1 .. l : r[i] = s[i]
      /\ r[l + 1] = e
  BY Appended, LenProperties
<1> HIDE DEF r, l
<1>3. \A i \in 1 .. l : at[i] \in 1 .. n - 1
  BY <1>1, <1>2
<1>4. more \in [DOMAIN r -> 1 .. n]
  BY <1>2, <1>3
<1>5. ASSUME NEW i \in DOMAIN r, NEW j \in DOMAIN r, i < j PROVE more[i] < more[j]
  <2>1. i \in 1 .. l /\ j \in 1 .. l + 1 /\ more[i] = at[i]
    BY <1>2, <1>5
  <2>2. CASE j = l + 1
    BY <1>3, <2>1, <2>2
  <2>3. CASE j \in 1 .. l
    BY <1>1, <1>2, <1>5, <2>1, <2>3
  <2> QED BY <1>2, <2>1, <2>2, <2>3
<1>6. ASSUME NEW i \in DOMAIN r PROVE r[i] = t[more[i]]
  <2>1. CASE i = l + 1
    BY <1>2, <2>1
  <2>2. CASE i \in 1 .. l
    BY <1>1, <1>2, <2>2
  <2> QED BY <1>2, <2>1, <2>2
<1>7. Embeds(r, t, n)
  <2> HIDE DEF more
  <2> QED BY <1>4, <1>5, <1>6 DEF Embeds
<1> QED BY <1>7 DEF r

(* A byte is accepted at the stop bit of its own frame, and then nothing of *)
(* it is outstanding.                                                       *)
LEMMA Accepted ==
  ASSUME TypesInv, ControlInv, StepInv, Edge
  PROVE  /\ kbd'.sent = kbd.sent /\ Outstanding
         /\ View'.got = View.got
            \/ /\ View'.got = Append(View.got, Sending) /\ ~Outstanding'
               /\ kbd'.pos = NotSending
<1>1. /\ kbd.pos # NotSending /\ kbd.pos \in 0 .. 10 /\ kbd'.sent = kbd.sent
      /\ kbd'.pos = (IF kbd.pos = 10 THEN NotSending ELSE kbd.pos + 1)
      /\ kbd'.again = kbd.again /\ cmd' = cmd /\ prog' = prog
  BY EdgeFields
<1>2. Outstanding
  BY <1>1 DEF Outstanding
<1>3. ASSUME View'.got # View.got
      PROVE  View'.got = Append(View.got, Sending) /\ ~Outstanding' /\ kbd'.pos = NotSending
  <2>1. PICK d \in Bits :
          /\ View' = Receive(View, d) /\ dma.on
          /\ d = Bit \/ (budget.lost = MaxLost)
    <3>1. Bit \in Bits /\ 1 - Bit \in Bits
      BY <1>1, SendingType
    <3> QED BY <1>3, <3>1, EdgeView
  <2>2. /\ View'.got = Append(View.got, View.receivedata)
        /\ ~View.receiveError /\ ~View'.receiveError /\ View.receivecount = 10 /\ d = 1
    BY <1>3, <2>1, ViewType, ReceiveGrows
  <2>3. ~Behind(View)
    <3>1. SUFFICES ASSUME Behind(View) PROVE FALSE
      OBVIOUS
    <3>2. budget.lost < MaxLost /\ kbd.pos = 0
      BY <1>1, <2>2, <3>1 DEF Behind
    <3>3. budget.lost # MaxLost
      BY <3>2, LineAssumption DEF TypesInv
    <3>4. Bit = 0
      BY <3>2, FrameBits
    <3> QED BY <2>1, <2>2, <3>3, <3>4
  <2>4. InStep(View)
    BY <2>1, <2>2, <2>3 DEF StepInv
  <2>5. kbd.pos = 10 /\ kbd.clean = TRUE
        /\ Holds(kbd.clean, View.receivedata, Sending, DataBits(View.receivecount))
    BY <1>1, <2>2, <2>4 DEF InStep, TypesInv
  <2>6. Holds(TRUE, View.receivedata, Sending, 8)
    <3>1. DataBits(View.receivecount) = 8
      BY <2>2 DEF DataBits
    <3> QED BY <2>5, <3>1
  <2>7. View.receivedata = Sending
    <3>1. View.receivedata \in Byte
      BY ViewType DEF Receivers
    <3> QED BY <1>1, <2>6, <3>1, HoldsAll, SendingType
  <2>8. ~kbd.again /\ cmd.phase \notin {"presend", "exchange"}
    <3>1. prog.at \in InCall \cup {"idle", "hung"}
      BY DEF TypesInv
    <3> QED BY <1>1, <2>1, <3>1 DEF ControlInv, InCall, Draining
  <2>9. ~Outstanding'
    BY <1>1, <2>2, <2>5, <2>8 DEF Outstanding, Resending
  <2> QED BY <1>1, <2>2, <2>5, <2>7, <2>9
<1> QED BY <1>1, <1>2, <1>3

(* Outside of a frame only an error makes a byte outstanding. *)
LEMMA StillOutstanding ==
  ASSUME TypesInv, ControlInv, ~raced', Outstanding',
         T5Handler \/ Exchanged \/ Call \/ DMADisable \/ Test \/ ReadSample \/ Load \/ Store
         \/ Wrap \/ SetStatus
  PROVE  Outstanding
<1>1. kbd \in [pos : -1 .. 10, sent : Seq(Bytes), again : BOOLEAN, clean : BOOLEAN,
               edges : 0 .. 2, quiet : Nat]
      /\ cmd \in [phase : {"none", "presend", "exchange", "sent"}, resend : BOOLEAN,
                  count : 0 .. PS2TIME_PRESEND]
  BY DEF TypesInv
<1>2. CASE T5Handler
  <2>1. PICK g \in Receivers :
          /\ g = Seen(View) /\ rx' = [g EXCEPT !.receiveError = FALSE]
          /\ cmd' = After(g.receiveError, NewLock(g))
    BY <1>2, T5View
  <2>2. View' = rx' /\ ~rx'.receiveError
    BY <1>2, <2>1, T5View DEF Receivers
  <2>3. g.receiveError \in BOOLEAN /\ NewLock(g) \in BOOLEAN
    BY DEF Receivers, NewLock
  <2>4. /\ SendStart => cmd'.resend = cmd.resend
        /\ cmd.phase = "exchange" => cmd'.resend = cmd.resend
        /\ cmd.phase = "presend" /\ ~SendStart => cmd'.resend = cmd.resend
        /\ cmd.phase \in {"none", "sent"} =>
             /\ g.receiveError => cmd' = Start(TRUE)
             /\ ~g.receiveError /\ NewLock(g) => cmd' = Start(FALSE)
             /\ ~g.receiveError /\ ~NewLock(g) => cmd'.phase = "none"
    BY <2>1, <2>3, AfterPhases
  <2>5. g.receiveError => View.receiveError
    BY <2>1, ViewType, SeenFields
  <2>6. Resending' => Resending \/ View.receiveError
    <3>1. CASE cmd.phase \in {"presend", "exchange"}
      BY <1>1, <2>4, <3>1 DEF Resending
    <3>2. CASE cmd.phase \in {"none", "sent"}
      BY <2>3, <2>4, <2>5, <3>2 DEF Resending, Start
    <3> QED BY <1>1, <3>1, <3>2
  <2>7. /\ kbd'.pos # NotSending => kbd.pos # NotSending
        /\ kbd'.again => kbd.again \/ kbd.pos # NotSending
    BY <1>1, <1>2, T5Cases
  <2> QED BY <2>2, <2>6, <2>7 DEF Outstanding
<1>3. CASE Exchanged
  <2>1. View' = View
    BY <1>3, CallView
  <2>2. cmd'.phase = "sent" /\ cmd.phase = "exchange" /\ kbd'.pos = kbd.pos
        /\ (kbd'.again => kbd.again \/ cmd.resend)
    BY <1>1, <1>3 DEF Exchanged
  <2> QED BY <2>1, <2>2 DEF Outstanding, Resending
<1>4. CASE Call \/ DMADisable \/ Test \/ ReadSample \/ Load \/ Store \/ Wrap \/ SetStatus
  <2>1. View' = View /\ kbd' = kbd /\ (cmd' = cmd \/ cmd' = Start(FALSE))
    BY <1>4, ProgramStill
  <2> QED BY <2>1 DEF Outstanding, Resending, Start
<1> QED BY <1>2, <1>3, <1>4

(* Only an edge brings a byte. *)
LEMMA GotSame ==
  ASSUME TypesInv, ControlInv, ~raced', Next, ~Edge
  PROVE  View'.got = View.got
<1>1. CASE T5Handler
  <2>1. PICK g \in Receivers : g = Seen(View) /\ rx' = [g EXCEPT !.receiveError = FALSE]
    BY <1>1, T5View
  <2>2. View' = rx' /\ rx'.got = g.got
    BY <1>1, <2>1, T5View DEF Receivers
  <2>3. g.got = View.got
    BY <2>1, ViewType, SeenFields
  <2> QED BY <2>2, <2>3
<1>2. CASE Call \/ DMADisable \/ Test \/ ReadSample \/ Load \/ Store \/ Wrap \/ SetStatus
  BY <1>2, ProgramStill
<1>3. CASE StartFrame \/ Exchanged
  BY <1>3, CallView
<1>4. CASE T5Loops
  BY <1>4 DEF T5Loops
<1> QED BY <1>1, <1>2, <1>3, <1>4 DEF Next

LEMMA SentType ==
  ASSUME TypesInv
  PROVE  /\ kbd.sent \in Seq(Bytes) /\ Len(kbd.sent) \in Nat /\ kbd.sent \in Seq(Byte)
         /\ kbd.pos # NotSending \/ kbd.again => kbd.sent # <<>>
<1>1. kbd.sent \in Seq(Bytes) /\ (kbd.pos # NotSending \/ kbd.again => kbd.sent # <<>>)
  BY DEF TypesInv
<1>2. Bytes \subseteq Byte
  BY LineAssumption DEF Byte, Bits
<1>3. Len(kbd.sent) \in Nat
  BY <1>1, LenProperties
<1>4. kbd.sent \in Seq(Byte)
  BY <1>1, <1>2
<1> QED BY <1>1, <1>3, <1>4

LEMMA GhostStep ==
  ASSUME TypesInv, ControlInv, ControlInv', GhostInv, Next, ~raced'
  PROVE  GhostInv'
<1>1. SUFFICES ASSUME MaxLost <= 1
               PROVE  /\ StepInv'
                      /\ Embeds(View'.got, kbd'.sent, Len(kbd'.sent))
                      /\ Outstanding' => Embeds(View'.got, kbd'.sent, Len(kbd'.sent) - 1)
  BY DEF GhostInv
<1>2. /\ StepInv
      /\ Embeds(View.got, kbd.sent, Len(kbd.sent))
      /\ Outstanding => Embeds(View.got, kbd.sent, Len(kbd.sent) - 1)
  BY <1>1 DEF GhostInv
<1>3. StepInv'
  <2>1. T5Handler => StepInv'
    BY <1>2, StepT5
  <2>2. Edge => StepInv'
    BY <1>1, <1>2, StepEdge
  <2>3. ~T5Handler /\ ~Edge => StepInv'
    BY <1>2, StepOther DEF Next
  <2> QED BY <2>1, <2>2, <2>3
<1>4. kbd.sent \in Seq(Bytes) /\ Len(kbd.sent) \in Nat
  BY SentType
<1>5. CASE Edge
  <2>1. kbd'.sent = kbd.sent /\ Outstanding
    BY <1>2, <1>5, Accepted
  <2>2. CASE View'.got = View.got
    BY <1>2, <1>3, <2>1, <2>2
  <2>3. CASE View'.got = Append(View.got, Sending) /\ ~Outstanding'
    <3>1. Embeds(View.got, kbd.sent, Len(kbd.sent) - 1)
      BY <1>2, <2>1
    <3>2. View.got \in Seq(Byte) /\ Sending \in Byte /\ Len(kbd.sent) >= 1
      BY <1>5, ViewType, SendingType, EdgeCases DEF Receivers
    <3>3. Embeds(Append(View.got, Sending), kbd.sent, Len(kbd.sent))
      <4> DEFINE s == View.got
                 t == kbd.sent
                 e == Sending
                 n == Len(kbd.sent)
      <4>1. n \in Int /\ n >= 1 /\ Embeds(s, t, n - 1) /\ t[n] = e /\ s \in Seq(Byte) /\ e \in Byte
        BY <1>4, <3>1, <3>2 DEF Sending
      <4> HIDE DEF s, t, e, n
      <4>2. Embeds(Append(s, e), t, n)
        BY <4>1, EmbedsNext
      <4> QED BY <4>2 DEF s, t, e, n
    <3> QED BY <1>3, <2>1, <2>3, <3>3
  <2> QED BY <1>2, <1>5, <2>2, <2>3, Accepted
<1>6. CASE StartFrame
  <2>1. View'.got = View.got
    BY <1>6, CallView
  <2>2. CASE kbd.again /\ kbd'.sent = kbd.sent
    <3>1. Outstanding
      BY <2>2 DEF Outstanding
    <3> QED BY <1>2, <1>3, <2>1, <2>2, <3>1
  <2>3. ASSUME NEW b \in Bytes, kbd'.sent = Append(kbd.sent, b)
        PROVE  /\ Embeds(View.got, kbd'.sent, Len(kbd'.sent))
               /\ Embeds(View.got, kbd'.sent, Len(kbd'.sent) - 1)
    <3> DEFINE s == View.got
               t == kbd.sent
               u == kbd'.sent
               n == Len(kbd.sent)
               m == Len(kbd'.sent)
    <3>1. n \in Int /\ m = n + 1 /\ \A i \in 1 .. n : u[i] = t[i]
      BY <1>4, <2>3, Appended
    <3>2. Embeds(s, t, n)
      BY <1>2
    <3> HIDE DEF s, t, u, n, m
    <3>3. Embeds(s, u, m)
      <4>1. m \in Int /\ n <= m
        BY <3>1
      <4> QED BY <3>1, <3>2, <4>1, EmbedsMore
    <3>4. Embeds(s, u, n)
      <4>1. n <= n
        BY <3>1
      <4> QED BY <3>1, <3>2, <4>1, EmbedsMore
    <3>5. m - 1 = n
      BY <3>1
    <3> QED BY <3>3, <3>4, <3>5 DEF s, t, u, n, m
  <2> QED BY <1>3, <1>6, <2>1, <2>2, <2>3, StartFrameCases
<1>7. CASE ~Edge /\ ~StartFrame
  <2>1. View'.got = View.got
    BY <1>7, GotSame
  <2>2. ~T5Loops
    BY DEF T5Loops
  <2>3. kbd'.sent = kbd.sent
    <3>1. kbd \in [pos : -1 .. 10, sent : Seq(Bytes), again : BOOLEAN, clean : BOOLEAN,
                   edges : 0 .. 2, quiet : Nat]
      BY DEF TypesInv
    <3>2. T5Handler => kbd'.sent = kbd.sent
      BY <3>1, T5Cases
    <3>3. Exchanged => kbd'.sent = kbd.sent
      BY <3>1 DEF Exchanged
    <3>4. Call \/ DMADisable \/ Test \/ ReadSample \/ Load \/ Store \/ Wrap \/ SetStatus
          => kbd'.sent = kbd.sent
      BY ProgramStill
    <3> QED BY <1>7, <2>2, <3>2, <3>3, <3>4 DEF Next
  <2>4. Outstanding' => Outstanding
    BY <1>7, <2>2, StillOutstanding DEF Next
  <2> QED BY <1>2, <1>3, <2>1, <2>3, <2>4
<1> QED BY <1>5, <1>6, <1>7

-----------------------------------------------------------------------------
(* A sequence, with one more at its end or without its last. *)
LEMMA AllButLast ==
  ASSUME NEW S, NEW s \in Seq(S)
  PROVE  /\ s # <<>> => Append(AllBut(s), s[Len(s)]) = s
         /\ \A b \in S : AllBut(Append(s, b)) = s
<1> DEFINE n == Len(s)
<1>1. n \in Nat /\ \A i \in 1 .. n : s[i] \in S
  BY LenProperties
<1>2. s # <<>> => n >= 1
  BY <1>1, EmptySeq
<1>3. ASSUME s # <<>> PROVE Append(AllBut(s), s[n]) = s
  <2> DEFINE r == AllBut(s)
  <2>1. /\ r \in Seq(S) /\ Len(r) = n - 1 /\ \A i \in 1 .. n - 1 : r[i] = s[i]
    <3>1. /\ SubSeq(s, 1, n - 1) \in Seq(S)
          /\ Len(SubSeq(s, 1, n - 1)) = IF 1 <= n - 1 THEN n - 1 - 1 + 1 ELSE 0
          /\ \A i \in 1 .. n - 1 - 1 + 1 : SubSeq(s, 1, n - 1)[i] = s[1 + i - 1]
      <4>1. 1 \in Int /\ n - 1 \in Int /\ \A i \in 1 .. n - 1 : s[i] \in S
        BY <1>1
      <4> HIDE DEF n
      <4> QED BY <4>1, SubSeqProperties
    <3>2. r = SubSeq(s, 1, n - 1)
      BY DEF AllBut
    <3> HIDE DEF r, n
    <3> QED BY <1>1, <1>2, <1>3, <3>1, <3>2
  <2>2. s[n] \in S
    BY <1>1, <1>2, <1>3
  <2> DEFINE a == Append(r, s[n])
  <2>3. /\ a \in Seq(S) /\ Len(a) = Len(r) + 1 /\ a[Len(r) + 1] = s[n]
        /\ \A i \in 1 .. Len(r) : a[i] = r[i]
    <3> HIDE DEF r, n
    <3> QED BY <2>1, <2>2, Appended
  <2> HIDE DEF a, r
  <2>4. Len(a) = n /\ \A i \in 1 .. n : a[i] = s[i]
    BY <1>1, <2>1, <2>3
  <2>5. a = s
    BY <2>3, <2>4, SeqEqual
  <2> QED BY <2>5 DEF a, r
<1>4. ASSUME NEW b \in S PROVE AllBut(Append(s, b)) = s
  <2> DEFINE a == Append(s, b)
  <2>1. /\ a \in Seq(S) /\ Len(a) = n + 1 /\ \A i \in 1 .. n : a[i] = s[i]
    BY Appended
  <2> HIDE DEF a
  <2> DEFINE r == SubSeq(a, 1, n)
  <2>2. /\ r \in Seq(S) /\ Len(r) = n /\ \A i \in 1 .. n : r[i] = s[i]
    <3>1. 1 \in Int /\ n \in Int /\ \A i \in 1 .. n : a[i] \in S
      BY <1>1, <2>1
    <3> HIDE DEF n
    <3>2. /\ SubSeq(a, 1, n) \in Seq(S)
          /\ Len(SubSeq(a, 1, n)) = IF 1 <= n THEN n - 1 + 1 ELSE 0
          /\ \A i \in 1 .. n - 1 + 1 : SubSeq(a, 1, n)[i] = a[1 + i - 1]
      BY <3>1, SubSeqProperties
    <3>3. n \in Nat
      BY <1>1 DEF n
    <3> HIDE DEF r
    <3>4. r = SubSeq(a, 1, n)
      BY DEF r
    <3> QED BY <2>1, <3>2, <3>3, <3>4
  <2> HIDE DEF r
  <2>3. r = s
    BY <2>2, SeqEqual
  <2>4. AllBut(a) = r
    <3>1. Len(a) - 1 = n
      BY <1>1, <2>1
    <3> QED BY <3>1 DEF AllBut, r
  <2> QED BY <2>3, <2>4 DEF a
<1> QED BY <1>3, <1>4

(* With no edge missed the byte of a frame is accepted at its end, or there *)
(* is an error, or the driver is about to ask for it.                       *)
LEMMA EdgeOutstanding ==
  ASSUME TypesInv, ControlInv, StepInv, Edge, budget'.lost = MaxLost,
         cmd.phase = "presend" /\ ~cmd.resend => kbd.pos = NotSending,
         prog.at = "idle"
  PROVE  View'.got # View.got \/ Outstanding'
<1>1. /\ kbd.pos # NotSending /\ kbd.pos \in 0 .. 10 /\ cmd.phase # "exchange"
      /\ kbd'.pos = (IF kbd.pos = 10 THEN NotSending ELSE kbd.pos + 1)
      /\ cmd' = cmd
  BY EdgeFields
<1>2. CASE kbd.pos # 10
  BY <1>1, <1>2 DEF Outstanding, NotSending
<1>3. CASE ~dma.on
  <2>1. cmd.phase = "presend"
    BY <1>1, <1>3 DEF ControlInv, TypesInv
  <2> QED BY <1>1, <2>1 DEF Outstanding, Resending
<1>4. CASE kbd.pos = 10 /\ dma.on
  <2>1. budget.lost \in 0 .. MaxLost /\ MaxLost \in Nat
    BY LineAssumption DEF TypesInv
  <2>2. PICK d \in Bits : View' = Receive(View, d)
    <3>1. Bit \in Bits /\ 1 - Bit \in Bits
      BY <1>1, SendingType
    <3> QED BY <1>4, <2>1, <3>1, EdgeView, EdgeBudget
  <2>3. CASE View.receiveError
    <3>1. View' = View
      BY <2>2, <2>3, ViewType, ReceiveFields
    <3> QED BY <2>3, <3>1 DEF Outstanding
  <2>4. CASE ~View.receiveError
    <3>1. ~Behind(View)
      BY <2>1, EdgeBudget DEF Behind
    <3>2. InStep(View)
      BY <1>4, <2>4, <3>1 DEF StepInv
    <3>3. View.receivecount = 10
      BY <1>1, <1>4, <3>2 DEF InStep
    <3> DEFINE r == View'
    <3>4. r.receiveError \/ r.got = Append(View.got, View.receivedata)
      <4>1. View \in Receivers /\ r = Receive(View, d) /\ (d = 0 \/ d = 1)
        BY <2>2, ViewType DEF Bits
      <4> HIDE DEF r
      <4> QED BY <2>4, <3>3, <4>1, ReceiveFields
    <3>5. Append(View.got, View.receivedata) # View.got
      <4>1. View.got \in Seq(Byte) /\ View.receivedata \in Byte
        BY ViewType DEF Receivers
      <4>2. Len(Append(View.got, View.receivedata)) = Len(View.got) + 1 /\ Len(View.got) \in Nat
        BY <4>1, Appended, LenProperties
      <4> QED BY <4>2
    <3> QED BY <3>4, <3>5 DEF Outstanding
  <2> QED BY <2>3, <2>4
<1> QED BY <1>2, <1>3, <1>4

(* Conversely, what is outstanding stays so until it is sent again. *)
LEMMA KeepsOutstanding ==
  ASSUME TypesInv, ControlInv, ~raced', Outstanding, T5Handler \/ Exchanged,
         budget.calls = MaxCalls
  PROVE  Outstanding'
<1>1. kbd \in [pos : -1 .. 10, sent : Seq(Bytes), again : BOOLEAN, clean : BOOLEAN,
               edges : 0 .. 2, quiet : Nat]
      /\ cmd \in [phase : {"none", "presend", "exchange", "sent"}, resend : BOOLEAN,
                  count : 0 .. PS2TIME_PRESEND]
  BY DEF TypesInv
<1>2. prog.at = "idle" /\ ~rx.receiveError
  BY DEF ControlInv
<1>3. View.receiveError => cmd.phase = "none"
  <2>1. SUFFICES ASSUME cmd.phase # "none" PROVE View = rx
    BY <1>2
  <2>2. CASE cmd.phase \in {"exchange", "sent"}
    BY <2>2, QuietView DEF ControlInv
  <2>3. CASE cmd.phase = "presend"
    <3>1. Waiting = 0
      BY <1>2, <2>3, FirstSlot DEF ControlInv, Draining
    <3> QED BY <3>1 DEF View
  <2> QED BY <1>1, <2>1, <2>2, <2>3
<1>4. CASE T5Handler
  <2>1. PICK g \in Receivers :
          /\ g = Seen(View) /\ cmd' = After(g.receiveError, NewLock(g))
    BY <1>4, T5View
  <2>2. g.receiveError \in BOOLEAN /\ NewLock(g) \in BOOLEAN
    BY DEF Receivers, NewLock
  <2>3. /\ SendStart => cmd'.phase = "exchange" /\ cmd'.resend = cmd.resend
        /\ cmd.phase = "exchange" => cmd'.phase = "exchange" /\ cmd'.resend = cmd.resend
        /\ cmd.phase = "presend" /\ ~SendStart =>
             cmd'.phase = "presend" /\ cmd'.resend = cmd.resend
        /\ cmd.phase = "none" /\ g.receiveError => cmd' = Start(TRUE)
    BY <2>1, <2>2, AfterPhases
  <2>4. View.receiveError => g.receiveError
    BY <1>3, <2>1, ViewType, SeenFields
  <2>5. /\ ~SendStart => kbd'.pos = kbd.pos
        /\ kbd'.again <=> kbd.again \/ (SendStart /\ kbd.pos # NotSending)
    BY <1>1, <1>4, T5Cases
  <2>6. CASE kbd.pos # NotSending
    BY <2>5, <2>6 DEF Outstanding
  <2>7. CASE kbd.again
    BY <2>5, <2>7 DEF Outstanding
  <2>8. CASE View.receiveError
    BY <1>3, <2>3, <2>4, <2>8 DEF Outstanding, Resending, Start
  <2>9. CASE Resending
    BY <2>3, <2>9 DEF Outstanding, Resending
  <2> QED BY <2>6, <2>7, <2>8, <2>9 DEF Outstanding
<1>5. CASE Exchanged
  <2>1. cmd.phase = "exchange" /\ kbd'.pos = kbd.pos
        /\ (kbd'.again <=> kbd.again \/ (cmd.resend /\ kbd.sent # <<>>))
    BY <1>1, <1>5 DEF Exchanged
  <2>2. Resending => kbd.sent # <<>>
    BY DEF ControlInv, Resending
  <2> QED BY <1>3, <2>1, <2>2 DEF Outstanding, Resending
<1> QED BY <1>4, <1>5

LEMMA DeliveredStep ==
  ASSUME TypesInv, ControlInv, ControlInv', DeliveredInv, Next, ~raced'
  PROVE  DeliveredInv'
<1>1. SUFFICES ASSUME LongGaps, budget'.lost = MaxLost, budget'.calls = MaxCalls
               PROVE  /\ StepInv'
                      /\ View'.got = IF Outstanding' THEN AllBut(kbd'.sent) ELSE kbd'.sent
                      /\ cmd'.phase = "presend" =>
                           kbd'.quiet + cmd'.count <= PS2TIME_PRESEND + 1
                      /\ cmd'.phase = "presend" /\ ~cmd'.resend => kbd'.pos = NotSending
                      /\ View'.got # rx'.got => kbd'.pos = NotSending
  BY DEF DeliveredInv, Undisturbed, AllBut
<1>2. ~T5Loops /\ ~(Call \/ DMADisable \/ Test \/ ReadSample \/ Load \/ Store \/ Wrap \/ SetStatus)
  BY <1>1, ProgramStill DEF T5Loops
<1>3. budget.lost = MaxLost /\ budget.calls = MaxCalls
  <2>1. T5Handler => budget' = budget
    BY T5Cases
  <2>2. Edge => budget.lost = MaxLost /\ budget.calls = MaxCalls
    BY <1>1, EdgeBudget
  <2>3. StartFrame \/ Exchanged => budget' = budget
    BY DEF StartFrame, Exchanged
  <2> QED BY <1>1, <1>2, <2>1, <2>2, <2>3 DEF Next
<1>4. /\ StepInv
      /\ View.got = IF Outstanding THEN AllBut(kbd.sent) ELSE kbd.sent
      /\ cmd.phase = "presend" => kbd.quiet + cmd.count <= PS2TIME_PRESEND + 1
      /\ cmd.phase = "presend" /\ ~cmd.resend => kbd.pos = NotSending
      /\ View.got # rx.got => kbd.pos = NotSending
  BY <1>1, <1>3 DEF DeliveredInv, Undisturbed
<1>5. prog.at = "idle" /\ ~rx.receiveError
  BY <1>3 DEF ControlInv
<1>6. kbd \in [pos : -1 .. 10, sent : Seq(Bytes), again : BOOLEAN, clean : BOOLEAN,
               edges : 0 .. 2, quiet : Nat]
      /\ cmd \in [phase : {"none", "presend", "exchange", "sent"}, resend : BOOLEAN,
                  count : 0 .. PS2TIME_PRESEND]
      /\ (cmd.phase = "presend" => cmd.count >= 1)
  BY DEF TypesInv
<1>7. PS2TIME_PRESEND \in Nat /\ PS2TIME_PRESEND > 0
  BY Timeout
<1>8. CASE T5Handler
  <2>1. PICK g \in Receivers :
          /\ g = Seen(View) /\ cmd' = After(g.receiveError, NewLock(g))
    BY <1>8, T5View
  <2>2. View' = rx' /\ StepInv' /\ View'.got = View.got
    BY <1>4, <1>8, T5View, StepT5, GotSame DEF Edge, T5Handler
  <2>3. Outstanding' <=> Outstanding
    BY <1>3, <1>8, StillOutstanding, KeepsOutstanding
  <2>4. /\ kbd'.sent = kbd.sent
        /\ kbd'.pos = (IF SendStart THEN NotSending ELSE kbd.pos)
        /\ kbd'.quiet = (IF kbd.pos # NotSending THEN 0
                         ELSE IF kbd.quiet > PS2TIME_RECEIVETIMEOUT + 1
                              THEN kbd.quiet ELSE kbd.quiet + 1)
    BY <1>6, <1>8, T5Cases
  <2>5. kbd'.quiet \in 0 .. kbd.quiet + 1
    BY <1>6, <2>4, Timeout
  <2>6. g.receiveError \in BOOLEAN /\ NewLock(g) \in BOOLEAN
    BY DEF Receivers, NewLock
  <2>7. /\ SendStart => cmd'.phase = "exchange"
        /\ cmd.phase = "exchange" => cmd'.phase = "exchange"
        /\ cmd.phase = "presend" /\ ~SendStart =>
             cmd'.phase = "presend" /\ cmd'.resend = cmd.resend /\ cmd'.count = cmd.count - 1
        /\ cmd.phase \in {"none", "sent"} =>
             /\ g.receiveError => cmd' = Start(TRUE)
             /\ ~g.receiveError /\ NewLock(g) => cmd' = Start(FALSE)
             /\ ~g.receiveError /\ ~NewLock(g) => cmd'.phase = "none"
    BY <2>1, <2>6, AfterPhases
  <2>8. g.receiveError => View # rx
    <3>1. g.receiveError => View.receiveError
      BY <2>1, ViewType, SeenFields
    <3> QED BY <1>5, <3>1
  <2>9. NewLock(g) => View.got # rx.got
    <3>1. g.got = View.got
      BY <2>1, ViewType, SeenFields
    <3>2. rx.got \in Seq(Byte)
      BY ViewType DEF Receivers
    <3>3. Len(rx.got) \in Nat
      BY <3>2, LenProperties
    <3> QED BY <3>1, <3>3 DEF NewLock
  <2>10. View # rx => kbd.quiet = 0
    BY <1>6, QuietView DEF ControlInv
  <2>11. CASE cmd.phase = "presend" /\ ~SendStart
    <3>1. kbd'.quiet + cmd'.count <= PS2TIME_PRESEND + 1
      BY <1>4, <1>6, <1>7, <2>5, <2>7, <2>11
    <3>2. ~cmd'.resend => kbd'.pos = NotSending
      BY <1>4, <2>4, <2>7, <2>11
    <3> QED BY <1>4, <2>2, <2>3, <2>4, <3>1, <3>2
  <2>12. CASE SendStart \/ cmd.phase = "exchange"
    BY <1>4, <2>2, <2>3, <2>4, <2>7, <2>12
  <2>13. CASE cmd.phase \in {"none", "sent"}
    <3>1. ~SendStart
      BY <2>13 DEF SendStart
    <3>2. cmd'.phase = "presend" => kbd'.quiet + cmd'.count <= PS2TIME_PRESEND + 1
      <4>1. cmd'.phase = "presend" => g.receiveError \/ NewLock(g)
        BY <2>6, <2>7, <2>13
      <4>2. cmd'.phase = "presend" => kbd'.quiet <= 1 /\ cmd'.count = PS2TIME_PRESEND
        BY <2>5, <2>6, <2>7, <2>8, <2>9, <2>10, <2>13, <4>1 DEF Start
      <4> QED BY <1>7, <2>5, <4>2
    <3>3. cmd'.phase = "presend" /\ ~cmd'.resend => kbd'.pos = NotSending
      <4>1. cmd'.phase = "presend" /\ ~cmd'.resend => NewLock(g)
        BY <2>6, <2>7, <2>13 DEF Start
      <4> QED BY <1>4, <2>4, <2>9, <4>1
    <3> QED BY <1>4, <2>2, <2>3, <2>4, <3>2, <3>3
  <2> QED BY <1>6, <2>11, <2>12, <2>13
<1>9. CASE Edge
  <2>1. /\ kbd.pos # NotSending /\ kbd'.quiet = 0 /\ kbd'.sent = kbd.sent
        /\ cmd' = cmd /\ rx' = rx
    BY <1>9, EdgeFields
  <2>2. StepInv'
    BY <1>1, <1>4, <1>9, StepEdge
  <2>3. Outstanding /\ View.got = AllBut(kbd.sent) /\ View.got = rx.got
    BY <1>4, <2>1 DEF Outstanding
  <2>4. View'.got # View.got \/ Outstanding'
    BY <1>1, <1>4, <1>5, <1>9, EdgeOutstanding
  <2>5. View'.got # View.got =>
          View'.got = Append(View.got, Sending) /\ ~Outstanding' /\ kbd'.pos = NotSending
    BY <1>4, <1>9, Accepted
  <2>6. Append(AllBut(kbd.sent), Sending) = kbd.sent
    BY <2>1, SentType, AllButLast DEF Sending
  <2>7. View'.got = IF Outstanding' THEN AllBut(kbd'.sent) ELSE kbd'.sent
    BY <2>1, <2>3, <2>4, <2>5, <2>6
  <2>8. cmd'.phase = "presend" => kbd'.quiet + cmd'.count <= PS2TIME_PRESEND + 1
    BY <1>6, <1>7, <2>1
  <2> QED BY <1>4, <2>1, <2>2, <2>3, <2>5, <2>7, <2>8
<1>10. CASE StartFrame
  <2>1. /\ kbd.pos = NotSending /\ kbd.quiet \in Gaps /\ kbd.quiet > 0
        /\ cmd.phase # "exchange" /\ kbd'.pos = 0
        /\ \/ kbd.again /\ kbd'.sent = kbd.sent
           \/ ~kbd.again /\ \E b \in Bytes : kbd'.sent = Append(kbd.sent, b)
    BY <1>10, StartFrameCases
  <2>2. cmd' = cmd /\ View' = View /\ rx' = rx /\ View = rx
    <3>1. kbd.edges = 0
      BY <2>1 DEF ControlInv
    <3> QED BY <1>10, <3>1, QuietView, CallView DEF StartFrame
  <2>3. cmd.phase = "none"
    <3>1. kbd.quiet > PS2TIME_PRESEND
      BY <1>1, <2>1 DEF LongGaps
    <3>2. cmd.phase # "presend"
      BY <1>4, <1>6, <1>7, <3>1
    <3>3. cmd.phase # "sent"
      BY <2>1 DEF ControlInv
    <3> QED BY <1>6, <2>1, <3>2, <3>3
  <2>4. Outstanding <=> kbd.again
    BY <1>5, <2>1, <2>2, <2>3 DEF Outstanding, Resending
  <2>5. Outstanding'
    BY <2>1 DEF Outstanding, NotSending
  <2>6. View'.got = AllBut(kbd'.sent)
    <3>1. CASE kbd.again /\ kbd'.sent = kbd.sent
      BY <1>4, <2>2, <2>4, <3>1
    <3>2. ASSUME ~kbd.again, NEW b \in Bytes, kbd'.sent = Append(kbd.sent, b)
          PROVE  View'.got = AllBut(kbd'.sent)
      <4>1. AllBut(kbd'.sent) = kbd.sent
        BY <1>6, <3>2, AllButLast
      <4> QED BY <1>4, <2>2, <2>4, <3>2, <4>1
    <3> QED BY <2>1, <3>1, <3>2
  <2>7. StepInv'
    BY <1>4, <1>10, StepOther
  <2> QED BY <2>2, <2>3, <2>5, <2>6, <2>7
<1>11. CASE Exchanged
  <2>1. /\ View' = View /\ rx' = rx /\ kbd'.sent = kbd.sent /\ cmd'.phase = "sent"
    BY <1>6, <1>11, CallView DEF Exchanged
  <2>2. View = rx
    BY <1>11, QuietView DEF Exchanged, ControlInv
  <2>3. Outstanding' <=> Outstanding
    BY <1>3, <1>11, StillOutstanding, KeepsOutstanding
  <2>4. StepInv'
    BY <1>4, <1>11, StepOther
  <2> QED BY <1>4, <2>1, <2>2, <2>3, <2>4
<1> QED BY <1>2, <1>8, <1>9, <1>10, <1>11 DEF Next

-----------------------------------------------------------------------------
(* The invariant, from the initial state through every step. *)
LEMMA InvInit ==
  ASSUME Init
  PROVE  Inv
<1>1. TypesInv /\ ControlInv
  BY TypesInit, ControlInit
<1>2. /\ rx.got = <<>> /\ rx.receivecount = 0 /\ ~rx.receiveError
      /\ kbd.pos = NotSending /\ kbd.sent = <<>> /\ ~kbd.again
      /\ kbd.edges = 0 /\ kbd.quiet = 0 /\ cmd.phase = "none"
  BY DEF Init, NoCommand
<1>3. View = rx
  BY <1>1, <1>2, QuietView
<1>4. ~Outstanding
  BY <1>2, <1>3 DEF Outstanding, Resending
<1>5. StepInv
  BY <1>2, <1>3 DEF StepInv, InStep, NotSending
<1>6. QuietInv
  BY <1>2 DEF QuietInv
<1>7. GhostInv
  BY <1>2, <1>3, <1>4, <1>5, EmbedsNone DEF GhostInv
<1>8. DeliveredInv
  BY <1>2, <1>3, <1>4, <1>5 DEF DeliveredInv
<1>9. CalledInv
  BY DEF Init, CalledInv
<1> QED BY <1>1, <1>6, <1>7, <1>8, <1>9 DEF Inv

LEMMA TypesStep ==
  ASSUME TypesInv, [Next]_vars
  PROVE  TypesInv'
<1>1. CASE UNCHANGED vars
  BY <1>1 DEF vars, TypesInv
<1>2. CASE Next
  BY <1>2, TypesT5Handler, TypesProgram, TypesStartFrame, TypesEdge, TypesExchanged DEF Next
<1> QED BY <1>1, <1>2

LEMMA ControlStep ==
  ASSUME TypesInv, TypesInv', ControlInv, Next, ~raced'
  PROVE  ControlInv'
<1>1. ~T5Loops
  BY DEF T5Loops
<1> QED BY <1>1, ControlT5, ControlProgram, ControlCalls, ControlStartFrame, ControlEdge DEF Next

LEMMA CalledStep ==
  ASSUME TypesInv, CalledInv, ~raced => ControlInv, Next
  PROVE  CalledInv'
<1>1. /\ budget \in [flips : 0 .. MaxFlips, lost : 0 .. MaxLost, calls : 0 .. MaxCalls]
      /\ dma.readpt = PS2DMABUFSIZE => prog.at \in {"wrap", "hung"}
      /\ MaxCalls \in Nat
  BY LineAssumption DEF TypesInv
<1>2. ~raced /\ prog.at # "idle" => budget.calls < MaxCalls
  BY <1>1 DEF ControlInv
<1>3. CASE T5Handler
  BY <1>2, <1>3, T5Cases DEF CalledInv, Draining
<1>4. CASE T5Loops
  BY <1>1, <1>2, <1>4 DEF CalledInv, T5Loops
<1>5. CASE Call
  <2>1. budget'.calls = budget.calls - 1 /\ budget.calls - 1 < MaxCalls
    BY <1>1, <1>5 DEF Call
  <2> QED BY <2>1 DEF CalledInv
<1>6. CASE Edge
  <2>1. raced' = raced /\ budget'.calls = budget.calls
    <3>1. budget' = budget \/ budget' = [budget EXCEPT !.flips = @ - 1]
          \/ budget' = [budget EXCEPT !.lost = @ - 1]
      BY <1>6, EdgeCases
    <3> QED BY <1>1, <1>6, <3>1, EdgeCases
  <2> QED BY <2>1 DEF CalledInv
<1>7. CASE DMADisable \/ Test \/ ReadSample \/ Load \/ Store \/ Wrap \/ SetStatus
           \/ StartFrame \/ Exchanged
  <2>1. raced' = raced /\ budget' = budget
    BY <1>7 DEF DMADisable, Test, ReadSample, Load, Store, Wrap, SetStatus, StartFrame, Exchanged
  <2> QED BY <2>1 DEF CalledInv
<1> QED BY <1>3, <1>4, <1>5, <1>6, <1>7 DEF Next

LEMMA InvStep ==
  ASSUME Inv, [Next]_vars
  PROVE  Inv'
<1>1. CASE UNCHANGED vars
  <2>1. /\ rx' = rx /\ dma' = dma /\ cmd' = cmd /\ prog' = prog /\ kbd' = kbd
        /\ raced' = raced /\ budget' = budget
    BY <1>1 DEF vars
  <2>2. First' = First
    BY <2>1 DEF First
  <2>3. View' = View /\ Waiting' = Waiting
    BY <2>1, <2>2, ViewSame
  <2>4. Sending' = Sending /\ (Resending' <=> Resending) /\ (Outstanding' <=> Outstanding)
    BY <2>1, <2>3 DEF Sending, Resending, Outstanding
  <2>5. (InStep(View)' <=> InStep(View)) /\ (Behind(View)' <=> Behind(View))
    BY <2>1, <2>3, <2>4 DEF InStep, Behind
  <2>6. StepInv' <=> StepInv
    BY <2>1, <2>3, <2>5 DEF StepInv
  <2>7. (TypesInv' <=> TypesInv) /\ (ControlInv' <=> ControlInv) /\ (QuietInv' <=> QuietInv)
    BY <2>1, <2>3 DEF TypesInv, ControlInv, QuietInv
  <2>8. (GhostInv' <=> GhostInv) /\ (DeliveredInv' <=> DeliveredInv)
    BY <2>1, <2>3, <2>4, <2>6 DEF GhostInv, DeliveredInv, Undisturbed
  <2>9. CalledInv' <=> CalledInv
    BY <2>1 DEF CalledInv
  <2> QED BY <2>1, <2>7, <2>8, <2>9 DEF Inv
<1>2. CASE Next
  <2>1. TypesInv /\ TypesInv'
    BY TypesStep DEF Inv
  <2>2. ASSUME ~raced' PROVE ControlInv' /\ QuietInv' /\ GhostInv' /\ DeliveredInv'
    <3>1. ~raced
      BY <1>2, <2>2 DEF Next, T5Handler, T5Loops, Call, DMADisable, Test, ReadSample, Load,
                        Store, Wrap, SetStatus, StartFrame, Edge, Exchanged
    <3>2. ControlInv /\ QuietInv /\ GhostInv /\ DeliveredInv
      BY <3>1 DEF Inv
    <3>3. ControlInv'
      BY <1>2, <2>1, <2>2, <3>2, ControlStep
    <3> QED BY <1>2, <2>1, <2>2, <3>2, <3>3, QuietStep, GhostStep, DeliveredStep
  <2>3. CalledInv'
    BY <1>2, CalledStep DEF Inv
  <2> QED BY <2>1, <2>2, <2>3 DEF Inv
<1> QED BY <1>1, <1>2

(* The invariant holds throughout, whatever is turned, missed or called. *)
THEOREM InvHolds == Spec => []Inv
<1>1. Init => Inv
  BY InvInit
<1>2. Inv /\ [Next]_vars => Inv'
  BY InvStep
<1> QED BY <1>1, <1>2, PTL DEF Spec

(* Types: the count of ps2receive() stays in 0 .. 10, receivedata is eight  *)
(* bits, ps2receivetime never passes its limit, both pointers of the ring   *)
(* stay in it, dma_readpt but for the one step where it is wrapped, also    *)
(* when T5Handler breaks into ps2init()'s drain.                            *)
THEOREM TypeHolds == Spec => []TypeOK
<1>1. Inv => TypeOK
  BY DEF Inv, TypesInv, TypeOK, Receivers, Byte, Bits, Slots
<1> QED BY <1>1, InvHolds, PTL

(* After a pause longer than the timeout the driver waits for a start bit:  *)
(* T5Handler's count of ps2receivetime ends every frame that has stopped,   *)
(* whatever was turned or missed in it.                                     *)
THEOREM RealignedHolds == Spec => []Realigned
<1>1. Inv => Realigned
  <2>1. SUFFICES ASSUME Inv, ~raced, kbd.quiet > PS2TIME_RECEIVETIMEOUT + 1
                 PROVE  rx.receivecount = 0
    BY DEF Realigned
  <2>2. TypesInv /\ ControlInv /\ QuietInv
    BY <2>1 DEF Inv
  <2>3. kbd.quiet \in Nat
    BY <2>2 DEF TypesInv
  <2>4. kbd.quiet > 0
    BY <2>1, <2>3, Timeout
  <2>5. View = rx
    BY <2>2, <2>4, QuietView DEF ControlInv
  <2>6. rx.receivecount \in 0 .. 10 /\ rx.receivetime \in 0 .. PS2TIME_RECEIVETIMEOUT
    BY <2>2, ViewType DEF Receivers
  <2> QED BY <2>1, <2>2, <2>3, <2>4, <2>5, <2>6, Timeout DEF QuietInv
<1> QED BY <1>1, InvHolds, PTL

(* What has been accepted begins what will be when the ring is drained. *)
LEMMA GotBegins ==
  ASSUME TypesInv
  PROVE  /\ rx.got \in Seq(Byte) /\ View.got \in Seq(Byte) /\ Len(rx.got) <= Len(View.got)
         /\ \A i \in 1 .. Len(rx.got) : View.got[i] = rx.got[i]
<1>1. ASSUME NEW g \in Receivers, NEW d \in Bits, NEW r, r = Receive(g, d)
      PROVE  /\ g.got \in Seq(Byte) /\ r.got \in Seq(Byte)
             /\ Len(g.got) \in Nat /\ Len(r.got) \in Nat /\ Len(g.got) <= Len(r.got)
             /\ \A i \in 1 .. Len(g.got) : r.got[i] = g.got[i]
  <2>1. g.got \in Seq(Byte) /\ g.receivedata \in Byte
    BY DEF Receivers
  <2>2. r.got = g.got \/ r.got = Append(g.got, g.receivedata)
    BY <1>1, ReceiveGrows
  <2>3. Len(g.got) \in Nat
    BY <2>1, LenProperties
  <2>4. CASE r.got = g.got
    BY <2>1, <2>3, <2>4
  <2>5. CASE r.got = Append(g.got, g.receivedata)
    <3>1. /\ r.got \in Seq(Byte) /\ Len(r.got) = Len(g.got) + 1
          /\ \A i \in 1 .. Len(g.got) : r.got[i] = g.got[i]
      BY <2>1, <2>5, Appended
    <3> QED BY <2>1, <2>3, <3>1
  <2> QED BY <2>2, <2>4, <2>5
<1>2. rx \in Receivers /\ View \in Receivers
  BY ViewType
<1>3. rx.got \in Seq(Byte) /\ View.got \in Seq(Byte) /\ Len(rx.got) \in Nat
  <2>1. rx.got \in Seq(Byte) /\ View.got \in Seq(Byte)
    BY <1>2 DEF Receivers
  <2> QED BY <2>1, LenProperties
<1>4. /\ dma.data[First] \in Bits /\ dma.data[Succ(First)] \in Bits /\ Waiting \in Slots
  BY FirstSlot
<1>5. CASE Waiting = 0
  BY <1>3, <1>5 DEF View
<1>6. CASE Waiting = 1
  <2>1. View = Receive(rx, dma.data[First])
    BY <1>6 DEF View
  <2> QED BY <1>1, <1>2, <1>4, <2>1
<1>7. CASE Waiting \notin {0, 1}
  <2> DEFINE h == Receive(rx, dma.data[First])
  <2>1. h \in Receivers
    BY <1>2, <1>4, ReceiveType
  <2>2. View = Receive(h, dma.data[Succ(First)])
    BY <1>7 DEF View
  <2>3. /\ Len(rx.got) <= Len(h.got) /\ Len(h.got) \in Nat
        /\ \A i \in 1 .. Len(rx.got) : h.got[i] = rx.got[i]
    BY <1>1, <1>2, <1>4
  <2> HIDE DEF h
  <2>4. /\ Len(h.got) <= Len(View.got) /\ Len(View.got) \in Nat
        /\ \A i \in 1 .. Len(h.got) : View.got[i] = h.got[i]
    BY <1>1, <1>4, <2>1, <2>2
  <2> QED BY <1>3, <2>3, <2>4
<1> QED BY <1>5, <1>6, <1>7

(* No ghost: with at most one edge missed in all, or any number of turned   *)
(* bits, at most one of a frame, every byte that ps2receive() accepts was   *)
(* sent, in its order and once, however often it is asked for again.        *)
THEOREM NoGhostHolds ==
  ASSUME MaxLost <= 1
  PROVE  Spec => []NoGhost
<1>1. ASSUME Inv PROVE NoGhost
  <2>1. SUFFICES ASSUME ~raced PROVE IsSubsequence(rx.got, kbd.sent)
    BY DEF NoGhost
  <2>2. TypesInv /\ Embeds(View.got, kbd.sent, Len(kbd.sent))
    BY <1>1, <2>1 DEF Inv, GhostInv
  <2> DEFINE s == rx.got
             v == View.got
             t == kbd.sent
             n == Len(kbd.sent)
  <2>3. /\ DOMAIN s = 1 .. Len(s) /\ DOMAIN v = 1 .. Len(v) /\ DOMAIN t = 1 .. n
        /\ Len(s) \in Nat /\ Len(v) \in Nat /\ Len(s) <= Len(v)
        /\ \A i \in 1 .. Len(s) : v[i] = s[i]
    <3>1. /\ s \in Seq(Byte) /\ v \in Seq(Byte) /\ t \in Seq(Byte) /\ Len(s) <= Len(v)
          /\ \A i \in 1 .. Len(s) : v[i] = s[i]
      BY <2>2, GotBegins, SentType
    <3> HIDE DEF s, v
    <3> QED BY <3>1, LenProperties
  <2>4. Embeds(v, t, n)
    BY <2>2
  <2> HIDE DEF s, v, t, n
  <2>5. PICK at \in [DOMAIN v -> 1 .. n] :
          /\ \A i, j \in DOMAIN v : i < j => at[i] < at[j]
          /\ \A i \in DOMAIN v : v[i] = t[at[i]]
    BY <2>4 DEF Embeds
  <2> DEFINE to == [i \in DOMAIN s |-> at[i]]
  <2>6. DOMAIN s \subseteq DOMAIN v
    BY <2>3
  <2>7. to \in [DOMAIN s -> DOMAIN t]
    BY <2>3, <2>5, <2>6
  <2>8. /\ \A i, j \in DOMAIN s : i < j => to[i] < to[j]
        /\ \A i \in DOMAIN s : s[i] = t[to[i]]
    BY <2>3, <2>5, <2>6
  <2>9. IsSubsequence(s, t)
    <3> HIDE DEF to
    <3> QED BY <2>7, <2>8 DEF IsSubsequence
  <2> QED BY <2>9 DEF s, t
<1>2. Inv => NoGhost
  BY <1>1
<1> QED BY <1>2, InvHolds, PTL

(* Delivery: with no edge missed, no command from ps2init(), and pauses     *)
(* between frames longer than PS2TIME_PRESEND, all that the keyboard sent   *)
(* has been accepted whenever the line is quiet and no command is under     *)
(* way: what came with a wrong bit or was broken off has come again.        *)
THEOREM DeliveredHolds ==
  ASSUME LongGaps
  PROVE  Spec => []Delivered
<1>1. ASSUME Inv PROVE Delivered
  <2>1. SUFFICES ASSUME LineQuiet, budget.lost = MaxLost, budget.calls = MaxCalls
                 PROVE  rx.got = kbd.sent
    BY DEF Delivered
  <2>2. ~raced
    <3>1. MaxCalls \in Nat
      BY LineAssumption
    <3> QED BY <1>1, <2>1, <3>1 DEF Inv, CalledInv
  <2>3. TypesInv /\ ControlInv /\ DeliveredInv
    BY <1>1, <2>2 DEF Inv
  <2>4. kbd.quiet > 0 /\ kbd.pos = NotSending /\ ~kbd.again /\ cmd.phase = "none"
    BY <2>1 DEF LineQuiet
  <2>5. View = rx /\ ~rx.receiveError
    BY <2>1, <2>3, <2>4, QuietView DEF ControlInv
  <2>6. ~Outstanding
    BY <2>4, <2>5 DEF Outstanding, Resending
  <2> QED BY <2>1, <2>3, <2>5, <2>6 DEF DeliveredInv, Undisturbed
<1>2. Inv => Delivered
  BY <1>1
<1> QED BY <1>2, InvHolds, PTL

=============================================================================
