------------------------------ MODULE NicProofs ------------------------------
(***************************************************************************)
(* Proofs about Nic, for every size of the ring, every number of           *)
(* descriptors and every bound on frames.                                  *)
(***************************************************************************)
EXTENDS Nic, SequenceTheorems, TLAPS

\* The descriptors between the card's and the driver's hold, in order, the frames
\* that were taken and not sent yet; the card owns no other one.
TxOK ==
  LET a == Len(accepted)
      b == Len(wire)
  IN /\ accepted \in Seq(Nat) /\ wire \in Seq(Nat)
     /\ \A k \in 1 .. a : accepted[k] = k
     /\ \A k \in 1 .. b : wire[k] = k
     /\ b <= a /\ a <= b + TxCount
     /\ txIndex = a % TxCount /\ txCard = b % TxCount
     /\ tsd \in [Slots -> BOOLEAN] /\ txBuffers \in [Slots -> Nat]
     /\ \A k \in b .. a - 1 : ~tsd[k % TxCount] /\ txBuffers[k % TxCount] = k + 1
     /\ \A d \in Slots : ~tsd[d] => \E k \in b .. a - 1 : d = k % TxCount

\* Frames the driver has given back to the card: all that were handed to the
\* callback, but not the one whose handler is running.
Released == IF At("handler") THEN taken - 1 ELSE taken

\* start[f] is the word, counted from the first ever written, at which frame f
\* begins.  Those that were not given back lie in the ring as they were written.
Layout(start) ==
  /\ \A f, g \in 1 .. Len(size) + 1 : f < g => start[f] + Length(size[f]) <= start[g]
  /\ \A f \in 1 .. Len(size) : start[f + 1] = start[f] + Length(size[f])
  /\ start[Len(size) + 1] - start[Released + 1] < Words
  /\ cbr = start[Len(size) + 1] % Words
  /\ capr = start[Released + 1] % Words
  /\ \A f \in Released + 1 .. Len(size) : \A k \in 0 .. Length(size[f]) - 1 :
       ring[(start[f] + k) % Words] = <<f, k>>

PollRecord == [at : {"clear", "loop", "handler"}, seen : SUBSET {"rx", "tx"}, size : Nat]

\* One poll at most runs, all it has handed out was right, and the ring holds what
\* it has not handed out yet.
RxOK ==
  /\ ~garbled
  /\ isr \subseteq {"rx", "tx"}
  /\ polls \in Seq(PollRecord) /\ Len(polls) <= 1
  /\ size \in Seq(Sizes)
  /\ taken \in 0 .. Len(size)
  /\ At("handler") => taken # 0 /\ Last(polls).size = size[taken]
  /\ rxOffset = capr
  /\ \E start \in [1 .. Len(size) + 1 -> Nat] : Layout(start)

NicInv == TxOK /\ (reentered \/ RxOK)

-----------------------------------------------------------------------------
(* Arithmetic of ring positions.                                           *)

\* A remainder is determined by its division.
LEMMA ModUnique ==
  ASSUME NEW d \in Nat \ {0}, NEW n \in Int, NEW q \in Int, NEW r \in 0 .. d - 1, n = d * q + r
  PROVE  n % d = r
<1> DEFINE p == n \div d
           s == n % d
           e == p - q
<1>1. n = d * p + s /\ s \in 0 .. d - 1 /\ p \in Int
  OBVIOUS
<1> HIDE DEF p, s
<1>2. d * e = r - s /\ e \in Int
  BY <1>1
<1>3. e >= 1 => d * e >= d
  BY <1>2
<1>4. e <= -1 => d * e <= -d
  BY <1>2
<1> HIDE DEF e
<1>5. e = 0
  BY <1>1, <1>2, <1>3, <1>4
<1>6. d * e = 0
  BY <1>5
<1> QED
  BY <1>1, <1>2, <1>6 DEF s

LEMMA DivMod ==
  ASSUME NEW d \in Nat \ {0}, NEW n \in Nat
  PROVE  n = d * (n \div d) + (n % d) /\ n % d \in 0 .. d - 1 /\ n \div d \in Nat
  OBVIOUS

\* The way from one position to another that is not a whole turn ahead.
LEMMA CircDist ==
  ASSUME NEW d \in Nat \ {0}, NEW x \in Nat, NEW y \in Nat, y <= x, x - y < d
  PROVE  ((x % d) - (y % d) + d) % d = x - y
<1> DEFINE p == x \div d
           q == y \div d
           r == x % d
           s == y % d
<1>1. x = d * p + r /\ y = d * q + s /\ {p, q} \subseteq Nat /\ {r, s} \subseteq 0 .. d - 1
  BY DivMod
<1> HIDE DEF p, q, r, s
<1>2. d * (1 - p + q) = d - d * p + d * q /\ 1 - p + q \in Int
  BY <1>1
<1>3. r - s + d = d * (1 - p + q) + (x - y)
  BY <1>1, <1>2
<1>4. r - s + d \in Int /\ x - y \in 0 .. d - 1
  BY <1>1
<1>5. (r - s + d) % d = x - y
  BY <1>2, <1>3, <1>4, ModUnique
<1> QED
  BY <1>5 DEF r, s

LEMMA ModAdd ==
  ASSUME NEW d \in Nat \ {0}, NEW x \in Nat, NEW i \in Nat
  PROVE  ((x % d) + i) % d = (x + i) % d
<1> DEFINE p == x \div d
           r == x % d
           u == (x + i) \div d
           v == (x + i) % d
<1>1. x = d * p + r /\ p \in Nat /\ r \in 0 .. d - 1
  BY DivMod
<1>2. x + i = d * u + v /\ u \in Nat /\ v \in 0 .. d - 1
  <2>1. x + i \in Nat
    OBVIOUS
  <2> QED
    BY <2>1, DivMod
<1> HIDE DEF p, r, u, v
<1>3. d * (u - p) = d * u - d * p /\ u - p \in Int
  BY <1>1, <1>2
<1>4. r + i = d * (u - p) + v /\ r + i \in Int
  BY <1>1, <1>2, <1>3
<1>5. (r + i) % d = v
  BY <1>2, <1>3, <1>4, ModUnique
<1> QED
  BY <1>5 DEF r, v

LEMMA ModTurn ==
  ASSUME NEW d \in Nat \ {0}, NEW x \in Nat
  PROVE  (x + d) % d = x % d
<1> DEFINE p == x \div d
           r == x % d
<1>1. x = d * p + r /\ p \in Nat /\ r \in 0 .. d - 1
  BY DivMod
<1> HIDE DEF p, r
<1>2. d * (p + 1) = d * p + d /\ p + 1 \in Int /\ x + d \in Int
  BY <1>1
<1>3. (x + d) % d = r
  BY <1>1, <1>2, ModUnique
<1> QED
  BY <1>3 DEF r

LEMMA ModInjective ==
  ASSUME NEW d \in Nat \ {0}, NEW x \in Nat, NEW y \in Nat, y <= x, x - y < d, x % d = y % d
  PROVE  x = y
<1>1. ((x % d) - (y % d) + d) % d = x - y
  BY CircDist
<1>2. (x % d) - (y % d) + d = d
  BY DivMod
<1>3. d % d = 0
  <2>1. d = d * 1 + 0 /\ 0 \in 0 .. d - 1
    OBVIOUS
  <2> QED
    BY <2>1, ModUnique
<1> QED
  BY <1>1, <1>2, <1>3

LEMMA Numbers ==
  /\ Words \in Nat \ {0} /\ TxCount \in Nat \ {0} /\ Slots = 0 .. TxCount - 1
  /\ Positions = 0 .. Words - 1
  /\ \A n \in Nat : n % Words \in Positions /\ n % TxCount \in Slots
  BY NicAssumption, DivMod DEF Slots, Positions

\* (txIndex + 1) % TxCount is where the next frame goes.
LEMMA NextSlot ==
  ASSUME NEW n \in Nat
  PROVE  ((n % TxCount) + 1) % TxCount = (n + 1) % TxCount
  BY Numbers, ModAdd

-----------------------------------------------------------------------------
(* Transmission.                                                           *)

\* Two frames that are on their way at the same time are in different descriptors.
LEMMA SlotsDiffer ==
  ASSUME TxOK, NEW j \in Len(wire) .. Len(accepted) - 1, NEW k \in Len(wire) .. Len(accepted) - 1,
         j % TxCount = k % TxCount
  PROVE  j = k
<1>1. Len(wire) \in Nat /\ Len(accepted) \in Nat /\ Len(accepted) <= Len(wire) + TxCount
  BY DEF TxOK
<1>2. j \in Nat /\ k \in Nat /\ TxCount \in Nat \ {0}
  BY <1>1, Numbers
<1>3. CASE j <= k
  <2>1. k - j < TxCount
    BY <1>1, <1>2
  <2> QED
    BY <1>2, <1>3, <2>1, ModInjective
<1>4. CASE k <= j
  <2>1. j - k < TxCount
    BY <1>1, <1>2
  <2> QED
    BY <1>2, <1>4, <2>1, ModInjective
<1> QED
  BY <1>2, <1>3, <1>4

\* The card sends the oldest frame it was given.
LEMMA TransmitKeeps == ASSUME TxOK, Transmit PROVE TxOK'
<1> DEFINE a == Len(accepted)
           b == Len(wire)
<1>1. /\ a \in Nat /\ b \in Nat /\ b <= a /\ a <= b + TxCount /\ txCard = b % TxCount
      /\ TxCount \in Nat \ {0} /\ txCard \in Slots
      /\ accepted' = accepted /\ txIndex' = txIndex /\ txBuffers' = txBuffers
      /\ wire' = Append(wire, txBuffers[txCard]) /\ tsd' = [tsd EXCEPT ![txCard] = TRUE]
      /\ txCard' = (txCard + 1) % TxCount /\ ~tsd[txCard]
  <2>1. a \in Nat /\ b \in Nat /\ b <= a /\ a <= b + TxCount /\ txCard = b % TxCount
    BY DEF TxOK
  <2>2. TxCount \in Nat \ {0} /\ txCard \in Slots
    BY <2>1, Numbers
  <2> QED
    BY <2>1, <2>2 DEF Transmit
<1>2. PICK k \in b .. a - 1 : txCard = k % TxCount
  BY <1>1 DEF TxOK
<1>3. b \in b .. a - 1
  BY <1>1, <1>2
<1>4. txBuffers[txCard] = b + 1
  BY <1>1, <1>3 DEF TxOK
<1>5. /\ wire' \in Seq(Nat) /\ Len(wire') = b + 1
      /\ \A m \in 1 .. b + 1 : wire'[m] = m
  <2>1. wire \in Seq(Nat) /\ wire' = Append(wire, b + 1) /\ \A m \in 1 .. b : wire[m] = m
    BY <1>1, <1>4 DEF TxOK
  <2>2. wire' \in Seq(Nat) /\ Len(wire') = b + 1 /\ wire'[b + 1] = b + 1
    BY <1>1, <2>1
  <2>3. \A m \in 1 .. b : wire'[m] = wire[m]
    BY <2>1
  <2>4. \A m \in 1 .. b + 1 : m \in 1 .. b \/ m = b + 1
    BY <1>1
  <2> QED
    BY <2>1, <2>2, <2>3, <2>4
<1>6. txCard' = (b + 1) % TxCount
  BY <1>1, NextSlot
<1>7. \A m \in b + 1 .. a - 1 : m % TxCount # txCard /\ m % TxCount \in Slots
  <2>1. SUFFICES ASSUME NEW m \in b + 1 .. a - 1
                 PROVE  m % TxCount # txCard /\ m % TxCount \in Slots
    OBVIOUS
  <2>2. m \in b .. a - 1 /\ m # b /\ m \in Nat
    BY <1>1
  <2> QED
    BY <1>1, <1>3, <2>2, SlotsDiffer, Numbers
<1>8. \A m \in b + 1 .. a - 1 : ~tsd'[m % TxCount] /\ txBuffers'[m % TxCount] = m + 1
  <2>1. \A m \in b + 1 .. a - 1 : m \in b .. a - 1
    BY <1>1
  <2> QED
    BY <1>1, <1>7, <2>1 DEF TxOK
<1>9. ASSUME NEW d \in Slots, ~tsd'[d] PROVE \E m \in b + 1 .. a - 1 : d = m % TxCount
  <2>1. d # txCard /\ ~tsd[d]
    BY <1>1, <1>9 DEF TxOK
  <2>2. PICK m \in b .. a - 1 : d = m % TxCount
    BY <2>1 DEF TxOK
  <2>3. m # b
    BY <1>1, <2>1, <2>2
  <2> QED
    BY <1>1, <2>2, <2>3
<1>10. tsd' \in [Slots -> BOOLEAN]
  BY <1>1 DEF TxOK
<1>11. b + 1 <= a /\ a <= (b + 1) + TxCount
  BY <1>1, <1>3
<1> HIDE DEF b
<1> QED
  BY <1>1, <1>5, <1>6, <1>8, <1>9, <1>10, <1>11 DEF TxOK

\* rtl8139_send takes a frame only when its descriptor was sent.
LEMMA SendKeeps == ASSUME TxOK, Send PROVE TxOK'
<1> DEFINE a == Len(accepted)
           b == Len(wire)
<1>1. /\ a \in Nat /\ b \in Nat /\ b <= a /\ a <= b + TxCount /\ txIndex = a % TxCount
      /\ TxCount \in Nat \ {0} /\ txIndex \in Slots
      /\ wire' = wire /\ txCard' = txCard /\ txBuffers' = [txBuffers EXCEPT ![txIndex] = a + 1]
      /\ accepted' = Append(accepted, a + 1) /\ tsd' = [tsd EXCEPT ![txIndex] = FALSE]
      /\ txIndex' = (txIndex + 1) % TxCount /\ tsd[txIndex]
  <2>1. a \in Nat /\ b \in Nat /\ b <= a /\ a <= b + TxCount /\ txIndex = a % TxCount
    BY DEF TxOK
  <2>2. TxCount \in Nat \ {0} /\ txIndex \in Slots
    BY <2>1, Numbers
  <2> QED
    BY <2>1, <2>2 DEF Send
<1>2. a # b + TxCount
  <2>1. SUFFICES ASSUME a = b + TxCount PROVE FALSE
    OBVIOUS
  <2>2. txIndex = b % TxCount
    BY <1>1, <2>1, ModTurn, Numbers
  <2>3. b \in b .. a - 1
    BY <1>1, <2>1, Numbers
  <2> QED
    BY <1>1, <2>2, <2>3 DEF TxOK
<1> HIDE DEF a, b
<1>3. a + 1 <= b + TxCount
  BY <1>1, <1>2
<1>4. /\ accepted' \in Seq(Nat) /\ Len(accepted') = a + 1
      /\ \A m \in 1 .. a + 1 : accepted'[m] = m
  BY <1>1 DEF TxOK, a
<1>5. txIndex' = (a + 1) % TxCount
  BY <1>1, NextSlot
<1>6. ASSUME NEW m \in b .. a - 1 PROVE m % TxCount # txIndex /\ m % TxCount \in Slots
  <2>1. m \in Nat /\ m <= a /\ a - m < TxCount /\ m # a
    BY <1>1, <1>3
  <2> QED
    BY <1>1, <2>1, ModInjective, Numbers
<1>7. ASSUME NEW m \in b .. a PROVE ~tsd'[m % TxCount] /\ txBuffers'[m % TxCount] = m + 1
  <2>1. CASE m = a
    BY <1>1, <2>1 DEF TxOK
  <2>2. CASE m # a
    <3>1. m \in b .. a - 1
      BY <1>1, <2>2
    <3> QED
      BY <1>1, <1>6, <3>1 DEF TxOK, a, b
  <2> QED
    BY <2>1, <2>2
<1>8. ASSUME NEW d \in Slots, ~tsd'[d] PROVE \E m \in b .. a : d = m % TxCount
  <2>1. CASE d = txIndex
    BY <1>1, <2>1
  <2>2. CASE d # txIndex
    <3>1. PICK m \in b .. a - 1 : d = m % TxCount
      BY <1>1, <1>8, <2>2 DEF TxOK, a, b
    <3>2. m \in b .. a
      BY <1>1, <3>1
    <3> QED
      BY <3>1, <3>2
  <2> QED
    BY <2>1, <2>2
<1>9. tsd' \in [Slots -> BOOLEAN] /\ txBuffers' \in [Slots -> Nat]
  BY <1>1 DEF TxOK
<1>10. (a + 1) - 1 = a /\ b <= a + 1
  BY <1>1
<1>11. /\ wire' \in Seq(Nat) /\ Len(wire') = b /\ txCard' = b % TxCount
       /\ \A k \in 1 .. b : wire'[k] = k
  BY <1>1 DEF TxOK, b
<1> QED
  BY <1>3, <1>4, <1>5, <1>7, <1>8, <1>9, <1>10, <1>11 DEF TxOK

-----------------------------------------------------------------------------
(* Reception.                                                              *)

\* The contents of a frame fit between its header and its checksum.
LEMMA Lengths ==
  ASSUME NEW s \in Sizes
  PROVE  /\ s \in Nat /\ s # 0
         /\ Length(s) \in Nat /\ Length(s) > 0
         /\ Content(s) \in Nat /\ Content(s) < Length(s)
  BY NicAssumption DEF Length, Content

\* Without a poll inside a poll the stack is the poll itself.
LEMMA OnePoll ==
  ASSUME RxOK, polls # <<>>
  PROVE  Last(polls) \in PollRecord /\ polls = <<Last(polls)>> /\ Front(polls) = <<>>
<1>1. polls \in Seq(PollRecord)
  BY DEF RxOK
<1> DEFINE n == Len(polls)
<1>2. n \in Nat \ {0} /\ n <= 1
  BY <1>1, EmptySeq DEF RxOK
<1> HIDE DEF n
<1>3. n = 1
  BY <1>2
<1> QED
  BY <1>1, <1>3 DEF Last, Front, n

LEMMA PollGoesOn ==
  ASSUME RxOK, polls # <<>>, NEW p \in PollRecord, GoOn(p)
  PROVE  /\ polls' \in Seq(PollRecord) /\ Len(polls') = 1 /\ Last(polls') = p
         /\ At("handler")' = (p.at = "handler")
<1>1. polls' = <<p>>
  BY OnePoll DEF GoOn
<1> QED
  BY <1>1 DEF Last, At

\* Steps that leave the ring alone and give nothing back.
LEMMA RingKept ==
  ASSUME RxOK, UNCHANGED <<ring, cbr, capr, rxOffset, size, garbled>>, isr' \subseteq {"rx", "tx"},
         polls' \in Seq(PollRecord), Len(polls') <= 1, taken' \in 0 .. Len(size),
         At("handler")' => taken' # 0 /\ Last(polls').size = size[taken'],
         Released' = Released
  PROVE  RxOK'
<1>1. PICK start \in [1 .. Len(size) + 1 -> Nat] : Layout(start)
  BY DEF RxOK
<1>2. Layout(start)'
  BY <1>1 DEF Layout
<1>3. \E st \in [1 .. Len(size') + 1 -> Nat] : Layout(st)'
  BY <1>1, <1>2
<1> QED
  BY <1>3 DEF RxOK

\* What the ring holds, with the start of each frame at hand.
LEMMA RxFacts ==
  ASSUME RxOK
  PROVE  /\ Len(size) \in Nat /\ taken \in 0 .. Len(size) /\ Released \in 0 .. Len(size)
         /\ \A f \in 1 .. Len(size) : size[f] \in Sizes
<1>1. /\ size \in Seq(Sizes) /\ taken \in 0 .. Len(size) /\ (At("handler") => taken # 0)
      /\ Len(size) \in Nat
  BY DEF RxOK
<1> QED
  BY <1>1 DEF Released

\* The card's count of unread words is the way from the first frame that was not
\* given back to the end of the last one.
LEMMA UnreadIs ==
  ASSUME RxOK, NEW start \in [1 .. Len(size) + 1 -> Nat], Layout(start)
  PROVE  /\ start[Released + 1] \in Nat /\ start[Len(size) + 1] \in Nat
         /\ start[Released + 1] <= start[Len(size) + 1]
         /\ Released < Len(size) => start[Released + 1] < start[Len(size) + 1]
         /\ Unread = start[Len(size) + 1] - start[Released + 1]
<1> DEFINE A == start[Released + 1]
           B == start[Len(size) + 1]
<1>1. A \in Nat /\ B \in Nat /\ Released + 1 \in 1 .. Len(size) + 1 /\ Len(size) + 1 \in 1 .. Len(size) + 1
  BY RxFacts
<1>2. Released < Len(size) => A < B
  <2>1. SUFFICES ASSUME Released < Len(size) PROVE A < B
    OBVIOUS
  <2>2. Released + 1 \in 1 .. Len(size) /\ Released + 1 < Len(size) + 1
    BY <2>1, RxFacts
  <2>3. size[Released + 1] \in Sizes
    BY <2>2, RxFacts
  <2>4. A + Length(size[Released + 1]) <= B
    BY <1>1, <2>2 DEF Layout
  <2> QED
    BY <1>1, <2>3, <2>4, Lengths
<1>3. A <= B
  BY <1>1, <1>2, RxFacts
<1>4. B - A < Words /\ cbr = B % Words /\ capr = A % Words
  BY DEF Layout
<1> HIDE DEF A, B
<1>5. ((B % Words) - (A % Words) + Words) % Words = B - A
  BY <1>1, <1>3, <1>4, Numbers, CircDist
<1>6. Unread = B - A
  BY <1>4, <1>5 DEF Unread
<1> QED
  BY <1>1, <1>2, <1>3, <1>6 DEF A, B

\* The frame at the read offset is the next one, whole.
LEMMA HeaderIsNext ==
  ASSUME RxOK, At("loop"), Unread # 0
  PROVE  /\ taken < Len(size) /\ taken + 1 \in 1 .. Len(size)
         /\ HeaderSizes = {size[taken + 1]}
         /\ Copied(size[taken + 1]) =
              [i \in 1 .. Content(size[taken + 1]) |-> <<taken + 1, i>>]
<1>1. PICK start \in [1 .. Len(size) + 1 -> Nat] : Layout(start)
  BY DEF RxOK
<1>2. Released = taken
  BY DEF Released, At
<1>3. taken < Len(size)
  <2>1. taken # Len(size)
    <3>1. ASSUME taken = Len(size) PROVE Unread = 0
      BY <1>1, <1>2, <3>1, UnreadIs
    <3> QED
      BY <3>1
  <2> QED
    BY <2>1, RxFacts
<1> DEFINE n == taken + 1
           A == start[n]
<1>4. n \in 1 .. Len(size) /\ n # 0 /\ size[n] \in Sizes
  BY <1>3, RxFacts
<1>5. A \in Nat /\ rxOffset = A % Words
  BY <1>1, <1>2, UnreadIs DEF Layout, RxOK
<1>6. \A k \in 0 .. Length(size[n]) - 1 : ring[(A + k) % Words] = <<n, k>>
  <2>1. n \in Released + 1 .. Len(size)
    BY <1>2, <1>4, RxFacts
  <2> QED
    BY <1>1, <2>1 DEF Layout
<1> HIDE DEF n, A
<1>7. HeaderSizes = {size[n]}
  <2>1. 0 \in 0 .. Length(size[n]) - 1 /\ A + 0 = A
    BY <1>4, <1>5, Lengths
  <2>2. ring[rxOffset] = <<n, 0>>
    BY <1>5, <1>6, <2>1
  <2> QED
    BY <1>4, <2>2 DEF HeaderSizes
<1>8. Copied(size[n]) = [i \in 1 .. Content(size[n]) |-> <<n, i>>]
  <2>1. ASSUME NEW i \in 1 .. Content(size[n]) PROVE ring[(rxOffset + i) % Words] = <<n, i>>
    <3>1. i \in Nat /\ i \in 0 .. Length(size[n]) - 1
      BY <1>4, Lengths
    <3>2. (rxOffset + i) % Words = (A + i) % Words
      BY <1>5, <3>1, ModAdd, Numbers
    <3> QED
      BY <1>6, <3>1, <3>2
  <2> QED
    BY <2>1 DEF Copied
<1> QED
  BY <1>3, <1>4, <1>7, <1>8 DEF n

LEMMA DeliverKeeps == ASSUME RxOK, NEW s \in Sizes, Deliver(s) PROVE RxOK'
<1>1. /\ At("loop") /\ Unread # 0 /\ s \in HeaderSizes /\ polls # <<>>
      /\ UNCHANGED <<ring, cbr, capr, rxOffset, size, isr>>
  BY DEF Deliver, At
<1>2. taken < Len(size) /\ taken + 1 \in 1 .. Len(size) /\ s = size[taken + 1]
  BY <1>1, HeaderIsNext
<1>3. Copied(s) = [i \in 1 .. Content(s) |-> <<taken + 1, i>>]
  BY <1>1, <1>2, HeaderIsNext
<1>4. taken' = taken + 1 /\ garbled' = garbled
  BY <1>2, <1>3 DEF Deliver
<1> DEFINE p == [Last(polls) EXCEPT !.at = "handler", !.size = s]
<1>5. p \in PollRecord /\ p.at = "handler" /\ p.size = s /\ GoOn(p)
  <2>1. Last(polls) \in PollRecord /\ s \in Nat
    BY <1>1, OnePoll, Lengths
  <2> QED
    BY <2>1 DEF PollRecord, Deliver
<1> HIDE DEF p
<1>6. polls' \in Seq(PollRecord) /\ Len(polls') = 1 /\ Last(polls') = p /\ At("handler")'
  BY <1>1, <1>5, PollGoesOn
<1>7. taken' # 0 /\ taken' \in 0 .. Len(size) /\ taken' - 1 = taken
  BY <1>2, <1>4, RxFacts
<1>8. Released' = Released
  BY <1>1, <1>6, <1>7 DEF Released, At
<1>9. isr' \subseteq {"rx", "tx"} /\ Last(polls').size = size[taken']
  BY <1>1, <1>2, <1>4, <1>5, <1>6 DEF RxOK
<1> QED
  BY <1>1, <1>4, <1>6, <1>7, <1>8, <1>9, RingKept

\* The offset moves on to the frame that follows in the ring.
LEMMA AdvanceKeeps == ASSUME RxOK, Advance PROVE RxOK'
<1>1. /\ At("handler") /\ polls # <<>> /\ rxOffset' = NextOffset(Last(polls).size)
      /\ capr' = rxOffset' /\ UNCHANGED <<ring, cbr, size, taken, garbled, isr>>
      /\ GoOn([Last(polls) EXCEPT !.at = "loop"])
  BY DEF Advance, At
<1>2. PICK start \in [1 .. Len(size) + 1 -> Nat] : Layout(start)
  BY DEF RxOK
<1>3. /\ taken \in 1 .. Len(size) /\ Last(polls).size = size[taken] /\ size[taken] \in Sizes
      /\ Released = taken - 1
  <2>1. taken # 0 /\ Last(polls).size = size[taken] /\ Released = taken - 1
    BY <1>1 DEF RxOK, Released
  <2>2. taken \in 1 .. Len(size)
    BY <2>1, RxFacts
  <2> QED
    BY <2>1, <2>2, RxFacts
<1>4. (taken - 1) + 1 = taken /\ taken + 1 \in 1 .. Len(size) + 1 /\ taken \in Nat
  BY <1>3, RxFacts
<1> DEFINE A == start[taken]
           L == Length(size[taken])
<1>5. A \in Nat /\ L \in Nat /\ L > 0 /\ rxOffset = A % Words /\ start[taken + 1] = A + L
  <2>1. A \in Nat /\ rxOffset = A % Words
    BY <1>2, <1>3, <1>4, UnreadIs DEF Layout, RxOK
  <2>2. start[taken + 1] = A + L
    BY <1>2, <1>3 DEF Layout
  <2> QED
    BY <1>3, <2>1, <2>2, Lengths
<1>6. rxOffset' = start[taken + 1] % Words
  <2>1. rxOffset' = (rxOffset + L) % Words
    BY <1>1, <1>3 DEF NextOffset, Length
  <2> HIDE DEF A, L
  <2>2. ((A % Words) + L) % Words = (A + L) % Words
    BY <1>5, ModAdd, Numbers
  <2> QED
    BY <1>5, <2>1, <2>2
<1> DEFINE p == [Last(polls) EXCEPT !.at = "loop"]
<1>7. p \in PollRecord /\ p.at = "loop" /\ GoOn(p)
  <2>1. Last(polls) \in PollRecord
    BY <1>1, OnePoll
  <2> QED
    BY <1>1, <2>1 DEF PollRecord
<1> HIDE DEF p
<1>8. polls' \in Seq(PollRecord) /\ Len(polls') = 1 /\ ~At("handler")'
  BY <1>1, <1>7, PollGoesOn
<1>9. Released' = taken
  BY <1>1, <1>8 DEF Released
<1>10. Layout(start)'
  <2>1. start[Len(size) + 1] - start[taken + 1] < Words
    <3>1. start[Len(size) + 1] - A < Words
      BY <1>2, <1>3, <1>4 DEF Layout
    <3>2. start[Len(size) + 1] \in Nat
      BY <1>2, UnreadIs
    <3> DEFINE B == start[Len(size) + 1]
    <3>3. Words \in Nat
      BY Numbers
    <3> HIDE DEF A, B, L
    <3>4. B - A < Words /\ B \in Nat
      BY <3>1, <3>2 DEF B
    <3>5. B - (A + L) < Words
      BY <1>5, <3>3, <3>4
    <3> QED
      BY <1>5, <3>5 DEF B
  <2>2. \A f \in taken + 1 .. Len(size) : f \in Released + 1 .. Len(size)
    BY <1>3, <1>4, RxFacts
  <2> QED
    BY <1>1, <1>2, <1>6, <1>9, <2>1, <2>2 DEF Layout
<1>11. \E st \in [1 .. Len(size') + 1 -> Nat] : Layout(st)'
  BY <1>1, <1>2, <1>10
<1> QED
  BY <1>1, <1>8, <1>11 DEF RxOK

\* A frame goes where no frame lies that was not given back.
LEMMA WrittenApart ==
  ASSUME NEW A \in Nat, NEW B \in Nat, NEW n \in Nat, NEW q \in Nat, A <= q, q < B,
         B - A + n < Words
  PROVE  ~((((q % Words) - (B % Words) + Words) % Words) < n)
<1>1. Words \in Nat \ {0} /\ (q + Words) % Words = q % Words
  BY Numbers, ModTurn
<1>2. q + Words \in Nat /\ B <= q + Words /\ (q + Words) - B < Words
  BY <1>1
<1>3. (((q + Words) % Words) - (B % Words) + Words) % Words = (q + Words) - B
  BY <1>1, <1>2, CircDist
<1>4. ~((q + Words) - B < n)
  BY <1>1
<1> QED
  BY <1>1, <1>3, <1>4

\* The card appends a frame to the ring.
LEMMA TakenInKeeps ==
  ASSUME RxOK, NEW s \in Sizes, Arrive(s), Unread + Length(s) < Words
  PROVE  \E st \in [1 .. Len(size') + 1 -> Nat] : Layout(st)'
<1>1. PICK start \in [1 .. Len(size) + 1 -> Nat] : Layout(start)
  BY DEF RxOK
<1> DEFINE L == Len(size)
           n == Length(s)
           A == start[Released + 1]
           B == start[L + 1]
<1>2. L \in Nat /\ n \in Nat /\ n > 0 /\ Released \in 0 .. L /\ size \in Seq(Sizes)
  BY RxFacts, Lengths DEF RxOK
<1>3. A \in Nat /\ B \in Nat /\ A <= B /\ Unread = B - A /\ B - A + n < Words
  BY <1>1, UnreadIs
<1>4. /\ size' = Append(size, s) /\ cbr' = (cbr + n) % Words /\ capr' = capr
      /\ taken' = taken /\ polls' = polls
      /\ ring' = [w \in Positions |->
                    IF (w - cbr + Words) % Words < n
                    THEN <<L + 1, (w - cbr + Words) % Words>> ELSE ring[w]]
  BY DEF Arrive
<1>5. Len(size') = L + 1 /\ size'[L + 1] = s /\ \A f \in 1 .. L : size'[f] = size[f]
  BY <1>2, <1>4
<1>6. Released' = Released
  BY <1>4 DEF Released, At
<1>7. PICK st \in [1 .. L + 2 -> Nat] :
        /\ st[L + 2] = B + n
        /\ \A f \in 1 .. L + 1 : f \in 1 .. L + 2 /\ st[f] = start[f] /\ start[f] \in Nat
  <2> DEFINE new == [i \in 1 .. L + 2 |-> IF i <= L + 1 THEN start[i] ELSE B + n]
  <2>1. /\ L + 2 \in 1 .. L + 2 /\ ~(L + 2 <= L + 1)
        /\ \A f \in 1 .. L + 1 : f \in 1 .. L + 2 /\ f <= L + 1
        /\ \A f \in 1 .. L + 2 : f <= L + 1 => f \in 1 .. L + 1
    BY <1>2
  <2>2. new \in [1 .. L + 2 -> Nat]
    BY <1>2, <1>3, <2>1
  <2>3. new[L + 2] = B + n
    BY <2>1
  <2>4. \A f \in 1 .. L + 1 : f \in 1 .. L + 2 /\ new[f] = start[f] /\ start[f] \in Nat
    BY <2>1
  <2> HIDE DEF new
  <2> QED
    BY <2>2, <2>3, <2>4
<1>8. cbr = B % Words /\ capr = A % Words /\ Words \in Nat \ {0}
  BY <1>1, Numbers DEF Layout
<1>9. /\ \A f, g \in 1 .. L + 1 : f < g => start[f] + Length(size[f]) <= start[g]
      /\ \A f \in 1 .. L : start[f + 1] = start[f] + Length(size[f])
      /\ \A f \in Released + 1 .. L : \A k \in 0 .. Length(size[f]) - 1 :
           ring[(start[f] + k) % Words] = <<f, k>>
  BY <1>1 DEF Layout
<1>10. /\ \A f \in 1 .. L : size[f] \in Sizes /\ Length(size[f]) \in Nat
       /\ \A f \in 1 .. L : start[f] \in Nat /\ start[f] + Length(size[f]) <= B
  <2>1. \A f \in 1 .. L : size[f] \in Sizes
    BY RxFacts
  <2>2. \A f \in 1 .. L : f \in 1 .. L + 1 /\ L + 1 \in 1 .. L + 1 /\ f < L + 1
    BY <1>2
  <2> QED
    BY <1>7, <1>9, <2>1, <2>2, Lengths
<1> HIDE DEF L, n, A, B
<1>11. ASSUME NEW f \in 1 .. L + 2, NEW g \in 1 .. L + 2, f < g
       PROVE  st[f] + Length(size'[f]) <= st[g]
  <2>1. f \in 1 .. L + 1 /\ (f = L + 1 \/ f \in 1 .. L) /\ (g = L + 2 \/ g \in 1 .. L + 1)
    BY <1>2, <1>11
  <2>2. CASE f = L + 1
    <3>1. g = L + 2
      BY <1>2, <1>11, <2>2
    <3>2. st[f] = B /\ Length(size'[f]) = n
      BY <1>5, <1>7, <2>1, <2>2 DEF B, n
    <3> QED
      BY <1>2, <1>3, <1>7, <3>1, <3>2
  <2>3. CASE f \in 1 .. L /\ g \in 1 .. L + 1
    BY <1>5, <1>7, <1>9, <1>11, <2>3
  <2>4. CASE f \in 1 .. L /\ g = L + 2
    <3>1. st[f] = start[f] /\ Length(size'[f]) = Length(size[f]) /\ st[g] = B + n
      BY <1>5, <1>7, <2>1, <2>4
    <3>2. start[f] \in Nat /\ Length(size[f]) \in Nat /\ start[f] + Length(size[f]) <= B
      BY <1>10, <2>4
    <3> QED
      BY <1>2, <1>3, <3>1, <3>2
  <2> QED
    BY <2>1, <2>2, <2>3, <2>4
<1>12. ASSUME NEW f \in 1 .. L + 1 PROVE st[f + 1] = st[f] + Length(size'[f])
  <2>1. CASE f = L + 1
    <3>1. f + 1 = L + 2
      BY <1>2, <2>1
    <3>2. st[f] = B /\ Length(size'[f]) = n
      BY <1>5, <1>7, <2>1 DEF B, n
    <3> QED
      BY <1>7, <3>1, <3>2
  <2>2. CASE f # L + 1
    <3>1. f \in 1 .. L /\ f + 1 \in 1 .. L + 1
      BY <1>2, <2>2
    <3> QED
      BY <1>5, <1>7, <1>9, <3>1
  <2> QED
    BY <2>1, <2>2
<1>13. st[L + 2] - st[Released + 1] < Words /\ st[Released + 1] = A
  <2>1. Released + 1 \in 1 .. L + 1
    BY <1>2
  <2>2. st[Released + 1] = A
    BY <1>7, <2>1 DEF A
  <2> QED
    BY <1>2, <1>3, <1>7, <1>8, <2>2
<1>14. cbr' = st[L + 2] % Words
  <2>1. ((B % Words) + n) % Words = (B + n) % Words
    BY <1>2, <1>3, <1>8, ModAdd
  <2> QED
    BY <1>4, <1>7, <1>8, <2>1
<1>15. ASSUME NEW f \in Released + 1 .. L + 1, NEW k \in 0 .. Length(size'[f]) - 1
       PROVE  ring'[(st[f] + k) % Words] = <<f, k>>
  <2>1. f \in 1 .. L + 1 /\ (f = L + 1 \/ (f \in Released + 1 .. L /\ f \in 1 .. L))
    BY <1>2
  <2>2. CASE f = L + 1
    <3>1. st[f] = B /\ k \in Nat /\ k < n
      BY <1>2, <1>5, <1>7, <2>1, <2>2 DEF B, n
    <3>2. (B + k) % Words \in Positions /\ B + k \in Nat
      <4>1. B + k \in Nat
        BY <1>3, <3>1
      <4> QED
        BY <4>1, Numbers
    <3>3. n < Words /\ B <= B + k /\ (B + k) - B < Words /\ (B + k) - B = k
      BY <1>2, <1>3, <1>8, <3>1
    <3>4. (((B + k) % Words) - (B % Words) + Words) % Words = (B + k) - B
      BY <1>3, <1>8, <3>2, <3>3, CircDist
    <3> QED
      BY <1>4, <1>8, <2>2, <3>1, <3>2, <3>3, <3>4
  <2>3. CASE f \in Released + 1 .. L /\ f \in 1 .. L
    <3> DEFINE q == start[f] + k
    <3>1. st[f] = start[f] /\ k \in 0 .. Length(size[f]) - 1
      BY <1>5, <1>7, <2>1, <2>3
    <3>2. start[f] \in Nat /\ Length(size[f]) \in Nat /\ start[f] + Length(size[f]) <= B
      BY <1>10, <2>3
    <3>3. A <= start[f]
      <4>1. CASE f = Released + 1
        BY <1>3, <4>1 DEF A
      <4>2. CASE f # Released + 1
        <5>1. Released + 1 \in 1 .. L /\ Released + 1 \in 1 .. L + 1 /\ Released + 1 < f
          BY <1>2, <2>3, <4>2
        <5>2. A + Length(size[Released + 1]) <= start[f]
          BY <1>9, <2>1, <5>1 DEF A
        <5>3. Length(size[Released + 1]) \in Nat
          BY <1>10, <5>1
        <5> QED
          BY <1>3, <3>2, <5>2, <5>3
      <4> QED
        BY <4>1, <4>2
    <3>4. q \in Nat /\ A <= q /\ q < B
      BY <1>3, <3>1, <3>2, <3>3
    <3> HIDE DEF q
    <3>5. ~((((q % Words) - (B % Words) + Words) % Words) < n)
      BY <1>2, <1>3, <3>4, WrittenApart
    <3>6. q % Words \in Positions
      BY <3>4, Numbers
    <3>7. ring'[q % Words] = ring[q % Words]
      BY <1>4, <1>8, <3>5, <3>6
    <3>8. ring[q % Words] = <<f, k>>
      BY <1>9, <2>3, <3>1 DEF q
    <3> QED
      BY <3>1, <3>7, <3>8 DEF q
  <2> QED
    BY <2>1, <2>2, <2>3
<1>16. (L + 1) + 1 = L + 2
  BY <1>2
<1>17. Layout(st)'
  BY <1>4, <1>5, <1>6, <1>8, <1>11, <1>12, <1>13, <1>14, <1>15, <1>16 DEF Layout
<1> QED
  BY <1>5, <1>7, <1>16, <1>17

LEMMA ArriveKeeps == ASSUME RxOK, NEW s \in Sizes, Arrive(s) PROVE RxOK'
<1>1. /\ isr' \subseteq {"rx", "tx"}
      /\ capr' = capr /\ rxOffset' = rxOffset /\ taken' = taken /\ garbled' = garbled
      /\ polls' = polls /\ UNCHANGED reentered
  BY DEF Arrive, RxOK
<1>2. At("handler")' = At("handler") /\ Released' = Released
  BY <1>1 DEF At, Released
<1>3. CASE Unread + Length(s) < Words
  <2>1. \E st \in [1 .. Len(size') + 1 -> Nat] : Layout(st)'
    BY <1>3, TakenInKeeps
  <2>2. size' = Append(size, s)
    BY <1>3 DEF Arrive
  <2>3. size \in Seq(Sizes) /\ Len(size) \in Nat /\ taken \in 0 .. Len(size)
    BY DEF RxOK
  <2>4. /\ size' \in Seq(Sizes) /\ Len(size') = Len(size) + 1
        /\ \A f \in 1 .. Len(size) : size'[f] = size[f]
    BY <2>2, <2>3
  <2>5. taken' \in 0 .. Len(size')
    BY <1>1, <2>3, <2>4
  <2>6. taken # 0 => taken \in 1 .. Len(size)
    BY <2>3
  <2>7. At("handler")' => taken' # 0 /\ Last(polls').size = size'[taken']
    BY <1>1, <1>2, <2>4, <2>6 DEF RxOK
  <2> QED
    BY <1>1, <2>1, <2>4, <2>5, <2>7 DEF RxOK
<1>4. CASE ~(Unread + Length(s) < Words)
  <2>1. UNCHANGED <<ring, cbr, capr, rxOffset, size, garbled>>
    BY <1>1, <1>4 DEF Arrive
  <2> QED
    BY <1>1, <1>2, <2>1, RingKept DEF RxOK
<1> QED
  BY <1>3, <1>4

\* Polls come and go without touching the ring.
LEMMA PollKeeps ==
  ASSUME RxOK, ~reentered', Poll \/ Clear \/ Drained \/ BadSize
  PROVE  RxOK'
<1>1. UNCHANGED <<ring, cbr, capr, rxOffset, size, taken, garbled>>
  BY DEF Poll, Clear, Drained, BadSize, rxVars
<1>2. isr' \subseteq {"rx", "tx"}
  BY DEF Poll, Clear, Drained, BadSize, RxOK
<1>3. ~At("handler")
  BY DEF Poll, Clear, Drained, BadSize, At
<1>4. polls' \in Seq(PollRecord) /\ Len(polls') <= 1 /\ ~At("handler")'
  <2>1. CASE Poll
    <3>1. polls = <<>> /\ polls' = Append(polls, [at |-> "clear", seen |-> isr, size |-> 0])
      BY <2>1 DEF Poll
    <3>2. [at |-> "clear", seen |-> isr, size |-> 0] \in PollRecord
      BY DEF PollRecord, RxOK
    <3> DEFINE p == [at |-> "clear", seen |-> isr, size |-> 0]
    <3>3. polls' = <<p>> /\ p.at # "handler"
      BY <3>1
    <3> HIDE DEF p
    <3>4. polls' \in Seq(PollRecord) /\ Len(polls') <= 1
      BY <3>2, <3>3 DEF p
    <3>5. ~At("handler")'
      BY <3>3 DEF At, Last
    <3> QED
      BY <3>4, <3>5
  <2>2. CASE Clear
    <3> DEFINE p == [Last(polls) EXCEPT !.at = "loop"]
    <3>1. polls # <<>> /\ GoOn(p)
      BY <2>2 DEF Clear, At
    <3>2. p \in PollRecord /\ p.at = "loop"
      BY <3>1, OnePoll DEF PollRecord
    <3> HIDE DEF p
    <3>3. polls' \in Seq(PollRecord) /\ Len(polls') = 1 /\ At("handler")' = (p.at = "handler")
      BY <3>1, <3>2, PollGoesOn
    <3>4. ~At("handler")'
      BY <3>2, <3>3
    <3>5. Len(polls') <= 1
      BY <3>3
    <3> QED
      BY <3>3, <3>4, <3>5
  <2>3. CASE Drained \/ BadSize
    <3>1. polls # <<>> /\ polls' = Front(polls)
      BY <2>3 DEF Drained, BadSize, At, Return
    <3>2. polls' = <<>>
      BY <3>1, OnePoll
    <3> QED
      BY <3>2 DEF At
  <2> QED
    BY <2>1, <2>2, <2>3
<1>5. Released' = Released
  BY <1>1, <1>3, <1>4 DEF Released
<1>6. taken' \in 0 .. Len(size)
  BY <1>1 DEF RxOK
<1> QED
  BY <1>1, <1>2, <1>4, <1>5, <1>6, RingKept

LEMMA OutgoingKeeps == ASSUME RxOK, Transmit \/ Send PROVE RxOK'
<1>1. /\ UNCHANGED <<ring, cbr, capr, rxOffset, size, taken, garbled, polls>>
      /\ isr' \subseteq {"rx", "tx"}
  BY DEF Transmit, Send, rxVars, RxOK
<1>2. At("handler")' = At("handler") /\ Released' = Released
  BY <1>1 DEF At, Released
<1> QED
  BY <1>1, <1>2, RingKept DEF RxOK

\* Every step of the card and the driver keeps the invariant.
LEMMA StepKeeps == ASSUME NicInv, [Next]_vars PROVE NicInv'
<1>1. TxOK'
  <2>1. CASE Transmit
    BY <2>1, TransmitKeeps DEF NicInv
  <2>2. CASE Send
    BY <2>2, SendKeeps DEF NicInv
  <2>3. CASE UNCHANGED txVars
    BY <2>3 DEF NicInv, TxOK, txVars
  <2> QED
    BY <2>1, <2>2, <2>3 DEF Next, PollStep, Poll, Clear, Drained, BadSize, Advance, Deliver, Arrive,
       vars
<1>2. reentered => reentered'
  BY DEF Next, PollStep, Transmit, Send, Poll, Clear, Drained, BadSize, Advance, Deliver, Arrive, vars
<1>3. ASSUME RxOK, ~reentered' PROVE RxOK'
  <2>1. CASE UNCHANGED vars
    <3>1. /\ UNCHANGED <<ring, cbr, capr, rxOffset, size, taken, garbled, polls>>
          /\ isr' \subseteq {"rx", "tx"}
      BY <1>3, <2>1 DEF vars, rxVars, RxOK
    <3>2. At("handler")' = At("handler") /\ Released' = Released
      BY <3>1 DEF At, Released
    <3> QED
      BY <1>3, <3>1, <3>2, RingKept DEF RxOK
  <2> QED
    BY <1>3, <2>1, ArriveKeeps, PollKeeps, OutgoingKeeps, DeliverKeeps, AdvanceKeeps DEF Next, PollStep
<1> QED
  BY <1>1, <1>2, <1>3 DEF NicInv

-----------------------------------------------------------------------------
(* The theorems.                                                           *)

\* The invariant of rtl8139.c and its card, for every ring and every number of
\* descriptors.
THEOREM NicInvariance == Spec => []NicInv
<1>1. Init => NicInv
  <2> SUFFICES ASSUME Init PROVE NicInv
    OBVIOUS
  <2>1. TxOK
    <3>1. accepted = <<>> /\ wire = <<>> /\ Len(accepted) = 0 /\ Len(wire) = 0 /\ 0 % TxCount = 0
      BY Numbers DEF Init
    <3>2. accepted \in Seq(Nat) /\ wire \in Seq(Nat) /\ 0 <= 0 + TxCount
      BY <3>1, Numbers
    <3>3. tsd \in [Slots -> BOOLEAN] /\ txBuffers \in [Slots -> Nat] /\ \A d \in Slots : tsd[d]
      BY DEF Init
    <3>4. txIndex = 0 /\ txCard = 0
      BY DEF Init
    <3> QED
      BY <3>1, <3>2, <3>3, <3>4 DEF TxOK
  <2>2. RxOK
    <3>1. /\ size = <<>> /\ Len(size) = 0 /\ polls = <<>> /\ Len(polls) = 0 /\ taken = 0
          /\ cbr = 0 /\ capr = 0 /\ rxOffset = 0 /\ ~garbled /\ isr = {}
      BY DEF Init
    <3>2. size \in Seq(Sizes) /\ polls \in Seq(PollRecord) /\ ~At("handler") /\ Released = 0
      BY <3>1 DEF At, Released
    <3> DEFINE start == [f \in 1 .. 1 |-> 0]
    <3>3. Layout(start) /\ start \in [1 .. Len(size) + 1 -> Nat]
      <4>1. start[1] = 0 /\ 0 % Words = 0 /\ 0 - 0 < Words
        BY Numbers
      <4>2. \A f, g \in 1 .. 1 : ~(f < g)
        OBVIOUS
      <4>3. start \in [1 .. Len(size) + 1 -> Nat]
        BY <3>1
      <4> HIDE DEF start
      <4> QED
        BY <3>1, <3>2, <4>1, <4>2, <4>3 DEF Layout
    <3> QED
      BY <3>1, <3>2, <3>3 DEF RxOK
  <2> QED
    BY <2>1, <2>2 DEF NicInv
<1>2. NicInv /\ [Next]_vars => NicInv'
  BY StepKeeps
<1> QED
  BY <1>1, <1>2, PTL DEF Spec

\* rtl8139_poll hands every frame to the callback whole, once and in order, and
\* the card never overwrites one that was not read, unless a handler polls.
THEOREM InOrderCorrect == Spec => []InOrder
<1>1. NicInv => InOrder
  BY DEF NicInv, RxOK, InOrder
<1> QED
  BY <1>1, NicInvariance, PTL

\* What the card sends is what rtl8139_send took, in order.
THEOREM WireIsSentCorrect == Spec => []WireIsSent
<1>1. ASSUME TxOK PROVE WireIsSent
  <2> DEFINE b == Len(wire)
  <2>1. /\ accepted \in Seq(Nat) /\ wire \in Seq(Nat) /\ b \in Nat /\ b <= Len(accepted)
        /\ \A k \in 1 .. b : wire[k] = k
    BY <1>1 DEF TxOK
  <2>2. \A k \in 1 .. b : k \in 1 .. Len(accepted) /\ accepted[k] = k
    BY <1>1, <2>1 DEF TxOK
  <2>3. \A k \in 1 .. b : wire[k] \in Nat /\ accepted[k] \in Nat /\ 1 + k - 1 = k
    BY <2>1, <2>2
  <2>4. /\ SubSeq(wire, 1, b) \in Seq(Nat) /\ Len(SubSeq(wire, 1, b)) = b
        /\ SubSeq(accepted, 1, b) \in Seq(Nat) /\ Len(SubSeq(accepted, 1, b)) = b
        /\ \A k \in 1 .. b : SubSeq(wire, 1, b)[k] = wire[k]
        /\ \A k \in 1 .. b : SubSeq(accepted, 1, b)[k] = accepted[k]
    BY <2>1, <2>2, <2>3, SubSeqProperties
  <2>5. SubSeq(wire, 1, b) = SubSeq(accepted, 1, b)
    BY <2>1, <2>2, <2>4, SeqEqual
  <2> QED
    BY <2>1, <2>5 DEF WireIsSent, IsPrefix
<1> QED
  BY <1>1, NicInvariance, PTL DEF NicInv

=============================================================================
