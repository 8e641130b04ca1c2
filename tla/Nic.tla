--------------------------------- MODULE Nic ---------------------------------
(***************************************************************************)
(* The RTL8139 driver of src/drivers/rtl8139.c and the card it drives: the *)
(* ring into which the card writes frames, each behind a header with its   *)
(* size, the status register, and the four transmit descriptors.           *)
(*                                                                         *)
(* The card works at any moment between two accesses of the driver.  The   *)
(* handler of a frame may send, and may wait in a loop that polls the card *)
(* again (an echo request from a host whose hardware address is unknown):  *)
(* the polls in progress form a stack.  The ring is counted in words of    *)
(* four bytes, the alignment of frames; sizes are in bytes and include the *)
(* checksum.                                                               *)
(***************************************************************************)
EXTENDS Integers, Sequences, SequencesExt

CONSTANTS
  Words,       \* RX_BUF_SIZE / 4
  Sizes,       \* sizes of the frames that arrive
  MaxFrames,   \* bound: frames that arrive
  TxCount,     \* transmit descriptors
  MaxSends,    \* bound: frames given to rtl8139_send
  MaxDepth     \* bound: polls in progress

ASSUME NicAssumption ==
  /\ {Words, TxCount, MaxDepth} \subseteq Nat \ {0}
  /\ {MaxFrames, MaxSends} \subseteq Nat
  /\ Sizes \subseteq {s \in Nat : 4 <= s /\ s + 8 < 4 * Words}

VARIABLES
  ring,        \* rx_ring_buf: what each word holds
  cbr,         \* card: the word it writes next
  capr,        \* card: the word the driver has read up to
  isr,         \* card: the bits of the status register
  rxOffset,    \* rx_offset
  polls,       \* the polls in progress, the innermost last
  tsd,         \* card: has it sent the frame of this descriptor?
  txBuffers,   \* tx_buf_data
  txIndex,     \* tx_index
  txCard,      \* card: the descriptor it sends next
  size,        \* history: sizes of the frames the card took in
  taken,       \* history: frames handed to the callback one after the other
  garbled,     \* history: the callback was handed something else
  reentered,   \* history: a handler polled while the card had news
  accepted,    \* history: frames rtl8139_send took
  wire         \* history: frames the card sent

rxVars == <<ring, cbr, capr, rxOffset, size, taken, garbled>>
txVars == <<tsd, txBuffers, txIndex, txCard, accepted, wire>>
vars   == <<rxVars, txVars, isr, polls, reentered>>

\* A word of the ring: the frame and the position in it, its header being 0.
Positions == 0 .. Words - 1
Slots     == 0 .. TxCount - 1
Frames    == 1 .. MaxFrames
Unset     == <<0, 0>>

TypeOK ==
  /\ \A w \in Positions : ring[w] \in {Unset} \union (Frames \X (0 .. Words))
  /\ {cbr, capr, rxOffset} \subseteq Positions
  /\ isr \subseteq {"rx", "tx"}
  /\ Len(polls) <= MaxDepth
  /\ size \in Seq(Sizes)
  /\ taken \in 0 .. Len(size)
  /\ {garbled, reentered} \subseteq BOOLEAN
  /\ tsd \in [Slots -> BOOLEAN]
  /\ {txIndex, txCard} \subseteq Slots

\* rtl8139_init
Init ==
  /\ ring = [w \in Positions |-> Unset]
  /\ cbr = 0
  /\ capr = 0
  /\ isr = {}
  /\ rxOffset = 0
  /\ polls = <<>>
  /\ tsd = [d \in Slots |-> TRUE]
  /\ txBuffers = [d \in Slots |-> 0]
  /\ txIndex = 0
  /\ txCard = 0
  /\ size = <<>>
  /\ taken = 0
  /\ garbled = FALSE
  /\ reentered = FALSE
  /\ accepted = <<>>
  /\ wire = <<>>

-----------------------------------------------------------------------------
(* The card.                                                               *)

\* Words between what the driver has read and what the card has written.
Unread == (cbr - capr + Words) % Words

\* Words a frame takes up with its header.
Length(s) == (s + 4 + 3) \div 4

\* A frame arrives.  The card drops one that would not leave a word free.
Arrive(s) ==
  /\ Len(size) < MaxFrames
  /\ LET n == Length(s)
         f == Len(size) + 1
     IN IF Unread + n < Words
        THEN /\ ring' = [w \in Positions |->
                  LET k == (w - cbr + Words) % Words IN IF k < n THEN <<f, k>> ELSE ring[w]]
             /\ cbr' = (cbr + n) % Words
             /\ size' = Append(size, s)
        ELSE UNCHANGED <<ring, cbr, size>>
  /\ isr' = isr \union {"rx"}
  /\ UNCHANGED <<capr, rxOffset, taken, garbled, txVars, polls, reentered>>

\* The card sends the frame of the next descriptor it was given.
Transmit ==
  /\ ~tsd[txCard]
  /\ wire' = Append(wire, txBuffers[txCard])
  /\ tsd' = [tsd EXCEPT ![txCard] = TRUE]
  /\ txCard' = (txCard + 1) % TxCount
  /\ isr' = isr \union {"tx"}
  /\ UNCHANGED <<rxVars, txBuffers, txIndex, accepted, polls, reentered>>

-----------------------------------------------------------------------------
(* The driver.                                                             *)

\* The kernel runs no poll, or runs the handler of a frame.
Calling == polls # <<>> => Last(polls).at = "handler"

\* Mutant: the owner of the descriptor is not looked at.
SendBlind ==
  /\ Calling
  /\ Len(accepted) < MaxSends
  /\ txBuffers' = [txBuffers EXCEPT ![txIndex] = Len(accepted) + 1]
  /\ tsd' = [tsd EXCEPT ![txIndex] = FALSE]
  /\ txIndex' = (txIndex + 1) % TxCount
  /\ accepted' = Append(accepted, Len(accepted) + 1)
  /\ UNCHANGED <<rxVars, txCard, wire, isr, polls, reentered>>

\* rtl8139_send; it refuses while the card still owns the descriptor.
Send ==
  /\ Calling
  /\ Len(accepted) < MaxSends
  /\ tsd[txIndex]
  /\ txBuffers' = [txBuffers EXCEPT ![txIndex] = Len(accepted) + 1]
  /\ tsd' = [tsd EXCEPT ![txIndex] = FALSE]
  /\ txIndex' = (txIndex + 1) % TxCount
  /\ accepted' = Append(accepted, Len(accepted) + 1)
  /\ UNCHANGED <<rxVars, txCard, wire, isr, polls, reentered>>

\* rtl8139_poll reads the status; without news it returns.
Poll ==
  /\ Calling
  /\ Len(polls) < MaxDepth
  /\ isr # {}
  /\ polls' = Append(polls, [at |-> "clear", seen |-> isr, size |-> 0])
  /\ reentered' = (reentered \/ polls # <<>>)
  /\ UNCHANGED <<rxVars, txVars, isr>>

\* The innermost poll is at label at; it goes on as p.
At(at) == polls # <<>> /\ Last(polls).at = at
GoOn(p) == polls' = Append(Front(polls), p)
Return == polls' = Front(polls)

\* It clears the bits it has read, before it reads the ring.
Clear ==
  /\ At("clear")
  /\ isr' = isr \ Last(polls).seen
  /\ GoOn([Last(polls) EXCEPT !.at = "loop"])
  /\ UNCHANGED <<rxVars, txVars, reentered>>

\* CR_RX_EMPTY ends the loop.
Drained ==
  /\ At("loop")
  /\ Unread = 0
  /\ Return
  /\ UNCHANGED <<rxVars, txVars, isr, reentered>>

\* What the size field at rx_offset can be: that of a frame, or, where no header
\* is, anything; 0 stands for a size below 4 or above 1600.
HeaderSizes ==
  IF ring[rxOffset][1] # 0 /\ ring[rxOffset][2] = 0 THEN {size[ring[rxOffset][1]]}
  ELSE Sizes \union {0}

\* Words of a frame's contents: frame_len, without header and checksum.
Content(s) == (s - 4 + 3) \div 4

\* Mutant: the end of the ring is not wrapped around.
CopiedStraight(s) ==
  [i \in 1 .. Content(s) |-> IF rxOffset + i < Words THEN ring[rxOffset + i] ELSE Unset]

\* The copy into rx_frame_tmp, word by word.
Copied(s) == [i \in 1 .. Content(s) |-> ring[(rxOffset + i) % Words]]

\* One turn of the loop: the frame is copied and handed to the callback.
Deliver(s) ==
  /\ At("loop")
  /\ Unread # 0
  /\ s \in HeaderSizes \ {0}
  /\ IF /\ taken < Len(size) /\ s = size[taken + 1]
        /\ Copied(s) = [i \in 1 .. Content(s) |-> <<taken + 1, i>>]
     THEN taken' = taken + 1 /\ UNCHANGED garbled
     ELSE garbled' = TRUE /\ UNCHANGED taken
  /\ GoOn([Last(polls) EXCEPT !.at = "handler", !.size = s])
  /\ UNCHANGED <<ring, cbr, capr, rxOffset, size, txVars, isr, reentered>>

\* A size that cannot be: the status is cleared and the poll returns.
BadSize ==
  /\ At("loop")
  /\ Unread # 0
  /\ 0 \in HeaderSizes
  /\ isr' = {}
  /\ Return
  /\ UNCHANGED <<rxVars, txVars, reentered>>

\* next: frames begin at whole words.
NextOffset(s) == (rxOffset + (s + 4 + 3) \div 4) % Words

\* Mutant: one frame is read in every poll.
AdvanceOnce ==
  /\ At("handler")
  /\ rxOffset' = NextOffset(Last(polls).size)
  /\ capr' = rxOffset'
  /\ Return
  /\ UNCHANGED <<ring, cbr, size, taken, garbled, txVars, isr, reentered>>

\* The callback returns: the offset, read again, moves on by the frame's size, and
\* the card is told.
Advance ==
  /\ At("handler")
  /\ rxOffset' = NextOffset(Last(polls).size)
  /\ capr' = rxOffset'
  /\ GoOn([Last(polls) EXCEPT !.at = "loop"])
  /\ UNCHANGED <<ring, cbr, size, taken, garbled, txVars, isr, reentered>>

PollStep == Clear \/ Drained \/ BadSize \/ Advance \/ \E s \in Sizes : Deliver(s)

Next == Transmit \/ Send \/ Poll \/ PollStep \/ \E s \in Sizes : Arrive(s)

\* The idle task polls whenever it runs, and a poll goes on while it runs.
Spec == Init /\ [][Next]_vars /\ WF_vars(Poll /\ polls = <<>>) /\ WF_vars(PollStep)

-----------------------------------------------------------------------------
(* Properties.                                                             *)

\* The callback gets every frame the card took in once, whole and in order,
\* wherever it lies in the ring, and the card never writes over a frame that was
\* not read.  A handler that polls while the card has news breaks this: the inner
\* poll reads the same frame again, and the outer one then skips what comes after.
InOrder == ~reentered => ~garbled

\* No frame is left in the ring until another one happens to arrive: it comes to
\* the callback, although it may have come between the read of the status and
\* the clearing, or after the loop found the ring empty.
FramesDelivered ==
  []~reentered => \A f \in Frames : Len(size) >= f ~> taken >= f

\* What goes out on the wire is what rtl8139_send took, in order: no frame is
\* overwritten in its buffer before the card has sent it, by whomever it is sent.
WireIsSent == IsPrefix(wire, accepted)

=============================================================================
