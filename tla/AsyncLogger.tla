---------------------------- MODULE AsyncLogger ----------------------------
(***************************************************************************)
(* AsyncLogger (include/logging/AsyncLogger.hpp): producers claim a slot   *)
(* of a ring with fetch_add on head_ and fill it without a lock; one       *)
(* consumer thread prints the slot at tail_ and frees it.                  *)
(*                                                                         *)
(* A message is the ticket (the value of head_) its call of log claimed,   *)
(* so that claim order is the order of numbers.  The text of an entry      *)
(* (level, timestamp and message) is written in one step: whether another  *)
(* producer is writing it too is what SlotOwnership is about.              *)
(*                                                                         *)
(* SlotOwnership, NoStaleText and StopReturns state what the comments of   *)
(* the header claim, and the code does not keep them.  The history         *)
(* variable mishaps records the three things that can go wrong inside log, *)
(* and the other properties say what the code does keep until one happens. *)
(***************************************************************************)
EXTENDS Integers, Sequences, FiniteSets

CONSTANTS
    Producers,      \* threads that call log
    RING_CAPACITY,
    Reorder,        \* may the plain store of valid become visible before the text?
    MaxLogs,        \* bound: calls of log made by all producers together
    MaxStarts       \* bound: calls of start

ASSUME AsyncLoggerAssumption ==
    /\ RING_CAPACITY \in Nat \ {0}
    /\ Reorder \in BOOLEAN
    /\ MaxLogs \in Nat /\ MaxStarts \in Nat

VARIABLES
    valid,     \* ring_[i].valid of each slot i
    text,      \* the other fields of ring_[i]
    head,      \* head_
    tail,      \* tail_
    dropped,   \* dropped_
    ppc,       \* where each producer is in log
    ticket,    \* value of head_ fetched by each producer
    cpc,       \* where the consumer thread is in consume_loop ("none": no thread)
    scan,      \* index i of has_pending
    mpc,       \* the thread that owns the logger: "started", "joining" in stop, "stopped"
    starts,    \* calls of start
    printed,   \* history: the messages printed, in order
    accepted,  \* history: the messages whose call returned true
    due,       \* history: the messages accepted before the last call of stop
    mishaps    \* history: what has gone wrong in some call of log so far

vars == <<valid, text, head, tail, dropped, ppc, ticket, cpc, scan, mpc, starts,
          printed, accepted, due, mishaps>>

producer == <<head, dropped, ppc, ticket, accepted, mishaps>>
consumer == <<tail, cpc, scan, printed>>
owner    == <<mpc, starts, due>>

Slots == 0 .. RING_CAPACITY - 1

NoText == -1

(* The slot a producer has claimed, and the one the consumer looks at.     *)
Slot(p) == ticket[p] % RING_CAPACITY

TailSlot == tail % RING_CAPACITY

(* running_ is set by start and cleared by stop before it joins.           *)
running == mpc = "started"

Init ==
    /\ valid = [i \in Slots |-> FALSE]
    /\ text = [i \in Slots |-> NoText]
    /\ head = 0
    /\ tail = 0
    /\ dropped = 0
    /\ ppc = [p \in Producers |-> "idle"]
    /\ ticket = [p \in Producers |-> 0]
    /\ cpc = "none"
    /\ scan = 0
    /\ mpc = "stopped"
    /\ starts = 0
    /\ printed = <<>>
    /\ accepted = {}
    /\ due = {}
    /\ mishaps = {}

-----------------------------------------------------------------------------
(* log, one step per shared access.                                        *)
PGoTo(p, from, to) ==
    /\ ppc[p] = from
    /\ ppc' = [ppc EXCEPT ![p] = to]

(* Three mishaps.  "overrun": log claims a ticket although RING_CAPACITY   *)
(* tickets are not consumed yet ("Full: head_ - tail_ == N", line 21, is   *)
(* not tested).  "shared": it finds its slot free while another call is    *)
(* writing it.  "early": the store of valid is visible before the text.    *)
Mishap(m, happens) == mishaps' = mishaps \union {x \in {m} : happens}

Writing(p) == ppc[p] \in {"fill", "publish", "latefill"}

SharesSlot(p) == \E q \in Producers \ {p} : Writing(q) /\ Slot(q) = Slot(p)

(* Faulty variant: head_ is a plain integer, an increment can be lost.     *)
ClaimLostUpdate(p) ==
    /\ head < MaxLogs
    /\ PGoTo(p, "idle", "check")
    /\ ticket' = [ticket EXCEPT ![p] = head]
    /\ head' \in {head, head + 1}
    /\ Mishap("overrun", head - tail >= RING_CAPACITY)
    /\ UNCHANGED <<valid, text, dropped, accepted, consumer, owner>>

Claim(p) ==
    /\ head < MaxLogs
    /\ PGoTo(p, "idle", "check")
    /\ ticket' = [ticket EXCEPT ![p] = head]
    /\ head' = head + 1
    /\ Mishap("overrun", head - tail >= RING_CAPACITY)
    /\ UNCHANGED <<valid, text, dropped, accepted, consumer, owner>>

Drop(p) ==
    /\ PGoTo(p, "check", "idle")
    /\ valid[Slot(p)]
    /\ dropped' = dropped + 1
    /\ UNCHANGED <<valid, text, head, ticket, accepted, mishaps, consumer, owner>>

(* Faulty variant: the slot is filled although it was not consumed.        *)
FindFreeUnchecked(p) ==
    /\ PGoTo(p, "check", "fill")
    /\ Mishap("shared", SharesSlot(p))
    /\ UNCHANGED <<valid, text, head, dropped, ticket, accepted, consumer, owner>>

FindFree(p) ==
    /\ PGoTo(p, "check", "fill")
    /\ ~ valid[Slot(p)]
    /\ Mishap("shared", SharesSlot(p))
    /\ UNCHANGED <<valid, text, head, dropped, ticket, accepted, consumer, owner>>

Fill(p) ==
    /\ PGoTo(p, "fill", "publish")
    /\ text' = [text EXCEPT ![Slot(p)] = ticket[p]]
    /\ UNCHANGED valid
    /\ UNCHANGED <<head, dropped, ticket, accepted, mishaps, consumer, owner>>

Publish(p) ==
    /\ PGoTo(p, "publish", "idle")
    /\ valid' = [valid EXCEPT ![Slot(p)] = TRUE]
    /\ UNCHANGED text
    /\ accepted' = accepted \union {ticket[p]}
    /\ UNCHANGED <<head, dropped, ticket, mishaps, consumer, owner>>

(* valid is a plain bool: nothing orders its store after those of the text *)
(* for another thread.                                                     *)
PublishEarly(p) ==
    /\ Reorder
    /\ PGoTo(p, "fill", "latefill")
    /\ valid' = [valid EXCEPT ![Slot(p)] = TRUE]
    /\ UNCHANGED text
    /\ Mishap("early", TRUE)
    /\ UNCHANGED <<head, dropped, ticket, accepted, consumer, owner>>

FillLate(p) ==
    /\ PGoTo(p, "latefill", "idle")
    /\ text' = [text EXCEPT ![Slot(p)] = ticket[p]]
    /\ UNCHANGED valid
    /\ accepted' = accepted \union {ticket[p]}
    /\ UNCHANGED <<head, dropped, ticket, mishaps, consumer, owner>>

LogStep(p) ==
    \/ Drop(p) \/ FindFree(p) \/ Fill(p) \/ Publish(p)
    \/ PublishEarly(p) \/ FillLate(p)

-----------------------------------------------------------------------------
(* consume_loop.                                                           *)
CGoTo(from, to) == cpc = from /\ cpc' = to

(* Faulty variant: the loop never ends.                                    *)
LoopTestForever ==
    /\ CGoTo("while", "tail")
    /\ UNCHANGED <<valid, text, tail, scan, printed, producer, owner>>

(* Faulty variant: while (running_), without draining.                     *)
LoopTestNoDrain ==
    /\ \/ running /\ CGoTo("while", "tail")
       \/ ~ running /\ CGoTo("while", "exit")
    /\ UNCHANGED <<valid, text, tail, scan, printed, producer, owner>>

LoopTest ==
    /\ \/ running /\ CGoTo("while", "tail") /\ UNCHANGED scan
       \/ ~ running /\ CGoTo("while", "scan") /\ scan' = 0
    /\ UNCHANGED <<valid, text, tail, printed, producer, owner>>

(* has_pending looks at one slot after the other.                          *)
HasPending ==
    /\ scan < RING_CAPACITY
    /\ \/ valid[scan] /\ CGoTo("scan", "tail") /\ UNCHANGED scan
       \/ ~ valid[scan] /\ CGoTo("scan", "scan") /\ scan' = scan + 1
    /\ UNCHANGED <<valid, text, tail, printed, producer, owner>>

NothingPending ==
    /\ scan = RING_CAPACITY
    /\ CGoTo("scan", "exit")
    /\ UNCHANGED <<valid, text, tail, scan, printed, producer, owner>>

(* Faulty variant: the consumer skips an entry that is not ready.          *)
SleepAndSkip ==
    /\ ~ valid[TailSlot]
    /\ CGoTo("tail", "while")
    /\ tail < head /\ tail' = tail + 1
    /\ UNCHANGED <<valid, text, scan, printed, producer, owner>>

(* The entry at tail_ is not ready: sleep 100us and test the loop again.   *)
Sleep ==
    /\ ~ valid[TailSlot]
    /\ CGoTo("tail", "while")
    /\ UNCHANGED <<valid, text, tail, scan, printed, producer, owner>>

PrintEntry ==
    /\ valid[TailSlot]
    /\ CGoTo("tail", "release")
    /\ printed' = Append(printed, text[TailSlot])
    /\ UNCHANGED <<valid, text, tail, scan, producer, owner>>

Release ==
    /\ CGoTo("release", "advance")
    /\ valid' = [valid EXCEPT ![TailSlot] = FALSE]
    /\ UNCHANGED text
    /\ UNCHANGED <<tail, scan, printed, producer, owner>>

Advance ==
    /\ CGoTo("advance", "while")
    /\ tail' = tail + 1
    /\ UNCHANGED <<valid, text, scan, printed, producer, owner>>

ConsumeStep ==
    \/ LoopTest \/ HasPending \/ NothingPending
    \/ Sleep \/ PrintEntry \/ Release \/ Advance

-----------------------------------------------------------------------------
(* The owner of the logger: start, and stop with its join.                 *)
Start ==
    /\ mpc = "stopped" /\ starts < MaxStarts
    /\ mpc' = "started"
    /\ cpc' = "while"
    /\ starts' = starts + 1
    /\ UNCHANGED <<valid, text, tail, scan, printed, due, producer>>

Stop ==
    /\ mpc = "started"
    /\ mpc' = "joining"
    /\ due' = accepted
    /\ UNCHANGED <<valid, text, starts, consumer, producer>>

Join ==
    /\ mpc = "joining" /\ cpc = "exit"
    /\ mpc' = "stopped"
    /\ cpc' = "none"
    /\ UNCHANGED <<valid, text, starts, due, tail, scan, printed, producer>>

(* Every call is made and the logger is stopped.                           *)
Done ==
    /\ mpc = "stopped" /\ starts = MaxStarts
    /\ head = MaxLogs /\ \A p \in Producers : ppc[p] = "idle"
    /\ UNCHANGED vars

Next ==
    \/ \E p \in Producers : Claim(p) \/ LogStep(p)
    \/ ConsumeStep
    \/ Start \/ Stop \/ Join
    \/ Done

Spec == Init /\ [][Next]_vars

(* No step of log or of consume_loop blocks, and join returns once the     *)
(* consumer thread has ended.  Nobody is obliged to log, start or stop.    *)
FairSpec ==
    /\ Spec
    /\ \A p \in Producers : WF_vars(LogStep(p))
    /\ WF_vars(ConsumeStep)
    /\ WF_vars(Join)

-----------------------------------------------------------------------------
(* Properties.                                                             *)

(* Types of the variables.                                                 *)
TypeOK ==
    /\ valid \in [Slots -> BOOLEAN]
    /\ text \in [Slots -> {NoText} \union (0 .. MaxLogs - 1)]
    /\ head \in 0 .. MaxLogs
    /\ tail \in Nat
    /\ dropped \in Nat
    /\ ppc \in [Producers -> {"idle", "check", "fill", "publish", "latefill"}]
    /\ ticket \in [Producers -> 0 .. MaxLogs]
    /\ cpc \in {"none", "while", "scan", "tail", "release", "advance", "exit"}
    /\ scan \in 0 .. RING_CAPACITY
    /\ mpc \in {"stopped", "started", "joining"}
    /\ starts \in 0 .. MaxStarts
    /\ printed \in Seq({NoText} \union (0 .. MaxLogs - 1))
    /\ accepted \subseteq 0 .. MaxLogs - 1
    /\ due \subseteq accepted
    /\ mishaps \subseteq {"overrun", "shared", "early"}

Printed == {printed[i] : i \in DOMAIN printed}

(* "Fill the entry (no mutex needed - we own this slot)" (line 94): no two *)
(* producers write one slot at the same time, and none writes a slot that  *)
(* the consumer may be reading.  Not kept: a call that claims a ticket     *)
(* RING_CAPACITY after another that is not finished finds the same slot    *)
(* free.                                                                   *)
SlotOwnership ==
    /\ \A p, q \in Producers : p # q /\ Writing(p) /\ Writing(q) => Slot(p) # Slot(q)
    /\ \A p \in Producers : Writing(p) /\ ppc[p] # "latefill" => ~ valid[Slot(p)]

(* What is left of line 94: as long as no call has claimed a ticket a      *)
(* whole ring ahead of tail_ and no store was reordered, log owns its      *)
(* slot, however often the ring has been reused.                           *)
NoOverrun == mishaps \intersect {"overrun", "early"} = {}

OwnedUntilOverrun == NoOverrun => SlotOwnership

(* Under the same condition the output is the sequence of messages: line i *)
(* is the complete text of the i-th claim, none is missing, printed twice, *)
(* dropped or out of order, across any number of turns of the ring.        *)
PrintedInClaimOrder ==
    NoOverrun => /\ \A i \in DOMAIN printed : printed[i] = i - 1
                 /\ dropped = 0

(* Overruns alone lose nothing: unless two calls have shared a slot or a   *)
(* store was reordered, each message whose call of log returned true is    *)
(* either printed, once, or intact in exactly one slot, while the ring     *)
(* fills, drops messages and wraps around.                                 *)
InRing == {i \in Slots : valid[i] /\ ~ (cpc = "release" /\ i = TailSlot)}

Intact == mishaps \intersect {"shared", "early"} = {}

Conserved ==
    /\ accepted = Printed \union {text[i] : i \in InRing}
    /\ \A i \in InRing : text[i] \notin Printed
    /\ \A i, j \in InRing : text[i] = text[j] => i = j
    /\ \A i, j \in DOMAIN printed : printed[i] = printed[j] => i = j

NothingLost == Intact => Conserved

(* "Graceful shutdown: flush remaining entries then stop" (line 73): when  *)
(* stop returns, every message whose call of log had returned true before  *)
(* stop was called is on the output, overruns and drops or not.            *)
Flushed == mpc = "stopped" => due \subseteq Printed

FlushedOnStop == Intact => Flushed

(* What is printed is the text some call of log put there: "release        *)
(* ordering ensures message bytes are visible before valid flag is seen as *)
(* true" (lines 104-105).  Not kept: valid is a plain bool.                *)
PrintsFreshText == PrintEntry => text[TailSlot] \in accepted \ Printed

NoStaleText == [][PrintsFreshText]_vars

(* stop returns (line 73).  Not kept: a dropped ticket leaves a hole in    *)
(* the ring that the consumer waits at for ever.                           *)
StopReturns == mpc = "joining" ~> mpc = "stopped"

(* stop returns, with the ring drained, unless a ticket was claimed a      *)
(* whole ring ahead of tail_ at some time: a stop before the first overrun *)
(* never hangs.                                                            *)
StopReturnsInTime == mpc = "joining" ~> (mpc = "stopped" \/ "overrun" \in mishaps)
=============================================================================
