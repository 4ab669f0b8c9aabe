------------------------- MODULE AsyncLoggerProofs -------------------------
(***************************************************************************)
(* What TLAPS proves about AsyncLogger for every set of producers, every   *)
(* capacity and any number of messages, drops, turns of the ring and       *)
(* restarts:                                                               *)
(*   - until a ticket is claimed a whole ring ahead of tail_ or a store is *)
(*     reordered: OwnedUntilOverrun and PrintedInClaimOrder;               *)
(*   - until two calls share a slot or a store is reordered: NothingLost   *)
(*     and FlushedOnStop;                                                  *)
(*   - for a single producer SlotOwnership, and without reordered stores   *)
(*     that no accepted message is lost, with no further condition.        *)
(***************************************************************************)
EXTENDS AsyncLogger, TLAPS

(* Tickets come from fetch_add: a call in progress has a ticket below      *)
(* head_ that is neither another call's nor an accepted message's.         *)
Tickets ==
    /\ \A p \in Producers : ppc[p] # "idle" => ticket[p] < head /\ ticket[p] \notin accepted
    /\ \A p, q \in Producers :
           p # q /\ ppc[p] # "idle" /\ ppc[q] # "idle" => ticket[p] # ticket[q]
    /\ \A m \in accepted : m < head

(* Mishaps are never forgotten; the consumer and the owner have none.      *)
LEMMA MishapsGrow ==
    ASSUME TypeOK, [Next]_vars
    PROVE  mishaps \subseteq mishaps' /\ mishaps' \subseteq {"overrun", "shared", "early"}
<1> USE DEF TypeOK, Mishap, producer
<1>1. ASSUME NEW p \in Producers, Claim(p) \/ LogStep(p)
      PROVE  \E m \in {"overrun", "shared", "early"}, b \in BOOLEAN :
                 mishaps' = mishaps \union {x \in {m} : b}
  <2>0. \A b : (b \in BOOLEAN /\ b) \/ ~ b
    OBVIOUS
  <2>1. CASE Claim(p)
    <3>1. (head - tail >= RING_CAPACITY) \in BOOLEAN
      OBVIOUS
    <3>2. mishaps' = mishaps \union {x \in {"overrun"} : head - tail >= RING_CAPACITY}
      BY <2>1 DEF Claim
    <3> QED BY <3>1, <3>2
  <2>2. CASE FindFree(p)
    <3>1. SharesSlot(p) \in BOOLEAN
      BY DEF SharesSlot
    <3>2. mishaps' = mishaps \union {x \in {"shared"} : SharesSlot(p)}
      BY <2>2 DEF FindFree
    <3> QED BY <3>1, <3>2
  <2>3. CASE PublishEarly(p)
    <3>1. mishaps' = mishaps \union {x \in {"early"} : TRUE}
      BY <2>3 DEF PublishEarly
    <3> QED BY <3>1
  <2>4. CASE Drop(p) \/ Fill(p) \/ Publish(p) \/ FillLate(p)
    <3>1. mishaps' = mishaps
      BY <2>4 DEF Drop, Fill, Publish, FillLate
    <3>2. mishaps' = mishaps \union {x \in {"early"} : FALSE}
      BY <3>1
    <3> QED BY <3>2
  <2> QED
    BY <1>1, <2>1, <2>2, <2>3, <2>4 DEF LogStep
<1>2. ASSUME NEW p \in Producers, Claim(p) \/ LogStep(p)
      PROVE  mishaps \subseteq mishaps' /\ mishaps' \subseteq {"overrun", "shared", "early"}
  BY <1>1, <1>2
<1>3. CASE ConsumeStep \/ Start \/ Stop \/ Join \/ UNCHANGED vars
  <2>1. mishaps' = mishaps
    BY <1>3 DEF ConsumeStep, LoopTest, HasPending, NothingPending, Sleep, PrintEntry, Release,
                Advance, Start, Stop, Join, vars
  <2> QED
    BY <2>1
<1> QED
  BY <1>2, <1>3 DEF Next, Done

(* Types are preserved by every step, whatever is logged.                  *)
THEOREM TypeCorrect == Spec => [](TypeOK /\ Tickets)
<1> USE AsyncLoggerAssumption
<1>1. Init => TypeOK /\ Tickets
  <2> SUFFICES ASSUME Init PROVE TypeOK /\ Tickets
    OBVIOUS
  <2>1. text \in [Slots -> {NoText} \union (0 .. MaxLogs - 1)]
    BY DEF Init
  <2>2. printed \in Seq({NoText} \union (0 .. MaxLogs - 1))
    BY DEF Init
  <2> QED
    BY <2>1, <2>2 DEF Init, TypeOK, Tickets
<1>2. TypeOK /\ Tickets /\ [Next]_vars => TypeOK' /\ Tickets'
  <2> SUFFICES ASSUME TypeOK, Tickets, [Next]_vars PROVE TypeOK' /\ Tickets'
    OBVIOUS
  <2> USE DEF TypeOK, Tickets, PGoTo, CGoTo, producer, consumer, owner
  <2>m. mishaps' \subseteq {"overrun", "shared", "early"}
    BY MishapsGrow
  <2>0. TailSlot \in Slots /\ \A p \in Producers : Slot(p) \in Slots
    BY DEF TailSlot, Slot, Slots
  <2>1. ASSUME NEW p \in Producers, Claim(p) PROVE TypeOK' /\ Tickets'
    BY <2>m, <2>1 DEF Claim
  <2>2. ASSUME NEW p \in Producers, Drop(p) PROVE TypeOK' /\ Tickets'
    BY <2>m, <2>2 DEF Drop
  <2>3. ASSUME NEW p \in Producers, FindFree(p) PROVE TypeOK' /\ Tickets'
    BY <2>m, <2>3 DEF FindFree
  <2>4. ASSUME NEW p \in Producers, Fill(p) PROVE TypeOK' /\ Tickets'
    BY <2>m, <2>0, <2>4 DEF Fill
  <2>5. ASSUME NEW p \in Producers, Publish(p) PROVE TypeOK' /\ Tickets'
    <3>1. ticket[p] \in 0 .. MaxLogs - 1
      BY <2>m, <2>5 DEF Publish
    <3>2. accepted' \subseteq 0 .. MaxLogs - 1 /\ due' \subseteq accepted'
      BY <2>5, <3>1 DEF Publish
    <3>3. valid' \in [Slots -> BOOLEAN] /\ text' \in [Slots -> {NoText} \union (0 .. MaxLogs - 1)]
      BY <2>0, <2>5, <3>1 DEF Publish
    <3> QED
      BY <2>m, <2>5, <3>2, <3>3 DEF Publish
  <2>6. ASSUME NEW p \in Producers, PublishEarly(p) PROVE TypeOK' /\ Tickets'
    BY <2>m, <2>0, <2>6 DEF PublishEarly
  <2>7. ASSUME NEW p \in Producers, FillLate(p) PROVE TypeOK' /\ Tickets'
    <3>1. ticket[p] \in 0 .. MaxLogs - 1
      BY <2>m, <2>7 DEF FillLate
    <3>2. accepted' \subseteq 0 .. MaxLogs - 1 /\ due' \subseteq accepted'
      BY <2>7, <3>1 DEF FillLate
    <3>3. valid' \in [Slots -> BOOLEAN] /\ text' \in [Slots -> {NoText} \union (0 .. MaxLogs - 1)]
      BY <2>0, <2>7, <3>1 DEF FillLate
    <3> QED
      BY <2>m, <2>7, <3>2, <3>3 DEF FillLate
  <2>8. CASE LoopTest \/ HasPending \/ NothingPending \/ Sleep \/ Advance
    <3>1. CASE LoopTest BY <2>m, <3>1 DEF LoopTest
    <3>2. CASE HasPending BY <2>m, <3>2 DEF HasPending
    <3>3. CASE NothingPending BY <2>m, <3>3 DEF NothingPending
    <3>4. CASE Sleep BY <2>m, <3>4 DEF Sleep
    <3>5. CASE Advance BY <2>m, <3>5 DEF Advance
    <3> QED BY <2>8, <3>1, <3>2, <3>3, <3>4, <3>5
  <2>9. CASE PrintEntry
    BY <2>m, <2>0, <2>9 DEF PrintEntry
  <2>10. CASE Release
    BY <2>m, <2>0, <2>10 DEF Release
  <2>11. CASE Start \/ Stop \/ Join
    <3>1. CASE Start BY <2>m, <3>1 DEF Start
    <3>2. CASE Stop BY <2>m, <3>2 DEF Stop
    <3>3. CASE Join BY <2>m, <3>3 DEF Join
    <3> QED BY <2>11, <3>1, <3>2, <3>3
  <2>12. CASE UNCHANGED vars
    BY <2>m, <2>12 DEF vars
  <2> QED
    BY <2>1, <2>2, <2>3, <2>4, <2>5, <2>6, <2>7, <2>8, <2>9, <2>10, <2>11, <2>12
       DEF Next, LogStep, ConsumeStep, Done
<1> QED
  BY <1>1, <1>2, PTL DEF Spec
-----------------------------------------------------------------------------
(* Where the consumer thread can be: it looks at has_pending and ends only *)
(* after stop has cleared running_.                                        *)
Control ==
    /\ mpc = "started" => cpc \notin {"none", "scan", "exit"}
    /\ mpc = "joining" => cpc # "none"
    /\ mpc = "stopped" => cpc = "none"

(* start, stop and join keep step with the consumer thread.                *)
LEMMA ControlCorrect == Spec => []Control
<1>1. Init => Control
  BY DEF Init, Control
<1>2. Control /\ [Next]_vars => Control'
  <2> SUFFICES ASSUME Control, [Next]_vars PROVE Control'
    OBVIOUS
  <2> USE DEF Control, PGoTo, CGoTo, consumer, owner
  <2>1. ASSUME NEW p \in Producers, Claim(p) \/ LogStep(p) PROVE Control'
    BY <2>1 DEF LogStep, Claim, Drop, FindFree, Fill, Publish, PublishEarly, FillLate
  <2>2. CASE ConsumeStep
    BY <2>2 DEF ConsumeStep, LoopTest, HasPending, NothingPending, Sleep, PrintEntry, Release,
                Advance, running
  <2>3. CASE Start \/ Stop \/ Join
    BY <2>3 DEF Start, Stop, Join
  <2>4. CASE UNCHANGED vars
    BY <2>4 DEF vars
  <2> QED
    BY <2>1, <2>2, <2>3, <2>4 DEF Next, Done
<1> QED
  BY <1>1, <1>2, PTL DEF Spec
-----------------------------------------------------------------------------
(* No overrun.  The tickets not consumed yet are fewer than the slots, so  *)
(* two of them never meet in a slot: this is what a test of "Full:         *)
(* head_ - tail_ == N" in log would guarantee.                             *)
LEMMA SameResidue ==
    ASSUME NEW n \in Nat \ {0}, NEW t \in Nat, NEW a \in Nat, NEW b \in Nat,
           t <= a, a < t + n, t <= b, b < t + n, a % n = b % n
    PROVE  a = b
<1> DEFINE x == a \div n
           y == b \div n
<1>1. /\ x \in Int /\ y \in Int /\ a % n \in Int
      /\ a = n * x + (a % n) /\ b = n * y + (b % n)
  OBVIOUS
<1> HIDE DEF x, y
<1>2. a - b = n * x - n * y
  BY <1>1
<1>3. CASE x = y
  BY <1>2, <1>3, <1>1
<1>4. CASE x >= y + 1
  <2>1. n * x >= n * (y + 1) /\ n * (y + 1) = n * y + n
    BY <1>1, <1>4
  <2> QED BY <1>1, <1>2, <2>1
<1>5. CASE y >= x + 1
  <2>1. n * y >= n * (x + 1) /\ n * (x + 1) = n * x + n
    BY <1>1, <1>5
  <2> QED BY <1>1, <1>2, <2>1
<1> QED
  BY <1>1, <1>3, <1>4, <1>5

(* The inductive invariant.  Calls in progress hold tickets of the current *)
(* window tail_ .. head_ - 1.                                              *)
Window ==
    /\ tail <= head /\ head <= tail + RING_CAPACITY
    /\ cpc \in {"release", "advance"} => tail < head /\ tail \in accepted
    /\ \A p \in Producers : ppc[p] # "idle" => tail <= ticket[p]

(* A valid slot holds an accepted message of the window, in its own slot.  *)
Entries ==
    /\ \A i \in Slots : valid[i] =>
           /\ text[i] \in accepted /\ tail <= text[i]
           /\ text[i] % RING_CAPACITY = i
    /\ \A p \in Producers :
           /\ ppc[p] # "latefill"
           /\ ppc[p] = "publish" => text[Slot(p)] = ticket[p]

(* The consumer has printed the messages below tail_, and the one at tail_ *)
(* between printing it and advancing.                                      *)
Consumed ==
    /\ dropped = 0
    /\ Len(printed) = tail + (IF cpc \in {"release", "advance"} THEN 1 ELSE 0)
    /\ \A k \in 1 .. Len(printed) : printed[k] = k - 1
    /\ cpc = "release" => valid[TailSlot]
    /\ cpc = "advance" => ~ valid[TailSlot]

RoomInv == Window /\ Entries /\ Consumed

(* In the window a ticket has its slot to itself: no two calls in progress *)
(* share one, none of their slots is valid, and the valid slot at tail_    *)
(* holds the message tail_.                                                *)
LEMMA OwnSlots ==
    ASSUME TypeOK, Tickets, RoomInv
    PROVE  /\ \A p, q \in Producers :
                  p # q /\ ppc[p] # "idle" /\ ppc[q] # "idle" => Slot(p) # Slot(q)
           /\ \A p \in Producers : ppc[p] # "idle" => Slot(p) \in Slots /\ ~ valid[Slot(p)]
           /\ TailSlot \in Slots
           /\ \A i \in Slots : valid[i] => (text[i] = tail <=> i = TailSlot)
<1> USE AsyncLoggerAssumption
<1>0. /\ RING_CAPACITY \in Nat \ {0} /\ tail \in Nat /\ head \in Nat
      /\ head <= tail + RING_CAPACITY
  BY DEF TypeOK, RoomInv, Window
<1>1. \A p \in Producers : ppc[p] # "idle" =>
          /\ ticket[p] \in Nat /\ tail <= ticket[p] /\ ticket[p] < head
          /\ ticket[p] \notin accepted
  BY DEF TypeOK, Tickets, RoomInv, Window
<1>2. \A i \in Slots : valid[i] =>
          /\ text[i] \in accepted /\ text[i] \in Nat /\ tail <= text[i] /\ text[i] < head
          /\ text[i] % RING_CAPACITY = i
  <2>1. \A m \in accepted : m \in Nat /\ m < head
    BY DEF TypeOK, Tickets
  <2> QED
    BY <2>1 DEF RoomInv, Entries
<1>3. \A x \in Nat : x % RING_CAPACITY \in Slots
  BY DEF Slots
<1>4. ASSUME NEW p \in Producers, NEW q \in Producers, p # q, ppc[p] # "idle", ppc[q] # "idle"
      PROVE  Slot(p) # Slot(q)
  <2>1. ticket[p] # ticket[q]
    BY <1>4 DEF Tickets
  <2>2. /\ ticket[p] \in Nat /\ tail <= ticket[p] /\ ticket[p] < tail + RING_CAPACITY
        /\ ticket[q] \in Nat /\ tail <= ticket[q] /\ ticket[q] < tail + RING_CAPACITY
    BY <1>0, <1>1, <1>4
  <2>3. ticket[p] % RING_CAPACITY # ticket[q] % RING_CAPACITY
    BY <1>0, <2>1, <2>2, SameResidue
  <2> QED
    BY <2>3 DEF Slot
<1>5. ASSUME NEW p \in Producers, ppc[p] # "idle"
      PROVE  Slot(p) \in Slots /\ ~ valid[Slot(p)]
  <2>1. Slot(p) \in Slots
    BY <1>1, <1>3, <1>5 DEF Slot
  <2>2. ASSUME valid[Slot(p)] PROVE FALSE
    <3>1. /\ text[Slot(p)] \in accepted /\ text[Slot(p)] \in Nat /\ tail <= text[Slot(p)]
          /\ text[Slot(p)] < tail + RING_CAPACITY
          /\ text[Slot(p)] % RING_CAPACITY = ticket[p] % RING_CAPACITY
      <4>1. text[Slot(p)] % RING_CAPACITY = Slot(p)
        BY <1>2, <2>1, <2>2
      <4>2. text[Slot(p)] % RING_CAPACITY = ticket[p] % RING_CAPACITY
        BY <4>1 DEF Slot
      <4> QED
        BY <1>0, <1>2, <2>1, <2>2, <4>2
    <3>2. ticket[p] \in Nat /\ tail <= ticket[p] /\ ticket[p] < tail + RING_CAPACITY
      BY <1>0, <1>1, <1>5
    <3>3. text[Slot(p)] = ticket[p]
      BY <1>0, <3>1, <3>2, SameResidue
    <3> QED
      BY <1>1, <1>5, <3>1, <3>3
  <2> QED
    BY <2>1, <2>2
<1>6. TailSlot \in Slots
  BY <1>0, <1>3 DEF TailSlot
<1>7. ASSUME NEW i \in Slots, valid[i] PROVE text[i] = tail <=> i = TailSlot
  <2>1. /\ text[i] \in Nat /\ tail <= text[i] /\ text[i] < tail + RING_CAPACITY
        /\ text[i] % RING_CAPACITY = i
    BY <1>0, <1>2, <1>7
  <2>2. ASSUME i = TailSlot PROVE text[i] = tail
    <3>1. text[i] % RING_CAPACITY = tail % RING_CAPACITY
      BY <2>1, <2>2 DEF TailSlot
    <3>2. tail <= tail /\ tail < tail + RING_CAPACITY
      BY <1>0
    <3> QED
      BY <1>0, <2>1, <3>1, <3>2, SameResidue
  <2>3. ASSUME text[i] = tail PROVE i = TailSlot
    BY <2>1, <2>3 DEF TailSlot
  <2> QED
    BY <2>2, <2>3
<1> QED
  BY <1>4, <1>5, <1>6, <1>7

(* Every step without a mishap preserves the invariant.                    *)
LEMMA RoomStep ==
    ASSUME TypeOK, Tickets, Control, RoomInv, TypeOK', Tickets', NoOverrun', [Next]_vars
    PROVE  RoomInv'
<1> USE AsyncLoggerAssumption DEF PGoTo, CGoTo, producer, consumer, owner
<1>0. Window /\ Entries /\ Consumed
  BY DEF RoomInv
<1>s. /\ \A p, q \in Producers :
             p # q /\ ppc[p] # "idle" /\ ppc[q] # "idle" => Slot(p) # Slot(q)
      /\ \A p \in Producers : ppc[p] # "idle" => Slot(p) \in Slots /\ ~ valid[Slot(p)]
      /\ TailSlot \in Slots
      /\ \A i \in Slots : valid[i] => (text[i] = tail <=> i = TailSlot)
  BY OwnSlots
<1>1. ASSUME NEW p \in Producers, Claim(p) PROVE RoomInv'
  <2>1. head - tail < RING_CAPACITY
    <3>1. ASSUME head - tail >= RING_CAPACITY PROVE "overrun" \in mishaps'
      BY <1>1, <3>1 DEF Claim, Mishap
    <3>2. "overrun" \notin mishaps'
      BY DEF NoOverrun
    <3> QED
      BY <3>1, <3>2 DEF TypeOK
  <2>2. /\ UNCHANGED <<valid, text, tail, dropped, accepted, cpc, printed>>
        /\ head' = head + 1 /\ ticket'[p] = head
        /\ \A q \in Producers : q # p => ppc'[q] = ppc[q] /\ ticket'[q] = ticket[q]
        /\ ppc'[p] = "check"
    BY <1>1 DEF Claim, TypeOK
  <2>3. Window'
    BY <1>0, <2>1, <2>2 DEF Window, TypeOK
  <2>4. Entries'
    BY <1>0, <2>2 DEF Entries, Slot
  <2>5. Consumed'
    BY <1>0, <2>2 DEF Consumed, TailSlot
  <2> QED
    BY <2>3, <2>4, <2>5 DEF RoomInv
<1>2. ASSUME NEW p \in Producers, Drop(p) PROVE FALSE
  BY <1>s, <1>2 DEF Drop
<1>3. ASSUME NEW p \in Producers, FindFree(p) PROVE RoomInv'
  <2>1. /\ UNCHANGED <<valid, text, head, tail, dropped, accepted, ticket, cpc, printed>>
        /\ \A q \in Producers : q # p => ppc'[q] = ppc[q]
        /\ ppc[p] # "idle" /\ ppc'[p] = "fill"
    BY <1>3 DEF FindFree, TypeOK
  <2>2. Window'
    BY <1>0, <2>1 DEF Window
  <2>3. Entries'
    BY <1>0, <2>1 DEF Entries, Slot
  <2>4. Consumed'
    BY <1>0, <2>1 DEF Consumed, TailSlot
  <2> QED
    BY <2>2, <2>3, <2>4 DEF RoomInv
<1>4. ASSUME NEW p \in Producers, Fill(p) PROVE RoomInv'
  <2>1. /\ UNCHANGED <<valid, head, tail, dropped, accepted, ticket, cpc, printed>>
        /\ \A q \in Producers : q # p => ppc'[q] = ppc[q]
        /\ ppc[p] # "idle" /\ ppc'[p] = "publish"
        /\ text' = [text EXCEPT ![Slot(p)] = ticket[p]]
    BY <1>4 DEF Fill, TypeOK
  <2>2. Slot(p) \in Slots /\ ~ valid[Slot(p)] /\ \A q \in Producers : Slot(q)' = Slot(q)
    BY <1>s, <2>1 DEF Slot
  <2>3. /\ \A i \in Slots : i # Slot(p) => text'[i] = text[i]
        /\ text'[Slot(p)] = ticket[p]
    BY <2>1, <2>2 DEF TypeOK
  <2>4. Window'
    BY <1>0, <2>1 DEF Window
  <2>5. Entries'
    <3>1. \A i \in Slots : valid'[i] => valid[i] /\ text'[i] = text[i]
      BY <2>1, <2>2, <2>3
    <3>2. \A q \in Producers : ppc'[q] = "publish" => text'[Slot(q)] = ticket[q]
      <4> SUFFICES ASSUME NEW q \in Producers, ppc'[q] = "publish", q # p
                   PROVE  text'[Slot(q)] = ticket[q]
        BY <2>3
      <4>1. ppc[q] = "publish" /\ Slot(q) # Slot(p) /\ Slot(q) \in Slots
        BY <1>s, <2>1
      <4> QED
        BY <1>0, <2>3, <4>1 DEF Entries
    <3> QED
      BY <1>0, <2>1, <2>2, <3>1, <3>2 DEF Entries
  <2>6. Consumed'
    BY <1>0, <2>1 DEF Consumed, TailSlot
  <2> QED
    BY <2>4, <2>5, <2>6 DEF RoomInv
<1>5. ASSUME NEW p \in Producers, Publish(p) PROVE RoomInv'
  <2>1. /\ UNCHANGED <<text, head, tail, dropped, ticket, cpc, printed>>
        /\ \A q \in Producers : q # p => ppc'[q] = ppc[q]
        /\ ppc[p] = "publish" /\ ppc'[p] = "idle"
        /\ valid' = [valid EXCEPT ![Slot(p)] = TRUE]
        /\ accepted' = accepted \union {ticket[p]}
    BY <1>5 DEF Publish, TypeOK
  <2>2. /\ Slot(p) \in Slots /\ ~ valid[Slot(p)] /\ \A q \in Producers : Slot(q)' = Slot(q)
        /\ TailSlot' = TailSlot
    BY <1>s, <2>1 DEF Slot, TailSlot
  <2>3. text[Slot(p)] = ticket[p] /\ tail <= ticket[p]
    BY <1>0, <2>1 DEF Entries, Window
  <2>4. Window'
    BY <1>0, <2>1 DEF Window
  <2>5. Entries'
    <3>1. ASSUME NEW i \in Slots, valid'[i]
          PROVE  /\ text'[i] \in accepted' /\ tail' <= text'[i]
                 /\ text'[i] % RING_CAPACITY = i
      <4>1. CASE i = Slot(p)
        BY <2>1, <2>3, <4>1 DEF Slot
      <4>2. CASE i # Slot(p)
        BY <1>0, <2>1, <3>1, <4>2 DEF Entries, TypeOK
      <4> QED
        BY <4>1, <4>2
    <3> QED
      BY <1>0, <2>1, <2>2, <3>1 DEF Entries
  <2>6. Consumed'
    <3>1. cpc = "release" => valid'[TailSlot]
      BY <1>0, <1>s, <2>1, <2>2 DEF Consumed, TypeOK
    <3>2. ASSUME cpc = "advance" PROVE Slot(p) # TailSlot
      <4>1. tail \in accepted /\ ticket[p] \notin accepted
        BY <1>0, <2>1, <3>2 DEF Window, Tickets
      <4>2. tail % RING_CAPACITY # ticket[p] % RING_CAPACITY
        <5>1. /\ ticket[p] \in Nat /\ tail \in Nat /\ RING_CAPACITY \in Nat \ {0}
              /\ ticket[p] < tail + RING_CAPACITY /\ tail < tail + RING_CAPACITY
          BY <1>0, <2>1 DEF Window, Tickets, TypeOK
        <5> QED
          BY <2>3, <4>1, <5>1, SameResidue
      <4> QED
        BY <4>2 DEF Slot, TailSlot
    <3>3. cpc = "advance" => ~ valid'[TailSlot]
      BY <1>0, <1>s, <2>1, <3>2 DEF Consumed, TypeOK
    <3> QED
      BY <1>0, <2>1, <2>2, <3>1, <3>3 DEF Consumed
  <2> QED
    BY <2>4, <2>5, <2>6 DEF RoomInv
<1>6. ASSUME NEW p \in Producers, PublishEarly(p) \/ FillLate(p) PROVE FALSE
  <2>1. CASE PublishEarly(p)
    <3>1. "early" \in mishaps'
      BY <2>1 DEF PublishEarly, Mishap
    <3> QED
      BY <3>1 DEF NoOverrun
  <2>2. CASE FillLate(p)
    BY <1>0, <2>2 DEF FillLate, Entries
  <2> QED
    BY <1>6, <2>1, <2>2
<1>7. CASE LoopTest \/ HasPending \/ NothingPending \/ Sleep \/ Start \/ Stop \/ Join
  <2>1. /\ UNCHANGED <<valid, text, head, tail, dropped, accepted, ticket, ppc, printed>>
        /\ cpc \in {"release", "advance"} => cpc' = cpc
        /\ cpc' \in {"release", "advance"} => cpc' = cpc
    <3>1. CASE LoopTest \/ HasPending \/ NothingPending \/ Sleep
      BY <3>1 DEF LoopTest, HasPending, NothingPending, Sleep
    <3>2. CASE Start \/ Stop \/ Join
      BY <3>2 DEF Start, Stop, Join, Control
    <3> QED
      BY <1>7, <3>1, <3>2
  <2>2. Window'
    BY <1>0, <2>1 DEF Window
  <2>3. Entries'
    BY <1>0, <2>1 DEF Entries, Slot
  <2>4. Consumed'
    BY <1>0, <2>1 DEF Consumed, TailSlot
  <2> QED
    BY <2>2, <2>3, <2>4 DEF RoomInv
<1>8. CASE PrintEntry
  <2>1. /\ UNCHANGED <<valid, text, head, tail, dropped, accepted, ticket, ppc>>
        /\ cpc = "tail" /\ cpc' = "release" /\ valid[TailSlot]
        /\ printed' = Append(printed, text[TailSlot])
    BY <1>8 DEF PrintEntry
  <2>2. text[TailSlot] = tail /\ tail \in accepted
    BY <1>0, <1>s, <2>1 DEF Entries
  <2>3. tail < head
    BY <2>2 DEF Tickets
  <2>4. Window'
    BY <1>0, <2>1, <2>2, <2>3 DEF Window
  <2>5. Entries'
    BY <1>0, <2>1 DEF Entries, Slot
  <2>6. Consumed'
    <3>1. /\ Len(printed') = Len(printed) + 1 /\ printed'[Len(printed) + 1] = tail
          /\ \A k \in 1 .. Len(printed) : printed'[k] = printed[k]
      BY <2>1, <2>2 DEF TypeOK
    <3>2. Len(printed) = tail /\ \A k \in 1 .. Len(printed) : printed[k] = k - 1
      BY <1>0, <2>1 DEF Consumed, TypeOK
    <3>3. \A k \in 1 .. Len(printed') : printed'[k] = k - 1
      BY <3>1, <3>2 DEF TypeOK
    <3> QED
      BY <1>0, <2>1, <3>1, <3>2, <3>3 DEF Consumed, TailSlot
  <2> QED
    BY <2>4, <2>5, <2>6 DEF RoomInv
<1>9. CASE Release
  <2>1. /\ UNCHANGED <<text, head, tail, dropped, accepted, ticket, ppc, printed>>
        /\ cpc = "release" /\ cpc' = "advance"
        /\ valid' = [valid EXCEPT ![TailSlot] = FALSE]
    BY <1>9 DEF Release
  <2>2. \A i \in Slots : valid'[i] <=> valid[i] /\ i # TailSlot
    BY <1>s, <2>1 DEF TypeOK
  <2>3. Window'
    BY <1>0, <2>1 DEF Window
  <2>4. Entries'
    BY <1>0, <2>1, <2>2 DEF Entries, Slot
  <2>5. Consumed'
    BY <1>0, <1>s, <2>1, <2>2 DEF Consumed, TailSlot
  <2> QED
    BY <2>3, <2>4, <2>5 DEF RoomInv
<1>10. CASE Advance
  <2>1. /\ UNCHANGED <<valid, text, head, dropped, accepted, ticket, ppc, printed>>
        /\ cpc = "advance" /\ cpc' = "while" /\ tail' = tail + 1
    BY <1>10 DEF Advance
  <2>2. tail < head /\ tail \in accepted /\ ~ valid[TailSlot]
    BY <1>0, <2>1 DEF Window, Consumed
  <2>3. Window'
    BY <1>0, <2>1, <2>2 DEF Window, Tickets, TypeOK
  <2>4. Entries'
    <3>1. ASSUME NEW i \in Slots, valid[i] PROVE tail + 1 <= text[i]
      <4>1. text[i] # tail /\ text[i] \in accepted /\ tail <= text[i]
        BY <1>0, <1>s, <2>2, <3>1 DEF Entries
      <4>2. tail \in Int /\ \A m \in accepted : m \in Int
        BY DEF TypeOK
      <4>3. text[i] \in Int
        BY <4>1, <4>2
      <4> QED
        BY <4>1, <4>2, <4>3
    <3> QED
      BY <1>0, <2>1, <3>1 DEF Entries, Slot
  <2>5. Consumed'
    BY <1>0, <2>1 DEF Consumed, TypeOK
  <2> QED
    BY <2>3, <2>4, <2>5 DEF RoomInv
<1>11. CASE UNCHANGED vars
  <2>1. Window'
    BY <1>0, <1>11 DEF vars, Window
  <2>2. Entries'
    BY <1>0, <1>11 DEF vars, Entries, Slot
  <2>3. Consumed'
    BY <1>0, <1>11 DEF vars, Consumed, TailSlot
  <2> QED
    BY <2>1, <2>2, <2>3 DEF RoomInv
<1> QED
  BY <1>1, <1>2, <1>3, <1>4, <1>5, <1>6, <1>7, <1>8, <1>9, <1>10, <1>11
     DEF Next, LogStep, ConsumeStep, Done

(* The invariant holds until the first overrun or reordered store.         *)
LEMMA RoomInvariant == Spec => [](NoOverrun => RoomInv)
<1>1. Init => RoomInv
  BY AsyncLoggerAssumption DEF Init, RoomInv, Window, Entries, Consumed
<1>2. /\ TypeOK /\ Tickets /\ Control /\ TypeOK' /\ Tickets'
      /\ (NoOverrun => RoomInv) /\ [Next]_vars
      => (NoOverrun => RoomInv)'
  <2> SUFFICES ASSUME TypeOK, Tickets, Control, TypeOK', Tickets', NoOverrun => RoomInv,
                      [Next]_vars, NoOverrun'
               PROVE  RoomInv'
    OBVIOUS
  <2>1. NoOverrun
    BY MishapsGrow DEF NoOverrun
  <2> QED
    BY <2>1, RoomStep
<1> QED
  BY <1>1, <1>2, TypeCorrect, ControlCorrect, PTL DEF Spec

(* Until a call claims a ticket a whole ring ahead of tail_, log owns the  *)
(* slot it fills without a lock (line 94), for any number of producers and *)
(* turns of the ring.                                                      *)
THEOREM OwnershipUntilOverrun == Spec => []OwnedUntilOverrun
<1>1. TypeOK /\ Tickets /\ (NoOverrun => RoomInv) => OwnedUntilOverrun
  <2> SUFFICES ASSUME TypeOK, Tickets, RoomInv PROVE SlotOwnership
    BY DEF OwnedUntilOverrun
  <2> QED
    BY OwnSlots DEF SlotOwnership, Writing
<1> QED
  BY <1>1, TypeCorrect, RoomInvariant, PTL

(* Until then the output is exactly the sequence of the messages logged:   *)
(* complete, each once, in the order of their claims, and none dropped.    *)
THEOREM OrderUntilOverrun == Spec => []PrintedInClaimOrder
<1>1. TypeOK /\ (NoOverrun => RoomInv) => PrintedInClaimOrder
  <2> SUFFICES ASSUME TypeOK, RoomInv, NoOverrun
               PROVE  (\A i \in DOMAIN printed : printed[i] = i - 1) /\ dropped = 0
    BY DEF PrintedInClaimOrder
  <2>1. DOMAIN printed = 1 .. Len(printed)
    BY DEF TypeOK
  <2> QED
    BY <2>1 DEF RoomInv, Consumed
<1> QED
  BY <1>1, TypeCorrect, RoomInvariant, PTL
-----------------------------------------------------------------------------
(* Overruns allowed.  Unless two calls share a slot, a call that found its *)
(* slot free keeps it free, and fills it with its own text, until it sets  *)
(* valid itself; the consumer clears only a flag it has seen set.          *)
Exclusive ==
    /\ SlotOwnership
    /\ \A p \in Producers :
           /\ ppc[p] # "latefill"
           /\ ppc[p] = "publish" => text[Slot(p)] = ticket[p]
    /\ cpc = "release" => valid[TailSlot]

(* After stop, no slot that has_pending has passed holds a message that is *)
(* due: a slot filled behind it holds a later one.                         *)
Draining ==
    /\ Flushed
    /\ cpc = "scan" => \A i \in Slots : i < scan /\ valid[i] => text[i] \notin due
    /\ cpc = "exit" => \A i \in Slots : valid[i] => text[i] \notin due

KeptInv == Exclusive /\ Conserved /\ Draining

(* What does not touch the output or the entries in the ring keeps them.   *)
LEMMA SameRing ==
    ASSUME Conserved, InRing' = InRing, \A i \in InRing : text'[i] = text[i],
           UNCHANGED <<printed, accepted>>
    PROVE  Conserved'
<1>1. Printed' = Printed
  BY DEF Printed
<1>2. {text'[i] : i \in InRing} = {text[i] : i \in InRing}
  OBVIOUS
<1> QED
  BY <1>1, <1>2 DEF Conserved

(* Every step without a shared slot preserves the invariant.               *)
LEMMA KeptStep ==
    ASSUME TypeOK, Tickets, Control, KeptInv, TypeOK', Intact', [Next]_vars
    PROVE  KeptInv'
<1> USE DEF PGoTo, CGoTo, producer, consumer, owner
<1>0. Exclusive /\ Conserved /\ Draining
  BY DEF KeptInv
<1>s. TailSlot \in Slots /\ \A p \in Producers : Slot(p) \in Slots
  BY AsyncLoggerAssumption DEF TypeOK, TailSlot, Slot, Slots
<1>1. ASSUME NEW p \in Producers, Claim(p) \/ Drop(p) PROVE KeptInv'
  <2>1. /\ UNCHANGED <<valid, text, tail, accepted, cpc, scan, mpc, printed, due>>
        /\ \A q \in Producers : q # p => ppc'[q] = ppc[q] /\ ticket'[q] = ticket[q]
        /\ ppc'[p] \in {"check", "idle"}
    BY <1>1 DEF Claim, Drop, TypeOK
  <2>2. \A q \in Producers : q # p => Slot(q)' = Slot(q)
    BY <2>1 DEF Slot
  <2>3. TailSlot' = TailSlot /\ InRing' = InRing
    BY <2>1 DEF TailSlot, InRing
  <2>4. Exclusive'
    BY <1>0, <2>1, <2>2, <2>3 DEF Exclusive, SlotOwnership, Writing
  <2>5. Conserved'
    BY <1>0, <2>1, <2>3, SameRing
  <2>6. Draining'
    BY <1>0, <2>1 DEF Draining, Flushed, Printed
  <2> QED
    BY <2>4, <2>5, <2>6 DEF KeptInv
<1>2. ASSUME NEW p \in Producers, FindFree(p) PROVE KeptInv'
  <2>1. /\ UNCHANGED <<valid, text, tail, ticket, accepted, cpc, scan, mpc, printed, due>>
        /\ \A q \in Producers : q # p => ppc'[q] = ppc[q]
        /\ ppc'[p] = "fill" /\ ~ valid[Slot(p)]
    BY <1>2 DEF FindFree, TypeOK
  <2>2. /\ TailSlot' = TailSlot /\ InRing' = InRing
        /\ \A q \in Producers : Slot(q)' = Slot(q)
    BY <2>1 DEF TailSlot, InRing, Slot
  <2>3. ~ SharesSlot(p)
    <3>1. SharesSlot(p) => "shared" \in mishaps'
      BY <1>2 DEF FindFree, Mishap
    <3> QED
      BY <3>1 DEF Intact
  <2>4. SlotOwnership'
    <3>1. ASSUME NEW q \in Producers, NEW r \in Producers, q # r, Writing(q)', Writing(r)'
          PROVE  Slot(q)' # Slot(r)'
      <4>1. CASE q # p /\ r # p
        BY <1>0, <2>1, <2>2, <3>1, <4>1 DEF Exclusive, SlotOwnership, Writing
      <4>2. CASE q = p
        BY <2>1, <2>2, <2>3, <3>1, <4>2 DEF SharesSlot, Writing
      <4>3. CASE r = p
        BY <2>1, <2>2, <2>3, <3>1, <4>3 DEF SharesSlot, Writing
      <4> QED
        BY <4>1, <4>2, <4>3
    <3>2. ASSUME NEW q \in Producers, Writing(q)', ppc'[q] # "latefill" PROVE ~ valid'[Slot(q)']
      <4>1. CASE q = p
        BY <2>1, <2>2, <4>1
      <4>2. CASE q # p
        BY <1>0, <2>1, <2>2, <3>2, <4>2 DEF Exclusive, SlotOwnership, Writing
      <4> QED
        BY <4>1, <4>2
    <3> QED
      BY <3>1, <3>2 DEF SlotOwnership
  <2>5. Exclusive'
    BY <1>0, <2>1, <2>2, <2>4 DEF Exclusive
  <2>6. Conserved'
    BY <1>0, <2>1, <2>2, SameRing
  <2>7. Draining'
    BY <1>0, <2>1 DEF Draining, Flushed, Printed
  <2> QED
    BY <2>5, <2>6, <2>7 DEF KeptInv
<1>3. ASSUME NEW p \in Producers, Fill(p) PROVE KeptInv'
  <2>1. /\ UNCHANGED <<valid, tail, ticket, accepted, cpc, scan, mpc, printed, due>>
        /\ \A q \in Producers : q # p => ppc'[q] = ppc[q]
        /\ ppc[p] = "fill" /\ ppc'[p] = "publish"
        /\ text' = [text EXCEPT ![Slot(p)] = ticket[p]]
    BY <1>3 DEF Fill, TypeOK
  <2>2. /\ TailSlot' = TailSlot /\ InRing' = InRing
        /\ \A q \in Producers : Slot(q)' = Slot(q)
    BY <2>1 DEF TailSlot, InRing, Slot
  <2>3. ~ valid[Slot(p)]
    BY <1>0, <2>1 DEF Exclusive, SlotOwnership, Writing
  <2>4. /\ \A i \in Slots : i # Slot(p) => text'[i] = text[i]
        /\ text'[Slot(p)] = ticket[p]
    BY <1>s, <2>1 DEF TypeOK
  <2>5. SlotOwnership'
    BY <1>0, <2>1, <2>2 DEF Exclusive, SlotOwnership, Writing
  <2>6. \A q \in Producers : ppc'[q] = "publish" => text'[Slot(q)] = ticket[q]
    <3> SUFFICES ASSUME NEW q \in Producers, ppc'[q] = "publish", q # p
                 PROVE  text'[Slot(q)] = ticket[q]
      BY <2>4
    <3>1. ppc[q] = "publish" /\ Slot(q) # Slot(p) /\ Slot(q) \in Slots
      BY <1>0, <1>s, <2>1 DEF Exclusive, SlotOwnership, Writing
    <3> QED
      BY <1>0, <2>4, <3>1 DEF Exclusive
  <2>7. Exclusive'
    BY <1>0, <2>1, <2>2, <2>5, <2>6 DEF Exclusive
  <2>8. \A i \in Slots : valid[i] => text'[i] = text[i]
    BY <2>3, <2>4
  <2>9. Conserved'
    BY <1>0, <2>1, <2>2, <2>8, SameRing DEF InRing
  <2>10. Draining'
    BY <1>0, <2>1, <2>8 DEF Draining, Flushed, Printed
  <2> QED
    BY <2>7, <2>9, <2>10 DEF KeptInv
<1>4. ASSUME NEW p \in Producers, Publish(p) PROVE KeptInv'
  <2>1. /\ UNCHANGED <<text, tail, ticket, cpc, scan, mpc, printed, due>>
        /\ \A q \in Producers : q # p => ppc'[q] = ppc[q]
        /\ ppc[p] = "publish" /\ ppc'[p] = "idle"
        /\ valid' = [valid EXCEPT ![Slot(p)] = TRUE]
        /\ accepted' = accepted \union {ticket[p]}
    BY <1>4 DEF Publish, TypeOK
  <2>2. TailSlot' = TailSlot /\ \A q \in Producers : Slot(q)' = Slot(q)
    BY <2>1 DEF TailSlot, Slot
  <2>3. /\ ~ valid[Slot(p)] /\ text[Slot(p)] = ticket[p]
        /\ ticket[p] \notin accepted /\ ticket[p] \notin due
    BY <1>0, <2>1 DEF Exclusive, SlotOwnership, Writing, Tickets, TypeOK
  <2>4. \A i \in Slots : valid'[i] <=> valid[i] \/ i = Slot(p)
    BY <1>s, <2>1 DEF TypeOK
  <2>5. SlotOwnership'
    <3>1. \A q \in Producers : Writing(q)' => Writing(q) /\ q # p /\ Slot(q) # Slot(p)
      BY <1>0, <2>1 DEF Exclusive, SlotOwnership, Writing
    <3> QED
      BY <1>0, <1>s, <2>1, <2>2, <2>4, <3>1 DEF Exclusive, SlotOwnership
  <2>6. Exclusive'
    BY <1>0, <1>s, <2>1, <2>2, <2>4, <2>5 DEF Exclusive
  <2>7. Conserved'
    <3>1. cpc = "release" => TailSlot # Slot(p)
      BY <1>0, <2>3 DEF Exclusive
    <3>2. InRing' = InRing \union {Slot(p)} /\ Slot(p) \notin InRing
      BY <1>s, <2>1, <2>2, <2>3, <2>4, <3>1 DEF InRing
    <3>3. Printed' = Printed
      BY <2>1 DEF Printed
    <3>4. accepted = Printed \union {text[i] : i \in InRing}
      BY <1>0 DEF Conserved
    <3>5. /\ {text'[i] : i \in InRing'} = {text[i] : i \in InRing} \union {ticket[p]}
          /\ ticket[p] \notin Printed /\ \A i \in InRing : text[i] # ticket[p]
      BY <2>1, <2>3, <3>2, <3>4
    <3>6. accepted' = Printed' \union {text'[i] : i \in InRing'}
      BY <2>1, <3>3, <3>4, <3>5
    <3>7. \A i \in InRing' : text'[i] \notin Printed'
      BY <1>0, <2>1, <2>3, <3>2, <3>3, <3>5 DEF Conserved
    <3>8. \A i, j \in InRing' : text'[i] = text'[j] => i = j
      BY <1>0, <2>1, <2>3, <3>2, <3>5 DEF Conserved
    <3> QED
      BY <1>0, <2>1, <3>6, <3>7, <3>8 DEF Conserved
  <2>8. Draining'
    <3>1. \A i \in Slots : valid'[i] /\ text[i] \in due => valid[i]
      BY <2>3, <2>4
    <3> QED
      BY <1>0, <2>1, <3>1 DEF Draining, Flushed, Printed
  <2> QED
    BY <2>6, <2>7, <2>8 DEF KeptInv
<1>5. ASSUME NEW p \in Producers, PublishEarly(p) \/ FillLate(p) PROVE FALSE
  <2>1. CASE PublishEarly(p)
    <3>1. "early" \in mishaps'
      BY <2>1 DEF PublishEarly, Mishap
    <3> QED
      BY <3>1 DEF Intact
  <2>2. CASE FillLate(p)
    BY <1>0, <2>2 DEF FillLate, Exclusive
  <2> QED
    BY <1>5, <2>1, <2>2
<1>6. ASSUME UNCHANGED <<valid, text, ticket, accepted, ppc, printed>>,
             cpc' = "release" <=> cpc = "release", cpc = "release" => tail' = tail
      PROVE  Exclusive' /\ Conserved'
  <2>1. cpc = "release" => TailSlot' = TailSlot
    BY <1>6 DEF TailSlot
  <2>2. InRing' = InRing
    BY <1>6, <2>1 DEF InRing
  <2>3. Conserved'
    BY <1>0, <1>6, <2>2, SameRing
  <2>4. Exclusive'
    BY <1>0, <1>6, <2>1 DEF Exclusive, SlotOwnership, Writing, Slot
  <2> QED
    BY <2>3, <2>4
<1>7. CASE LoopTest \/ HasPending \/ NothingPending \/ Sleep \/ Advance
  <2>1. /\ UNCHANGED <<valid, text, ticket, accepted, ppc, printed, mpc, due>>
        /\ cpc' = "release" <=> cpc = "release"
        /\ cpc = "release" => tail' = tail
    BY <1>7 DEF LoopTest, HasPending, NothingPending, Sleep, Advance
  <2>2. Exclusive' /\ Conserved'
    BY <1>6, <2>1
  <2>3. /\ cpc' = "scan" => \A i \in Slots : i < scan' /\ valid[i] => text[i] \notin due
        /\ cpc' = "exit" => \A i \in Slots : valid[i] => text[i] \notin due
    <3>1. CASE LoopTest
      BY <3>1 DEF LoopTest, Slots
    <3>2. CASE HasPending
      BY <1>0, <3>2 DEF HasPending, Draining, Slots, TypeOK
    <3>3. CASE NothingPending
      BY <1>0, <3>3, AsyncLoggerAssumption DEF NothingPending, Draining, Slots
    <3>4. CASE Sleep \/ Advance
      BY <3>4 DEF Sleep, Advance
    <3> QED
      BY <1>7, <3>1, <3>2, <3>3, <3>4
  <2>4. Draining'
    BY <1>0, <2>1, <2>3 DEF Draining, Flushed, Printed
  <2> QED
    BY <2>2, <2>4 DEF KeptInv
<1>8. CASE Start \/ Stop \/ Join
  <2>1. /\ UNCHANGED <<valid, text, ticket, accepted, ppc, printed>>
        /\ cpc' = "release" <=> cpc = "release"
        /\ cpc = "release" => tail' = tail
    BY <1>8 DEF Start, Stop, Join, Control
  <2>2. Exclusive' /\ Conserved'
    BY <1>6, <2>1
  <2>3. ASSUME Start PROVE Draining'
    BY <2>3 DEF Start, Draining, Flushed
  <2>4. ASSUME Stop PROVE Draining'
    BY <2>4 DEF Stop, Draining, Flushed, Control
  <2>5. ASSUME Join PROVE Draining'
    <3>1. /\ cpc = "exit" /\ cpc' = "none" /\ due' = due /\ printed' = printed
      BY <2>5 DEF Join
    <3>2. \A i \in InRing : text[i] \notin due
      BY <1>0, <3>1 DEF Draining, InRing
    <3>3. due \subseteq Printed
      <4>1. due \subseteq accepted /\ accepted = Printed \union {text[i] : i \in InRing}
        BY <1>0 DEF Conserved, TypeOK
      <4> QED
        BY <3>2, <4>1
    <3> QED
      BY <3>1, <3>3 DEF Draining, Flushed, Printed
  <2> QED
    BY <1>8, <2>2, <2>3, <2>4, <2>5 DEF KeptInv
<1>9. CASE PrintEntry
  <2>1. /\ UNCHANGED <<valid, text, tail, ticket, accepted, ppc, mpc, due>>
        /\ cpc = "tail" /\ cpc' = "release" /\ valid[TailSlot]
        /\ printed' = Append(printed, text[TailSlot])
    BY <1>9 DEF PrintEntry
  <2>2. TailSlot' = TailSlot
    BY <2>1 DEF TailSlot
  <2>3. Exclusive'
    BY <1>0, <2>1, <2>2 DEF Exclusive, SlotOwnership, Writing, Slot
  <2>4. /\ Len(printed') = Len(printed) + 1 /\ printed'[Len(printed) + 1] = text[TailSlot]
        /\ \A k \in 1 .. Len(printed) : printed'[k] = printed[k]
        /\ Len(printed) \in Nat
        /\ DOMAIN printed = 1 .. Len(printed) /\ DOMAIN printed' = 1 .. Len(printed) + 1
    BY <1>s, <2>1 DEF TypeOK
  <2>5. Printed' = Printed \union {text[TailSlot]}
    <3>1. DOMAIN printed' = DOMAIN printed \union {Len(printed) + 1}
      BY <2>4
    <3> QED
      BY <2>4, <3>1 DEF Printed
  <2>6. InRing' = InRing \ {TailSlot} /\ TailSlot \in InRing
    BY <1>s, <2>1, <2>2 DEF InRing
  <2>7. Conserved'
    <3>1. accepted = Printed \union {text[i] : i \in InRing}
      BY <1>0 DEF Conserved
    <3>2. accepted' = Printed' \union {text'[i] : i \in InRing'}
      BY <2>1, <2>5, <2>6, <3>1
    <3>3. \A i \in InRing' : text'[i] \notin Printed'
      BY <1>0, <2>1, <2>5, <2>6 DEF Conserved
    <3>4. \A i, j \in InRing' : text'[i] = text'[j] => i = j
      BY <1>0, <2>1, <2>6 DEF Conserved
    <3>5. \A k \in 1 .. Len(printed) : printed[k] # text[TailSlot]
      BY <1>0, <2>4, <2>6 DEF Conserved, Printed
    <3>6. ASSUME NEW i \in DOMAIN printed', NEW j \in DOMAIN printed', printed'[i] = printed'[j]
          PROVE  i = j
      <4>1. CASE i \in 1 .. Len(printed) /\ j \in 1 .. Len(printed)
        BY <1>0, <2>4, <3>6, <4>1 DEF Conserved
      <4>2. CASE i \notin 1 .. Len(printed) \/ j \notin 1 .. Len(printed)
        <5>1. i = Len(printed) + 1 \/ j = Len(printed) + 1
          BY <2>4, <4>2
        <5>2. i \in 1 .. Len(printed) \/ i = Len(printed) + 1
          BY <2>4
        <5>3. j \in 1 .. Len(printed) \/ j = Len(printed) + 1
          BY <2>4
        <5> QED
          BY <2>4, <3>5, <3>6, <5>1, <5>2, <5>3
      <4> QED
        BY <4>1, <4>2
    <3> QED
      BY <3>2, <3>3, <3>4, <3>6 DEF Conserved
  <2>8. Draining'
    BY <1>0, <2>1, <2>5 DEF Draining, Flushed
  <2> QED
    BY <2>3, <2>7, <2>8 DEF KeptInv
<1>10. CASE Release
  <2>1. /\ UNCHANGED <<text, tail, ticket, accepted, ppc, mpc, due, printed>>
        /\ cpc = "release" /\ cpc' = "advance"
        /\ valid' = [valid EXCEPT ![TailSlot] = FALSE]
    BY <1>10 DEF Release
  <2>2. \A i \in Slots : valid'[i] <=> valid[i] /\ i # TailSlot
    BY <1>s, <2>1 DEF TypeOK
  <2>3. InRing' = InRing
    BY <2>1, <2>2 DEF InRing
  <2>4. Exclusive'
    BY <1>0, <1>s, <2>1, <2>2 DEF Exclusive, SlotOwnership, Writing, Slot
  <2>5. Conserved'
    BY <1>0, <2>1, <2>3, SameRing
  <2>6. Draining'
    BY <1>0, <2>1 DEF Draining, Flushed, Printed
  <2> QED
    BY <2>4, <2>5, <2>6 DEF KeptInv
<1>11. CASE UNCHANGED vars
  <2>1. Exclusive' /\ Conserved'
    BY <1>6, <1>11 DEF vars
  <2>2. Draining'
    BY <1>0, <1>11 DEF vars, Draining, Flushed, Printed
  <2> QED
    BY <2>1, <2>2 DEF KeptInv
<1> QED
  BY <1>1, <1>2, <1>3, <1>4, <1>5, <1>7, <1>8, <1>9, <1>10, <1>11
     DEF Next, LogStep, ConsumeStep, Done

(* The invariant holds until two calls share a slot or a store is          *)
(* reordered.                                                              *)
LEMMA KeptInvariant == Spec => [](Intact => KeptInv)
<1>1. Init => KeptInv
  <2> SUFFICES ASSUME Init PROVE KeptInv
    OBVIOUS
  <2>1. InRing = {} /\ Printed = {} /\ DOMAIN printed = {}
    BY DEF Init, InRing, Printed
  <2>2. Conserved
    BY <2>1 DEF Init, Conserved
  <2> QED
    BY <2>2 DEF Init, KeptInv, Exclusive, SlotOwnership, Writing, Draining, Flushed
<1>2. /\ TypeOK /\ Tickets /\ Control /\ TypeOK' /\ (Intact => KeptInv) /\ [Next]_vars
      => (Intact => KeptInv)'
  <2> SUFFICES ASSUME TypeOK, Tickets, Control, TypeOK', Intact => KeptInv, [Next]_vars, Intact'
               PROVE  KeptInv'
    OBVIOUS
  <2>1. Intact
    BY MishapsGrow DEF Intact
  <2> QED
    BY <2>1, KeptStep
<1> QED
  BY <1>1, <1>2, TypeCorrect, ControlCorrect, PTL DEF Spec

(* Unless two calls share a slot or a store is reordered, every accepted   *)
(* message is printed once or intact in one slot, whatever is logged,      *)
(* dropped and claimed ahead of tail_.                                     *)
THEOREM NothingLostUnlessShared == Spec => []NothingLost
<1>1. (Intact => KeptInv) => NothingLost
  BY DEF KeptInv, NothingLost
<1> QED
  BY <1>1, KeptInvariant, PTL

(* Under the same condition a stop that returns has flushed what was       *)
(* accepted before it was called, although has_pending looks at the slots  *)
(* one by one while producers go on logging.                               *)
THEOREM FlushUnlessShared == Spec => []FlushedOnStop
<1>1. (Intact => KeptInv) => FlushedOnStop
  BY DEF KeptInv, Draining, FlushedOnStop
<1> QED
  BY <1>1, KeptInvariant, PTL
-----------------------------------------------------------------------------
(* A single producer owns its slots, however often the ring wraps around:  *)
(* nobody else sets the flag it has found clear.                           *)
THEOREM LoneOwnership ==
    ASSUME NEW p \in Producers, Producers = {p}
    PROVE  Spec => []SlotOwnership
<1> DEFINE Clear == ppc[p] \in {"fill", "publish"} => ~ valid[Slot(p)]
<1>1. Init => Clear
  BY DEF Init
<1>2. TypeOK /\ Clear /\ [Next]_vars => Clear'
  <2> SUFFICES ASSUME TypeOK, Clear, [Next]_vars PROVE Clear'
    OBVIOUS
  <2> USE DEF PGoTo, CGoTo, Mishap, producer, consumer, owner, TypeOK
  <2>1. CASE Claim(p) \/ LogStep(p)
    BY <2>1 DEF LogStep, Claim, Drop, FindFree, Fill, Publish, PublishEarly, FillLate, Slot
  <2>2. CASE ConsumeStep
    <3>1. CASE Release
      <4>1. Slot(p) \in Slots /\ Slot(p)' = Slot(p) /\ ppc' = ppc
        BY <3>1, AsyncLoggerAssumption DEF Release, Slot, Slots
      <4> QED
        BY <3>1, <4>1 DEF Release
    <3>2. CASE ~ Release
      BY <2>2, <3>2 DEF ConsumeStep, LoopTest, HasPending, NothingPending, Sleep, PrintEntry, Advance, Slot
    <3> QED
      BY <3>1, <3>2
  <2>3. CASE Start \/ Stop \/ Join
    BY <2>3 DEF Start, Stop, Join, Slot
  <2>4. CASE UNCHANGED vars
    BY <2>4 DEF vars, Slot
  <2> QED
    BY <2>1, <2>2, <2>3, <2>4 DEF Next, Done
<1>3. TypeOK /\ Clear => SlotOwnership
  BY DEF TypeOK, SlotOwnership, Writing
<1> QED
  BY <1>1, <1>2, <1>3, TypeCorrect, PTL DEF Spec

(* A single producer whose stores are seen in program order shares its     *)
(* slot with nobody: it never loses an accepted message, and a stop that   *)
(* returns has flushed them, with no further condition.                    *)
THEOREM LoneConserved ==
    ASSUME NEW p \in Producers, Producers = {p}, ~ Reorder
    PROVE  Spec => [](Conserved /\ Flushed)
<1>1. Init => Intact
  BY DEF Init, Intact
<1>2. Intact /\ [Next]_vars => Intact'
  <2> SUFFICES ASSUME Intact, [Next]_vars PROVE Intact'
    OBVIOUS
  <2>1. ~ SharesSlot(p)
    BY DEF SharesSlot
  <2>2. CASE Claim(p)
    <3>1. mishaps' \subseteq mishaps \union {"overrun"}
      BY <2>2 DEF Claim, Mishap
    <3> QED
      BY <3>1 DEF Intact
  <2>3. CASE LogStep(p)
    <3>1. mishaps' = mishaps
      BY <2>1, <2>3 DEF LogStep, Drop, FindFree, Fill, Publish, PublishEarly, FillLate, Mishap, producer
    <3> QED
      BY <3>1 DEF Intact
  <2>4. CASE ConsumeStep \/ Start \/ Stop \/ Join \/ UNCHANGED vars
    <3>1. mishaps' = mishaps
      BY <2>4 DEF ConsumeStep, LoopTest, HasPending, NothingPending, Sleep, PrintEntry, Release,
                  Advance, Start, Stop, Join, producer, vars
    <3> QED
      BY <3>1 DEF Intact
  <2> QED
    BY <2>2, <2>3, <2>4 DEF Next, Done
<1>3. Intact /\ (Intact => KeptInv) => Conserved /\ Flushed
  BY DEF KeptInv, Draining
<1> QED
  BY <1>1, <1>2, <1>3, KeptInvariant, PTL DEF Spec
=============================================================================
