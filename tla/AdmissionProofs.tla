--------------------------- MODULE AdmissionProofs ---------------------------
(***************************************************************************)
(* Machine-checked proofs about Admission, for every set of quotes, calls, *)
(* prices, federations and limits.                                         *)
(*                                                                         *)
(* Two invariants carry the argument.  Cursor says that NextNo really is   *)
(* above every stored seat number, so an insertion moves it by one and     *)
(* takes exactly one slot.  AdmissionInv adds that no epoch ahead of the   *)
(* offer row is ever stamped on a quote, so a drawn epoch is one no quote  *)
(* carries, and that every step of a call keeps the facts it read.         *)
(***************************************************************************)
EXTENDS Admission, FiniteSetTheorems, TLAPS

\* The lifetime cursor lies above every stored seat number.
Cursor ==
    /\ NextNo \in Nat
    /\ \A q \in Rows : seatNo[q] < NextNo

\* What each stage of a quote, a call and an answer may rely on.
Bookkeeping ==
    /\ \A q \in Quotes : quote[q].epoch <= offer.epoch
    /\ \A c \in Calls : call[c] # Idle => quote[call[c].quote].stage = "signed"
    /\ \A c \in Calls : call[c] # Idle /\ call[c].stage = "publish"
                            => row[call[c].quote] # "none"
    /\ \A q \in Quotes : "accepted" \in answers[q] => row[q] # "none"
    /\ \A q \in Quotes : "refused" \in answers[q] => quote[q].stage = "signed"
    /\ RefusalIsFinal

\* The inductive invariant.
AdmissionInv ==
    /\ TypeOK
    /\ Cursor
    /\ CurrentQuoteHasSlot
    /\ Bookkeeping

-----------------------------------------------------------------------------
(* Arithmetic of slots                                                     *)

\* The limit in force is a natural number and reads only the three limits.
LEMMA EffectiveMaxNat ==
    ASSUME NEW o \in OfferType
    PROVE  EffectiveMaxSeats(o) \in Nat
BY AdmissionAssumption DEF OfferType, EffectiveMaxSeats, Lower

\* Active seats are finitely many, so they have a count.
LEMMA ActiveFinite ==
    ASSUME TypeOK
    PROVE  IsFiniteSet(Active) /\ Cardinality(Active) \in Nat
<1>1. Active \subseteq Quotes
    BY DEF Active
<1>2. IsFiniteSet(Active)
    BY <1>1, AdmissionAssumption, FS_Subset
<1> QED
    BY <1>2, FS_CardinalityType

\* The number of free slots is a natural number.
LEMMA SlotsNat ==
    ASSUME TypeOK, Cursor, NEW o \in OfferType
    PROVE  Slots(o) \in Nat
<1>1. EffectiveMaxSeats(o) \in Nat
    BY EffectiveMaxNat
<1>2. Cardinality(Active) \in Nat
    BY ActiveFinite
<1>3. NextNo \in Nat /\ PortBlocks \in Nat
    BY AdmissionAssumption DEF Cursor
<1> QED
    BY <1>1, <1>2, <1>3 DEF Slots, Lower, SaturatingSub

\* An inserted row takes the cursor's number and moves the cursor by one.
LEMMA InsertMovesCursor ==
    ASSUME TypeOK, Cursor, NEW q \in Quotes, row[q] = "none",
           row' = [row EXCEPT ![q] = "active"],
           seatNo' = [seatNo EXCEPT ![q] = NextNo]
    PROVE  NextNo' = NextNo + 1 /\ Cursor'
<1>1. Rows' = Rows \cup {q} /\ q \in Rows'
    BY DEF Rows, TypeOK
<1>2. \A r \in Rows : seatNo'[r] = seatNo[r] /\ r # q
    BY DEF Rows, TypeOK
<1>3. seatNo'[q] = NextNo
    BY DEF TypeOK
<1>4. \A r \in Rows' : seatNo'[r] \in Nat /\ seatNo'[r] <= NextNo
    BY <1>1, <1>2, <1>3 DEF Cursor, TypeOK, Rows
<1> DEFINE S == {seatNo'[r] : r \in Rows'}
           P(n) == \A r \in Rows' : seatNo'[r] <= n
           top == CHOOSE n \in S : P(n)
<1>5. NextNo \in S /\ P(NextNo)
    BY <1>1, <1>3, <1>4
<1>6. \A n \in S : P(n) => n = NextNo
    BY <1>1, <1>3, <1>4 DEF Cursor
<1>7. top = NextNo
    BY <1>5, <1>6
<1>8. NextNo' = 1 + top
    BY <1>1 DEF NextNo
<1> HIDE DEF S, P, top
<1>9. NextNo' = NextNo + 1
    BY <1>7, <1>8 DEF Cursor
<1> QED
    BY <1>4, <1>9 DEF Cursor

\* An insertion takes exactly one slot.
LEMMA InsertTakesOneSlot ==
    ASSUME TypeOK, Cursor, NEW q \in Quotes, row[q] = "none",
           row' = [row EXCEPT ![q] = "active"],
           seatNo' = [seatNo EXCEPT ![q] = NextNo],
           offer' = offer, Slots(offer) > 0
    PROVE  Slots(offer)' = Slots(offer) - 1
<1>1. Active' = Active \cup {q} /\ q \notin Active
    BY DEF Active, TypeOK
<1>2. Cardinality(Active') = Cardinality(Active) + 1
    BY <1>1, ActiveFinite, FS_AddElement
<1>3. NextNo' = NextNo + 1
    BY InsertMovesCursor
<1>4. EffectiveMaxSeats(offer) \in Nat
    BY EffectiveMaxNat DEF TypeOK
<1>5. Cardinality(Active) \in Nat /\ NextNo \in Nat /\ PortBlocks \in Nat
    BY ActiveFinite, AdmissionAssumption DEF Cursor
<1>6. Slots(offer)' = Lower(SaturatingSub(EffectiveMaxSeats(offer), Cardinality(Active) + 1),
                            SaturatingSub(PortBlocks, NextNo + 1))
    BY <1>2, <1>3 DEF Slots, EffectiveMaxSeats
<1> QED
    BY <1>4, <1>5, <1>6 DEF Slots, Lower, SaturatingSub

\* A retirement frees slots or leaves them as they are.
LEMMA RetireKeepsSlots ==
    ASSUME TypeOK, Cursor, NEW q \in Quotes, RetireSeat(q)
    PROVE  Cursor' /\ Slots(offer)' \in Nat /\ Slots(offer)' >= Slots(offer)
<1>1. Active' = Active \ {q} /\ q \in Active
    BY DEF Active, TypeOK, RetireSeat
<1>2. Cardinality(Active') = Cardinality(Active) - 1
    BY <1>1, ActiveFinite, FS_RemoveElement
<1>3. Rows' = Rows
    BY DEF Rows, TypeOK, RetireSeat
<1>4. NextNo' = NextNo /\ Cursor'
    BY <1>3 DEF NextNo, Cursor, RetireSeat
<1>5. EffectiveMaxSeats(offer) \in Nat
    BY EffectiveMaxNat DEF TypeOK
<1>6. Cardinality(Active) \in Nat /\ NextNo \in Nat /\ PortBlocks \in Nat
    BY ActiveFinite, AdmissionAssumption DEF Cursor
<1>7. Slots(offer)' = Lower(SaturatingSub(EffectiveMaxSeats(offer), Cardinality(Active) - 1),
                            SaturatingSub(PortBlocks, NextNo))
    BY <1>2, <1>4 DEF Slots, EffectiveMaxSeats, RetireSeat
<1> QED
    BY <1>4, <1>5, <1>6, <1>7 DEF Slots, Lower, SaturatingSub

\* Without a new row, slots change only with the offer row.
LEMMA SameRows ==
    ASSUME Cursor, UNCHANGED <<row, seatNo>>
    PROVE  Cursor' /\ Slots(offer)' = Slots(offer')
<1>1. Rows' = Rows /\ Active' = Active
    BY DEF Rows, Active
<1>2. NextNo' = NextNo
    BY <1>1 DEF NextNo
<1> QED
    BY <1>1, <1>2 DEF Cursor, Slots, EffectiveMaxSeats

\* A writer of the offer row keeps the invariant when it draws an epoch, or
\* keeps the epoch and leaves a slot wherever there was one.
LEMMA OfferWrite ==
    ASSUME AdmissionInv, offer' \in OfferType,
           UNCHANGED <<row, seatNo, claimed, quote, call, answers, registry>>,
           \/ offer'.epoch = offer.epoch + 1
           \/ offer'.epoch = offer.epoch /\ (Slots(offer) > 0 => Slots(offer') > 0)
    PROVE  AdmissionInv'
<1>1. Cursor' /\ Slots(offer)' = Slots(offer')
    BY SameRows DEF AdmissionInv
<1>2. TypeOK'
    BY DEF AdmissionInv, TypeOK
<1>3. offer.epoch \in Nat /\ offer'.epoch \in Nat
    BY AdmissionAssumption DEF AdmissionInv, TypeOK, OfferType
<1>4. \A q \in Quotes : quote[q].epoch \in Nat
    BY AdmissionAssumption DEF AdmissionInv, TypeOK, QuoteType
<1>5. CurrentQuoteHasSlot'
    BY <1>1, <1>3, <1>4 DEF AdmissionInv, Bookkeeping, CurrentQuoteHasSlot, Live
<1>6. Bookkeeping'
    BY <1>3, <1>4 DEF AdmissionInv, Bookkeeping, RefusalIsFinal
<1> QED
    BY <1>1, <1>2, <1>5, <1>6 DEF AdmissionInv

\* A drawn epoch is the next one and leaves the limits alone.
LEMMA FreshEpochType ==
    ASSUME AdmissionInv, CanDraw, NEW o \in OfferType, o.epoch = offer.epoch
    PROVE  FreshEpoch(o) \in OfferType /\ FreshEpoch(o).epoch = offer.epoch + 1
BY AdmissionAssumption DEF AdmissionInv, TypeOK, CanDraw, OfferType, FreshEpoch

\* update_seats_config keeps the invariant under its rotation rule.
LEMMA UpdateSeatsConfigStep ==
    ASSUME AdmissionInv, NEW after \in OfferType, after.epoch = offer.epoch,
           UpdateSeatsConfig(after)
    PROVE  AdmissionInv'
<1>1. CASE offer' = FreshEpoch(after) /\ CanDraw
    BY <1>1, FreshEpochType, OfferWrite DEF UpdateSeatsConfig
<1>2. CASE offer' = after /\ ~(Slots(offer) > 0 /\ Slots(after) = 0)
    <2>1. Slots(offer) > 0 => Slots(after) > 0
        BY <1>2, SlotsNat DEF AdmissionInv, TypeOK
    <2> QED
        BY <1>2, <2>1, OfferWrite DEF UpdateSeatsConfig
<1> QED
    BY <1>1, <1>2 DEF UpdateSeatsConfig

-----------------------------------------------------------------------------
(* The inductive step, one lemma per group of actions                      *)

\* GetQuote stamps the current epoch only while a slot is free.
LEMMA GetQuoteStep ==
    ASSUME AdmissionInv, NEW q \in Quotes,
           NEW fed \in Federations \cup {NoFederation}, GetQuote(q, fed)
    PROVE  AdmissionInv'
<1>1. Cursor' /\ Slots(offer)' = Slots(offer)
    BY SameRows DEF AdmissionInv, GetQuote
<1>2. offer.price \in Prices /\ offer.epoch \in 0 .. MaxEpoch
    BY DEF AdmissionInv, TypeOK, OfferType, GetQuote
<1>3. TypeOK'
    BY <1>2 DEF AdmissionInv, TypeOK, GetQuote, QuoteType
<1>4. CurrentQuoteHasSlot'
    BY <1>1 DEF AdmissionInv, TypeOK, CurrentQuoteHasSlot, Live, GetQuote
<1>5. Bookkeeping'
    <2>1. \A r \in Quotes : quote'[r].epoch <= offer.epoch
        BY <1>2, AdmissionAssumption DEF AdmissionInv, TypeOK, Bookkeeping, GetQuote
    <2>2. \A r \in Quotes : quote[r].stage = "signed" => quote'[r] = quote[r]
        BY DEF AdmissionInv, TypeOK, GetQuote
    <2>3. \A c \in Calls : call[c] # Idle => call[c].quote \in Quotes
        BY DEF AdmissionInv, TypeOK, CallType
    <2> QED
        BY <2>1, <2>2, <2>3 DEF AdmissionInv, TypeOK, Bookkeeping, RefusalIsFinal, GetQuote
<1> QED
    BY <1>1, <1>3, <1>4, <1>5 DEF AdmissionInv

\* The wallet's answer changes a stage and no stamped epoch.
LEMMA WalletPricesStep ==
    ASSUME AdmissionInv, NEW q \in Quotes, WalletPrices(q)
    PROVE  AdmissionInv'
<1>1. Cursor' /\ Slots(offer)' = Slots(offer)
    BY SameRows DEF AdmissionInv, WalletPrices
<1>2. \A r \in Quotes : /\ quote'[r].epoch = quote[r].epoch
                        /\ Live(r)' => Live(r)
                        /\ quote[r].stage = "signed" => quote'[r] = quote[r]
    BY DEF AdmissionInv, TypeOK, QuoteType, WalletPrices, Live
<1>3. TypeOK'
    BY DEF AdmissionInv, TypeOK, WalletPrices, QuoteType
<1>4. CurrentQuoteHasSlot'
    BY <1>1, <1>2 DEF AdmissionInv, CurrentQuoteHasSlot, WalletPrices
<1>5. Bookkeeping'
    <2>1. \A c \in Calls : call[c] # Idle => call[c].quote \in Quotes
        BY DEF AdmissionInv, TypeOK, CallType
    <2> QED
        BY <1>2, <2>1 DEF AdmissionInv, Bookkeeping, RefusalIsFinal, WalletPrices
<1> QED
    BY <1>1, <1>3, <1>4, <1>5 DEF AdmissionInv

\* Steps that touch only calls, answers and the registry keep the slot facts.
LEMMA QuietStep ==
    ASSUME AdmissionInv, UNCHANGED <<offer, row, seatNo, claimed, quote>>,
           call' \in [Calls -> CallType],
           answers' \in [Quotes -> SUBSET {"accepted", "refused"}],
           registry' \in SUBSET Quotes, Bookkeeping'
    PROVE  AdmissionInv'
<1>1. Cursor' /\ Slots(offer)' = Slots(offer)
    BY SameRows DEF AdmissionInv
<1>2. TypeOK'
    BY DEF AdmissionInv, TypeOK
<1>3. CurrentQuoteHasSlot'
    BY <1>1 DEF AdmissionInv, CurrentQuoteHasSlot, Live
<1> QED
    BY <1>1, <1>2, <1>3 DEF AdmissionInv

\* The snapshot refuses only an absent quote whose epoch has passed.
LEMMA AdmissionSnapshotStep ==
    ASSUME AdmissionInv, NEW c \in Calls, NEW q \in Quotes, AdmissionSnapshot(c, q)
    PROVE  AdmissionInv'
<1>1. offer.epoch \in Nat /\ quote[q].epoch \in Nat
    BY AdmissionAssumption DEF AdmissionInv, TypeOK, OfferType, QuoteType
<1>2. CASE row[q] = "none" /\ quote[q].epoch # offer.epoch
    <2>1. quote[q].epoch < offer.epoch
        BY <1>1, <1>2 DEF AdmissionInv, Bookkeeping
    <2>2. Answer(q, "refused") /\ UNCHANGED call
        BY <1>2 DEF AdmissionSnapshot
    <2>3. Bookkeeping'
        BY <1>2, <2>1, <2>2 DEF AdmissionInv, TypeOK, Bookkeeping, RefusalIsFinal,
                                AdmissionSnapshot, Answer
    <2> QED
        BY <2>2, <2>3, QuietStep DEF AdmissionInv, TypeOK, AdmissionSnapshot, Answer
<1>3. CASE row[q] # "none"
    <2>1. call' = [call EXCEPT ![c] = [quote |-> q, stage |-> "publish"]] /\ UNCHANGED answers
        BY <1>3 DEF AdmissionSnapshot
    <2>2. Bookkeeping'
        BY <1>3, <2>1 DEF AdmissionInv, TypeOK, Bookkeeping, RefusalIsFinal, AdmissionSnapshot
    <2>3. call' \in [Calls -> CallType]
        BY <2>1 DEF AdmissionInv, TypeOK, CallType
    <2> QED
        BY <2>1, <2>2, <2>3, QuietStep DEF AdmissionInv, TypeOK, AdmissionSnapshot
<1>4. CASE row[q] = "none" /\ quote[q].epoch = offer.epoch
    <2>1. call' = [call EXCEPT ![c] = [quote |-> q, stage |-> "writer"]] /\ UNCHANGED answers
        BY <1>4 DEF AdmissionSnapshot
    <2>2. Bookkeeping'
        BY <2>1 DEF AdmissionInv, TypeOK, Bookkeeping, RefusalIsFinal, AdmissionSnapshot
    <2>3. call' \in [Calls -> CallType]
        BY <2>1 DEF AdmissionInv, TypeOK, CallType
    <2> QED
        BY <2>1, <2>2, <2>3, QuietStep DEF AdmissionInv, TypeOK, AdmissionSnapshot
<1> QED
    BY <1>2, <1>3, <1>4

\* At the writer, a row found or an epoch passed settles the call.
LEMMA WriterSettlesStep ==
    ASSUME AdmissionInv, NEW c \in Calls, NEW q \in Quotes,
           WriterFindsExisting(c, q) \/ WriterFindsStaleEpoch(c, q)
    PROVE  AdmissionInv'
<1>1. call[c] # Idle /\ call[c].quote = q /\ call[c].stage = "writer"
    BY AdmissionAssumption DEF AdmissionInv, TypeOK, CallType, WriterFindsExisting,
       WriterFindsStaleEpoch, AtWriter
<1>2. CASE WriterFindsExisting(c, q)
    <2>1. call' = [call EXCEPT ![c] = [quote |-> q, stage |-> "publish"]]
        BY <1>1, <1>2 DEF WriterFindsExisting, AtWriter
    <2>2. Bookkeeping'
        BY <1>1, <1>2, <2>1 DEF AdmissionInv, TypeOK, Bookkeeping, RefusalIsFinal,
                                WriterFindsExisting
    <2>3. call' \in [Calls -> CallType]
        BY <2>1 DEF AdmissionInv, TypeOK, CallType
    <2> QED
        BY <1>2, <2>2, <2>3, QuietStep DEF AdmissionInv, TypeOK, WriterFindsExisting
<1>3. CASE WriterFindsStaleEpoch(c, q)
    <2>1. offer.epoch \in Nat /\ quote[q].epoch \in Nat
        BY AdmissionAssumption DEF AdmissionInv, TypeOK, OfferType, QuoteType
    <2>2. quote[q].epoch < offer.epoch
        BY <1>3, <2>1 DEF AdmissionInv, Bookkeeping, WriterFindsStaleEpoch
    <2>3. quote[q].stage = "signed"
        BY <1>1 DEF AdmissionInv, Bookkeeping
    <2>4. Bookkeeping'
        BY <1>3, <2>2, <2>3 DEF AdmissionInv, TypeOK, Bookkeeping, RefusalIsFinal,
                                WriterFindsStaleEpoch, Answer
    <2>5. call' \in [Calls -> CallType]
        BY <1>3 DEF AdmissionInv, TypeOK, CallType, WriterFindsStaleEpoch
    <2> QED
        BY <1>3, <2>4, <2>5, QuietStep DEF AdmissionInv, TypeOK, WriterFindsStaleEpoch, Answer
<1> QED
    BY <1>2, <1>3

\* The accepting transaction: it takes one slot, and the last one with a draw.
LEMMA WriterInsertsStep ==
    ASSUME AdmissionInv, NEW c \in Calls, NEW q \in Quotes, WriterInserts(c, q)
    PROVE  AdmissionInv'
<1>1. call[c] # Idle /\ call[c].quote = q /\ call[c].stage = "writer"
    BY AdmissionAssumption DEF AdmissionInv, TypeOK, CallType, WriterInserts, AtWriter
<1>2. call' = [call EXCEPT ![c] = [quote |-> q, stage |-> "publish"]]
    BY <1>1 DEF WriterInserts, AtWriter
<1>3. offer' \in OfferType /\ (offer' = offer \/ offer'.epoch = offer.epoch + 1)
    BY FreshEpochType DEF AdmissionInv, TypeOK, WriterInserts
<1>4. Cursor'
    BY InsertMovesCursor DEF AdmissionInv, WriterInserts
<1>5. TypeOK'
    <2>1. call' \in [Calls -> CallType]
        BY <1>2 DEF AdmissionInv, TypeOK, CallType
    <2>2. seatNo' \in [Quotes -> Nat]
        BY DEF AdmissionInv, TypeOK, WriterInserts, Cursor
    <2>3. row' \in [Quotes -> {"none", "active", "retired"}] /\ claimed' \in SUBSET Quotes
        BY DEF AdmissionInv, TypeOK, WriterInserts
    <2> QED
        BY <1>3, <2>1, <2>2, <2>3 DEF AdmissionInv, TypeOK, WriterInserts
<1>6. offer.epoch \in Nat /\ \A r \in Quotes : quote[r].epoch \in Nat
    BY AdmissionAssumption DEF AdmissionInv, TypeOK, OfferType, QuoteType
<1>7. CurrentQuoteHasSlot'
    <2>1. CASE Slots(offer) = 1
        <3>1. offer'.epoch = offer.epoch + 1
            BY <2>1, FreshEpochType DEF AdmissionInv, TypeOK, WriterInserts
        <3> QED
            BY <1>6, <3>1 DEF AdmissionInv, Bookkeeping, CurrentQuoteHasSlot, Live, WriterInserts
    <2>2. CASE Slots(offer) # 1
        <3>1. offer' = offer
            BY <2>2 DEF WriterInserts
        <3>2. Slots(offer)' = Slots(offer) - 1
            BY <3>1, InsertTakesOneSlot DEF AdmissionInv, WriterInserts
        <3>3. Slots(offer) \in Nat
            BY SlotsNat DEF AdmissionInv, TypeOK
        <3> QED
            BY <2>2, <3>2, <3>3 DEF CurrentQuoteHasSlot, WriterInserts
    <2> QED
        BY <2>1, <2>2
<1>8. Bookkeeping'
    <2>1. \A r \in Quotes : quote[r].epoch <= offer'.epoch /\ offer.epoch <= offer'.epoch
        BY <1>3, <1>6 DEF AdmissionInv, Bookkeeping
    <2>2. "refused" \notin answers[q]
        BY <1>6 DEF AdmissionInv, Bookkeeping, RefusalIsFinal, WriterInserts
    <2>3. \A r \in Quotes : r # q => row'[r] = row[r]
        BY DEF AdmissionInv, TypeOK, WriterInserts
    <2>4. row'[q] # "none"
        BY DEF AdmissionInv, TypeOK, WriterInserts
    <2>5. RefusalIsFinal'
        BY <1>3, <1>6, <2>1, <2>2, <2>3 DEF AdmissionInv, Bookkeeping, RefusalIsFinal, WriterInserts
    <2>6. \A d \in Calls : call[d] # Idle => call[d].quote \in Quotes
        BY DEF AdmissionInv, TypeOK, CallType
    <2> QED
        BY <1>1, <1>2, <2>1, <2>3, <2>4, <2>5, <2>6
        DEF AdmissionInv, TypeOK, Bookkeeping, WriterInserts
<1> QED
    BY <1>4, <1>5, <1>7, <1>8 DEF AdmissionInv

\* The acceptance leaves for a row that exists.
LEMMA PublishSeatStep ==
    ASSUME AdmissionInv, NEW c \in Calls, NEW q \in Quotes, PublishSeat(c, q)
    PROVE  AdmissionInv'
<1>1. row[q] # "none"
    BY AdmissionAssumption DEF AdmissionInv, Bookkeeping, PublishSeat, TypeOK, CallType
<1>2. Bookkeeping'
    BY <1>1 DEF AdmissionInv, TypeOK, Bookkeeping, RefusalIsFinal, PublishSeat, Answer
<1>3. call' \in [Calls -> CallType]
    BY DEF AdmissionInv, TypeOK, CallType, PublishSeat
<1> QED
    BY <1>2, <1>3, QuietStep DEF AdmissionInv, TypeOK, PublishSeat, Answer

\* A dropped call changes nothing durable.
LEMMA DropCallStep ==
    ASSUME AdmissionInv, NEW c \in Calls, DropCall(c)
    PROVE  AdmissionInv'
<1>1. Bookkeeping'
    BY DEF AdmissionInv, TypeOK, Bookkeeping, RefusalIsFinal, DropCall
<1>2. call' \in [Calls -> CallType]
    BY DEF AdmissionInv, TypeOK, CallType, DropCall
<1> QED
    BY <1>1, <1>2, QuietStep DEF AdmissionInv, TypeOK, DropCall

\* A retired seat keeps its row and its number.
LEMMA RetireSeatStep ==
    ASSUME AdmissionInv, NEW q \in Quotes, RetireSeat(q)
    PROVE  AdmissionInv'
<1>1. Cursor' /\ Slots(offer)' \in Nat /\ Slots(offer)' >= Slots(offer)
    BY RetireKeepsSlots DEF AdmissionInv
<1>2. TypeOK'
    BY DEF AdmissionInv, TypeOK, RetireSeat
<1>3. Slots(offer) \in Nat
    BY SlotsNat DEF AdmissionInv, TypeOK
<1>4. CurrentQuoteHasSlot'
    BY <1>1, <1>3 DEF AdmissionInv, CurrentQuoteHasSlot, Live, RetireSeat
<1>5. \A r \in Quotes : (row'[r] = "none") <=> (row[r] = "none")
    BY DEF AdmissionInv, TypeOK, RetireSeat
<1>6. \A c \in Calls : call[c] # Idle => call[c].quote \in Quotes
    BY DEF AdmissionInv, TypeOK, CallType
<1>7. Bookkeeping'
    BY <1>5, <1>6 DEF AdmissionInv, Bookkeeping, RefusalIsFinal, RetireSeat
<1> QED
    BY <1>1, <1>2, <1>4, <1>7 DEF AdmissionInv

\* A restart forgets calls and unsigned quotes and reads the rows back.
LEMMA RestartStep ==
    ASSUME AdmissionInv, Restart
    PROVE  AdmissionInv'
<1>1. Cursor' /\ Slots(offer)' = Slots(offer)
    BY SameRows DEF AdmissionInv, Restart
<1>2. \A r \in Quotes : /\ quote'[r].epoch = quote[r].epoch
                        /\ Live(r)' => Live(r)
                        /\ quote[r].stage = "signed" => quote'[r] = quote[r]
    BY DEF AdmissionInv, TypeOK, QuoteType, Restart, Live
<1>3. TypeOK'
    BY DEF AdmissionInv, TypeOK, Restart, QuoteType, CallType, Rows
<1>4. CurrentQuoteHasSlot'
    BY <1>1, <1>2 DEF AdmissionInv, CurrentQuoteHasSlot, Restart
<1>5. Bookkeeping'
    BY <1>2 DEF AdmissionInv, Bookkeeping, RefusalIsFinal, Restart
<1> QED
    BY <1>1, <1>3, <1>4, <1>5 DEF AdmissionInv

-----------------------------------------------------------------------------
(* Theorems                                                                *)

\* A daemon that has issued no quote satisfies the invariant.
LEMMA AdmissionInit ==
    Init => AdmissionInv
<1> SUFFICES ASSUME Init PROVE AdmissionInv
    OBVIOUS
<1>1. TypeOK
    BY AdmissionAssumption DEF Init, TypeOK, OfferType, QuoteType, CallType, NoQuote
<1>2. Rows = {}
    BY DEF Init, Rows
<1>3. Cursor
    BY <1>2 DEF Cursor, NextNo
<1>4. CurrentQuoteHasSlot
    BY DEF Init, CurrentQuoteHasSlot, Live, NoQuote
<1>5. Bookkeeping
    BY DEF Init, Bookkeeping, RefusalIsFinal, NoQuote
<1> QED
    BY <1>1, <1>3, <1>4, <1>5 DEF AdmissionInv

\* Every step of the daemon keeps the invariant.
LEMMA AdmissionStep ==
    AdmissionInv /\ [Next]_vars => AdmissionInv'
<1> SUFFICES ASSUME AdmissionInv, [Next]_vars PROVE AdmissionInv'
    OBVIOUS
<1>1. CASE UNCHANGED vars
    <2>1. Bookkeeping'
        BY <1>1 DEF AdmissionInv, Bookkeeping, RefusalIsFinal, vars
    <2> QED
        BY <1>1, <2>1, QuietStep DEF AdmissionInv, TypeOK, vars
<1>2. ASSUME NEW q \in Quotes, NEW fed \in Federations \cup {NoFederation}, GetQuote(q, fed)
      PROVE  AdmissionInv'
    BY <1>2, GetQuoteStep
<1>3. ASSUME NEW q \in Quotes, WalletPrices(q) \/ RetireSeat(q)
      PROVE  AdmissionInv'
    BY <1>3, WalletPricesStep, RetireSeatStep
<1>4. ASSUME NEW c \in Calls, NEW q \in Quotes,
             \/ AdmissionSnapshot(c, q)
             \/ WriterFindsExisting(c, q)
             \/ WriterFindsStaleEpoch(c, q)
             \/ WriterInserts(c, q)
             \/ PublishSeat(c, q)
      PROVE  AdmissionInv'
    BY <1>4, AdmissionSnapshotStep, WriterSettlesStep, WriterInsertsStep, PublishSeatStep
<1>5. ASSUME NEW c \in Calls, DropCall(c)
      PROVE  AdmissionInv'
    BY <1>5, DropCallStep
<1>6. ASSUME NEW price \in Prices \cup {NoPrice}, SetOfferedPrice(price)
      PROVE  AdmissionInv'
    <2>1. /\ FreshEpoch(offer) \in OfferType
          /\ FreshEpoch(offer).epoch = offer.epoch + 1
        BY <1>6, FreshEpochType DEF AdmissionInv, TypeOK, SetOfferedPrice
    <2>2. /\ offer' \in OfferType
          /\ offer'.epoch = offer.epoch + 1
        BY <1>6, <2>1 DEF SetOfferedPrice, OfferType
    <2> QED
        BY <1>6, <2>2, OfferWrite DEF SetOfferedPrice
<1>7. ASSUME NEW feds \in SUBSET Federations, ReplaceSetupPaymentPolicy(feds)
      PROVE  AdmissionInv'
    <2> DEFINE next == [offer EXCEPT !.feds = feds]
    <2>1. next \in OfferType /\ next.epoch = offer.epoch
        BY DEF AdmissionInv, TypeOK, OfferType
    <2>2. Slots(next) = Slots(offer)
        BY DEF AdmissionInv, TypeOK, OfferType, Slots, EffectiveMaxSeats
    <2> HIDE DEF next
    <2>3. \/ offer' = next
          \/ CanDraw /\ offer' = FreshEpoch(next)
        BY <1>7 DEF ReplaceSetupPaymentPolicy, next
    <2> QED
        BY <1>7, <2>1, <2>2, <2>3, FreshEpochType, OfferWrite DEF ReplaceSetupPaymentPolicy
<1>8. ASSUME NEW max \in Limits \cup {NoLimit}, SetMaxSeats(max)
      PROVE  AdmissionInv'
    BY <1>8, UpdateSeatsConfigStep DEF SetMaxSeats, AdmissionInv, TypeOK, OfferType
<1>9. ASSUME NEW ready \in BOOLEAN, SetSeatReadiness(ready)
      PROVE  AdmissionInv'
    BY <1>9, UpdateSeatsConfigStep DEF SetSeatReadiness, AdmissionInv, TypeOK, OfferType
<1>10. ASSUME NEW memory \in Limits, NEW policy \in Limits, SetRuntimeLimits(memory, policy)
       PROVE  AdmissionInv'
    BY <1>10, UpdateSeatsConfigStep DEF SetRuntimeLimits, AdmissionInv, TypeOK, OfferType
<1>11. CASE Restart
    BY <1>11, RestartStep
<1> QED
    BY <1>1, <1>2, <1>3, <1>4, <1>5, <1>6, <1>7, <1>8, <1>9, <1>10, <1>11 DEF Next

\* The inductive invariant holds in every reachable state of the daemon.
THEOREM AdmissionInvariant ==
    Spec => []AdmissionInv
BY AdmissionInit, AdmissionStep, PTL DEF Spec

\* Types are kept by every quote, admission, settings write and restart.
THEOREM AdmissionTypeCorrect ==
    Spec => []TypeOK
<1>1. AdmissionInv => TypeOK
    BY DEF AdmissionInv
<1> QED
    BY <1>1, AdmissionInvariant, PTL

\* The assertion inside admit_seat_at_writer_boundary cannot fail: a quote
\* stamped with the current epoch has a free slot.
THEOREM CurrentEpochQuoteHasCapacity ==
    Spec => []CurrentQuoteHasSlot
<1>1. AdmissionInv => CurrentQuoteHasSlot
    BY DEF AdmissionInv
<1> QED
    BY <1>1, AdmissionInvariant, PTL

\* No quote is both accepted and refused with its refund, and no refused
\* quote can be accepted later.
THEOREM QuoteSettlesOnce ==
    Spec => []SettledOnce
<1>1. AdmissionInv => SettledOnce
    BY DEF AdmissionInv, Bookkeeping, SettledOnce, SettlementExclusive, RefusalIsFinal
<1> QED
    BY <1>1, AdmissionInvariant, PTL

=============================================================================
