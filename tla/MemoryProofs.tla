---------------------------- MODULE MemoryProofs ----------------------------
(***************************************************************************)
(* What Memory.tla guarantees for every width, every set of values and     *)
(* arrays, any number of segments and any number of refused entries.       *)
(***************************************************************************)
EXTENDS Memory, FiniteSetTheorems, TLAPS

-----------------------------------------------------------------------------
(* Arithmetic of offsets.                                                  *)

\* Quotient and remainder by the width are what they should be.
LEMMA DivMod ==
  ASSUME NEW a \in Nat, NEW M \in Nat \ {0}
  PROVE  /\ a \div M \in Nat /\ a % M \in 0 .. M - 1
         /\ a = M * (a \div M) + (a % M)
  OBVIOUS

\* A remainder is determined by the number it is the remainder of.
LEMMA ModUnique ==
  ASSUME NEW M \in Nat \ {0}, NEW q \in Nat, NEW r \in 0 .. M - 1
  PROVE  (M * q + r) % M = r
  OBVIOUS

\* Wrapping once or twice makes no difference.
LEMMA ModNext ==
  ASSUME NEW a \in Nat, NEW M \in Nat \ {0}
  PROVE  ((a % M) + 1) % M = (a + 1) % M
<1> DEFINE q == a \div M
           r == a % M
<1>1. q \in Nat /\ r \in 0 .. M - 1 /\ a = M * q + r
  BY DivMod
<1>2. CASE r + 1 < M
  <2>1. a + 1 = M * q + (r + 1) /\ r + 1 \in 0 .. M - 1
    BY <1>1, <1>2
  <2>2. (a + 1) % M = r + 1
    BY <1>1, <2>1, ModUnique
  <2>3. (r + 1) % M = r + 1
    BY <1>1, <1>2
  <2> QED BY <2>2, <2>3
<1>3. CASE r + 1 = M
  <2>1. a + 1 = M * (q + 1) + 0
    BY <1>1, <1>3
  <2>2. (a + 1) % M = 0
    <3>1. q + 1 \in Nat /\ 0 \in 0 .. M - 1
      BY <1>1
    <3>2. (M * (q + 1) + 0) % M = 0
      BY <3>1, ModUnique
    <3> QED BY <2>1, <3>2
  <2>3. (r + 1) % M = 0
    BY <1>3
  <2> QED BY <2>2, <2>3
<1> QED BY <1>1, <1>2, <1>3

\* Advancing stays in the segment, and n + 1 steps are n steps and one more.
LEMMA AdvanceSteps ==
  ASSUME NEW p \in relocatable, NEW n \in Nat
  PROVE  /\ Advance(p, n) \in relocatable
         /\ Advance(p, n).segment_index = p.segment_index
         /\ Advance(p, 0) = p
         /\ Advance(Advance(p, n), 1) = Advance(p, n + 1)
<1>1. p.offset + n \in Nat /\ p.offset \in 0 .. OffMod - 1 /\ OffMod \in Nat \ {0}
  BY WidthAssumption DEF relocatable
<1>2. (p.offset + n) % OffMod \in 0 .. OffMod - 1
  BY <1>1, DivMod
<1>3. (p.offset + 0) % OffMod = p.offset
  <2>1. (OffMod * 0 + p.offset) % OffMod = p.offset
    BY <1>1, ModUnique
  <2> QED BY <1>1, <2>1
<1>4. (((p.offset + n) % OffMod) + 1) % OffMod = (p.offset + (n + 1)) % OffMod
  <2>1. (((p.offset + n) % OffMod) + 1) % OffMod = ((p.offset + n) + 1) % OffMod
    BY <1>1, ModNext
  <2>2. (p.offset + n) + 1 = p.offset + (n + 1)
    BY <1>1
  <2> QED BY <2>1, <2>2
<1> QED BY <1>1, <1>2, <1>3, <1>4 DEF Advance, relocatable

-----------------------------------------------------------------------------
(* The table and the values in it.                                         *)

\* The comparison of tagged values is equality.
LEMMA ValueEquality ==
  ASSUME NEW a \in maybe_relocatable, NEW b \in maybe_relocatable
  PROVE  maybe_relocatable_equal(a, b) <=> a = b
<1>1. CASE a.is_felt /\ b.is_felt
  <2>1. a.felt \in felt_t /\ b.felt \in felt_t
    BY <1>1 DEF maybe_relocatable
  <2>2. felt_equal(a.felt, b.felt) <=> a.felt = b.felt
    BY <2>1 DEF felt_equal, felt_t
  <2>3. a = Felt(a.felt) /\ b = Felt(b.felt)
    BY <1>1 DEF Felt, maybe_relocatable
  <2>4. maybe_relocatable_equal(a, b) <=> felt_equal(a.felt, b.felt)
    BY <1>1, Zenon DEF maybe_relocatable_equal
  <2> QED BY <2>2, <2>3, <2>4
<1>2. CASE ~a.is_felt /\ ~b.is_felt
  <2>1. a.relocatable \in relocatable /\ b.relocatable \in relocatable
    BY <1>2 DEF maybe_relocatable
  <2>2. (/\ a.relocatable.segment_index = b.relocatable.segment_index
         /\ a.relocatable.offset = b.relocatable.offset)
          <=> a.relocatable = b.relocatable
    BY <2>1 DEF relocatable
  <2>3. a = Pointer(a.relocatable) /\ b = Pointer(b.relocatable)
    BY <1>2 DEF Pointer, maybe_relocatable
  <2>4. maybe_relocatable_equal(a, b)
          <=> /\ a.relocatable.segment_index = b.relocatable.segment_index
              /\ a.relocatable.offset = b.relocatable.offset
    BY <1>2, Zenon DEF maybe_relocatable_equal
  <2> QED BY <2>2, <2>3, <2>4
<1>3. CASE ~(a.is_felt <=> b.is_felt)
  BY <1>3 DEF maybe_relocatable_equal, maybe_relocatable
<1> QED BY <1>1, <1>2, <1>3

\* A lookup finds the entry of the address, and no other.
LEMMA Lookup ==
  ASSUME NEW table, DOMAIN table \subseteq relocatable, NEW ptr \in relocatable
  PROVE  cc_hashtable_get(table, ptr) =
           IF ptr \in DOMAIN table THEN Found(table[ptr]) ELSE NotFound
<1>1. \A key \in DOMAIN table : ~key_compare(key, ptr) <=> key = ptr
  BY DEF key_compare, relocatable
<1>2. ASSUME ptr \in DOMAIN table
      PROVE  (CHOOSE key \in DOMAIN table : ~key_compare(key, ptr)) = ptr
  BY <1>1, <1>2
<1> QED BY <1>1, <1>2 DEF cc_hashtable_get

\* The results of a lookup tell values, and a value from none.
LEMMA FoundFacts ==
  ASSUME NEW a, NEW b
  PROVE  (Found(a) = Found(b) <=> a = b) /\ Found(a) # NotFound
<1>1. Found(a).memory_value = a /\ Found(b).memory_value = b
  BY DEF Found
<1>2. Found(a).is_error = FALSE /\ NotFound.is_error = TRUE
  BY DEF Found, NotFound
<1> QED BY <1>1, <1>2

\* All that a memory_insert of value at ptr does to the memory: what was there
\* stays, what is new is at ptr, in a segment that exists, and an accepted
\* value is there; the blocks taken are those of the table and of a refusal.
InsertPromises(ptr, value, ok) ==
  /\ live' = live /\ num_segments' = num_segments
  /\ \A x \in DOMAIN data : x \in DOMAIN data' /\ data'[x] = data[x]
  /\ \A x \in DOMAIN data' : x \in DOMAIN data \/ (x = ptr /\ InBounds(ptr))
  /\ ok => ptr \in DOMAIN data' /\ data'[ptr] = value
  /\ DOMAIN data' \subseteq relocatable
  /\ data' \in [DOMAIN data' -> maybe_relocatable]
  /\ IsFiniteSet(DOMAIN data')
  /\ refused' \in 0 .. MaxRefusals
  /\ blocks' = 2 * (Cardinality(DOMAIN data') + refused')

\* memory_insert keeps them on each of its ways out.
LEMMA InsertKeepsPromises ==
  ASSUME DOMAIN data \subseteq relocatable,
         data \in [DOMAIN data -> maybe_relocatable],
         IsFiniteSet(DOMAIN data),
         refused \in 0 .. MaxRefusals,
         HeapBalance,
         NEW ptr \in relocatable, NEW value \in maybe_relocatable,
         NEW ok \in BOOLEAN,
         memory_insert(ptr, value, ok)
  PROVE  InsertPromises(ptr, value, ok)
<1>1. memory_get(ptr) = IF ptr \in DOMAIN data THEN Found(data[ptr]) ELSE NotFound
  BY Lookup DEF memory_get
<1>2. live' = live /\ num_segments' = num_segments
  BY DEF memory_insert
<1>3. Cardinality(DOMAIN data) \in Nat
  BY FS_CardinalityType
<1>4. CASE /\ ~InBounds(ptr) /\ ok = FALSE /\ UNCHANGED <<data, blocks, refused>>
  BY <1>2, <1>4 DEF InsertPromises, HeapBalance
<1>5. CASE /\ ~memory_get(ptr).is_error
           /\ ok = maybe_relocatable_equal(memory_get(ptr).memory_value, value)
           /\ UNCHANGED <<data, blocks, refused>>
  <2>1. ptr \in DOMAIN data /\ memory_get(ptr).memory_value = data[ptr]
    BY <1>1, <1>5 DEF Found, NotFound
  <2>2. ok => data[ptr] = value
    BY <1>5, <2>1, ValueEquality
  <2> QED BY <1>2, <1>5, <2>1, <2>2 DEF InsertPromises, HeapBalance
<1>6. CASE /\ InBounds(ptr) /\ memory_get(ptr).is_error /\ ok = TRUE
           /\ cc_hashtable_add(ptr, value)
           /\ blocks' = blocks + 2 /\ refused' = refused
  <2>1. ptr \notin DOMAIN data
    BY <1>1, <1>6 DEF Found
  <2>2. DOMAIN data' = DOMAIN data \cup {ptr}
    BY <1>6 DEF cc_hashtable_add
  <2>3. /\ IsFiniteSet(DOMAIN data')
        /\ Cardinality(DOMAIN data') = Cardinality(DOMAIN data) + 1
    BY <2>1, <2>2, FS_AddElement
  <2>4. /\ data'[ptr] = value
        /\ \A x \in DOMAIN data : data'[x] = data[x]
    BY <1>6, <2>1 DEF cc_hashtable_add
  <2>5. data' \in [DOMAIN data' -> maybe_relocatable]
    BY <1>6, <2>2 DEF cc_hashtable_add
  <2>6. blocks' = 2 * (Cardinality(DOMAIN data') + refused')
    BY <1>3, <1>6, <2>3 DEF HeapBalance
  <2> QED BY <1>2, <1>6, <2>2, <2>3, <2>4, <2>5, <2>6 DEF InsertPromises
<1>7. CASE /\ ok = FALSE /\ refused < MaxRefusals /\ refused' = refused + 1
           /\ blocks' = blocks + 2 /\ data' = data
  <2>1. refused' \in 0 .. MaxRefusals
    BY <1>7, BoundAssumption
  <2>2. blocks' = 2 * (Cardinality(DOMAIN data') + refused')
    BY <1>3, <1>7 DEF HeapBalance
  <2> QED BY <1>2, <1>7, <2>1, <2>2 DEF InsertPromises
<1> QED BY <1>4, <1>5, <1>6, <1>7 DEF memory_insert

-----------------------------------------------------------------------------
(* The inductive invariant.                                                *)

\* What the frame has accepted is in the table.
Stored(table, frame) ==
  \A i \in 0 .. frame.index - 1 :
    /\ Advance(frame.base, i) \in DOMAIN table
    /\ table[Advance(frame.base, i)] = frame.array[i + 1]

\* Only a load has a loop, and its ptr has moved once for each element.
InLoop(frame) ==
  frame.status = "running" =>
    /\ frame.op = "load"
    /\ frame.index <= Len(frame.array)
    /\ frame.ptr = Advance(frame.base, frame.index)

\* AcceptedIsStored says nothing of ptr, nor HeapBalance of a table that could
\* be infinite, and no property of the state between memory_free and
\* memory_new: InLoop, the finiteness and the last conjunct are what it takes
\* to make them inductive.
MemoryInv ==
  /\ MemoryTypeOK
  /\ IsFiniteSet(DOMAIN data)
  /\ HeapBalance
  /\ Stored(data, call)
  /\ InLoop(call)
  /\ ~live => data = EmptyTable /\ call = NoCall

\* AcceptedIsStored, which the client states with memory_get, is Stored.
LEMMA StoredIsRead ==
  ASSUME MemoryTypeOK
  PROVE  AcceptedIsStored <=> Stored(data, call)
<1>1. /\ DOMAIN data \subseteq relocatable
      /\ call.base \in relocatable /\ call.index \in Nat
  BY DEF MemoryTypeOK, Frame
<1>2. ASSUME NEW i \in 0 .. call.index - 1
      PROVE  memory_get(Advance(call.base, i)) = Found(call.array[i + 1])
               <=> /\ Advance(call.base, i) \in DOMAIN data
                   /\ data[Advance(call.base, i)] = call.array[i + 1]
  <2>1. Advance(call.base, i) \in relocatable
    BY <1>1, AdvanceSteps
  <2>2. memory_get(Advance(call.base, i)) =
          IF Advance(call.base, i) \in DOMAIN data
          THEN Found(data[Advance(call.base, i)]) ELSE NotFound
    BY <1>1, <2>1, Lookup DEF memory_get
  <2> QED BY <2>2, FoundFacts
<1> QED BY <1>2 DEF AcceptedIsStored, Stored

\* A table that keeps its entries keeps what a frame has stored in it.
LEMMA StoredIsKept ==
  ASSUME NEW table, NEW table2, NEW frame,
         \A x \in DOMAIN table : x \in DOMAIN table2 /\ table2[x] = table[x],
         Stored(table, frame)
  PROVE  Stored(table2, frame)
  BY DEF Stored

\* A turn of the loop that goes well changes two fields of the frame.
LEMMA FrameAdvances ==
  ASSUME NEW frame \in Frame, Advance(frame.ptr, 1) \in relocatable,
         NEW next, next = [frame EXCEPT !.ptr = Advance(@, 1), !.index = @ + 1]
  PROVE  /\ next \in Frame
         /\ next.base = frame.base /\ next.array = frame.array
         /\ next.index = frame.index + 1 /\ next.ptr = Advance(frame.ptr, 1)
         /\ next.op = frame.op
<1> DEFINE p == Advance(frame.ptr, 1)
<1> HIDE DEF p
<1>1. p \in relocatable
  BY DEF p
<1>2. next = [[frame EXCEPT !.ptr = p] EXCEPT !.index = @ + 1]
  BY DEF p
<1>3. PICK moved : moved = [frame EXCEPT !.ptr = p]
  OBVIOUS
<1>4. /\ moved \in Frame /\ moved.ptr = p
      /\ moved.base = frame.base /\ moved.array = frame.array
      /\ moved.index = frame.index /\ moved.op = frame.op
  BY <1>1, <1>3 DEF Frame
<1>5. next = [moved EXCEPT !.index = @ + 1]
  BY <1>2, <1>3
<1>6. moved.index + 1 \in Nat
  BY <1>4 DEF Frame
<1>7. next = [moved EXCEPT !.index = moved.index + 1]
  BY <1>5
<1>8. PICK n \in Nat : n = moved.index + 1
  BY <1>6
<1>9. next = [moved EXCEPT !.index = n]
  BY <1>7, <1>8
<1>10. /\ next \in Frame
       /\ next.base = moved.base /\ next.array = moved.array
       /\ next.index = n /\ next.ptr = moved.ptr /\ next.op = moved.op
  BY <1>4, <1>9 DEF Frame
<1> QED BY <1>4, <1>8, <1>10 DEF p

\* The frame there is before any call.
LEMMA NoCallIsFrame == NoCall \in Frame /\ Stored(EmptyTable, NoCall) /\ InLoop(NoCall)
<1>1. [segment_index |-> 0, offset |-> 0] \in relocatable
  BY WidthAssumption DEF relocatable
<1>2. NoCall \in Frame
  <2>1. << >> \in Seq(maybe_relocatable)
    OBVIOUS
  <2> QED BY <1>1, <2>1 DEF NoCall, NewFrame, Frame
<1>3. NoCall.index = 0 /\ NoCall.status = "ok"
  BY DEF NoCall, NewFrame
<1> QED BY <1>2, <1>3 DEF Stored, InLoop

\* The table memory_new makes.
LEMMA EmptyTableFacts ==
  /\ DOMAIN EmptyTable = {} /\ EmptyTable \in [{} -> maybe_relocatable]
  /\ IsFiniteSet(DOMAIN EmptyTable) /\ Cardinality(DOMAIN EmptyTable) = 0
  BY FS_EmptySet DEF EmptyTable

-----------------------------------------------------------------------------
(* Each action preserves the invariant.                                    *)

\* Before memory_new.
LEMMA InitEstablishes == MemoryInit => MemoryInv
<1> SUFFICES ASSUME MemoryInit PROVE MemoryInv
  OBVIOUS
<1>1. MemoryTypeOK
  <2>1. 0 \in 0 .. SegMod - 1 /\ 0 \in 0 .. MaxRefusals
    BY WidthAssumption, BoundAssumption
  <2>2. DOMAIN data \subseteq relocatable /\ data \in [DOMAIN data -> maybe_relocatable]
    BY EmptyTableFacts DEF MemoryInit
  <2> QED BY <2>1, <2>2, NoCallIsFrame DEF MemoryInit, MemoryTypeOK
<1>2. IsFiniteSet(DOMAIN data) /\ HeapBalance
  BY EmptyTableFacts DEF MemoryInit, HeapBalance
<1> QED BY <1>1, <1>2, NoCallIsFrame DEF MemoryInit, MemoryInv

\* memory_new.
LEMMA NewPreserves == MemoryInv /\ memory_new => MemoryInv'
<1> SUFFICES ASSUME MemoryInv, memory_new PROVE MemoryInv'
  OBVIOUS
<1>1. MemoryTypeOK'
  BY WidthAssumption, NoCallIsFrame, EmptyTableFacts
  DEF MemoryInv, MemoryTypeOK, memory_new
<1>2. IsFiniteSet(DOMAIN data') /\ HeapBalance'
  BY EmptyTableFacts DEF MemoryInv, HeapBalance, memory_new
<1> QED BY <1>1, <1>2, NoCallIsFrame DEF MemoryInv, memory_new

\* memory_free gives back two blocks for each entry.
LEMMA FreePreserves == MemoryInv /\ memory_free => MemoryInv'
<1> SUFFICES ASSUME MemoryInv, memory_free PROVE MemoryInv'
  OBVIOUS
<1>1. blocks' = 2 * refused' /\ refused' \in 0 .. MaxRefusals
  <2>1. Cardinality(DOMAIN data) \in Nat
    BY FS_CardinalityType DEF MemoryInv
  <2> QED BY <2>1, BoundAssumption
          DEF MemoryInv, MemoryTypeOK, HeapBalance, memory_free
<1>2. MemoryTypeOK'
  <2>1. DOMAIN data' \subseteq relocatable /\ data' \in [DOMAIN data' -> maybe_relocatable]
    BY EmptyTableFacts DEF memory_free
  <2>2. blocks' \in Nat
    <3>1. refused' \in Nat
      BY <1>1, BoundAssumption
    <3>2. \A n \in Nat : 2 * n \in Nat
      OBVIOUS
    <3> QED BY <1>1, <3>1, <3>2
  <2> QED BY <1>1, <2>1, <2>2, NoCallIsFrame
          DEF MemoryInv, MemoryTypeOK, memory_free
<1>3. IsFiniteSet(DOMAIN data') /\ HeapBalance'
  BY <1>1, EmptyTableFacts, BoundAssumption DEF HeapBalance, memory_free
<1> QED BY <1>2, <1>3, NoCallIsFrame DEF MemoryInv, memory_free

\* An action that leaves everything but the counter of segments and the frame.
LEMMA FrameOnlyPreserves ==
  ASSUME MemoryInv,
         UNCHANGED <<live, data, blocks, refused>>, live,
         num_segments' \in 0 .. SegMod - 1,
         call' \in Frame, Stored(data, call'), InLoop(call')
  PROVE  MemoryInv'
  BY DEF MemoryInv, MemoryTypeOK, HeapBalance

\* memory_add_segment, whether its counter wraps or not.
LEMMA AddSegmentPreserves == MemoryInv /\ AddSegment => MemoryInv'
<1> SUFFICES ASSUME MemoryInv, AddSegment PROVE MemoryInv'
  OBVIOUS
<1>1. num_segments' = (num_segments + 1) % SegMod /\ num_segments \in 0 .. SegMod - 1
  BY DEF AddSegment, memory_add_segment, MemoryInv, MemoryTypeOK
<1>2. num_segments' \in 0 .. SegMod - 1
  BY <1>1, DivMod, WidthAssumption
<1>3. [segment_index |-> num_segments, offset |-> 0] \in relocatable
  BY <1>1, WidthAssumption DEF relocatable
<1>4. call' = NewFrame("add_segment", [segment_index |-> num_segments, offset |-> 0],
                       << >>, 0, "ok")
  BY DEF AddSegment, memory_add_segment
<1>5. call' \in Frame /\ call'.index = 0 /\ call'.status = "ok"
  <2>1. << >> \in Seq(maybe_relocatable)
    OBVIOUS
  <2> QED BY <1>3, <1>4, <2>1 DEF NewFrame, Frame
<1>6. Stored(data, call') /\ InLoop(call')
  BY <1>5 DEF Stored, InLoop
<1> QED BY <1>2, <1>5, <1>6, FrameOnlyPreserves DEF AddSegment, Ready

\* memory_insert, whoever calls it, with the frame it leaves.
LEMMA StorePreserves ==
  ASSUME MemoryInv, live,
         NEW ptr \in relocatable, NEW value \in maybe_relocatable,
         NEW ok \in BOOLEAN, InsertPromises(ptr, value, ok),
         call' \in Frame, Stored(data', call'), InLoop(call')
  PROVE  MemoryInv'
<1>1. blocks' \in Nat
  <2>1. Cardinality(DOMAIN data') \in Nat
    BY FS_CardinalityType DEF InsertPromises
  <2> QED BY <2>1, BoundAssumption DEF InsertPromises
<1>2. MemoryTypeOK'
  BY <1>1 DEF InsertPromises, MemoryInv, MemoryTypeOK
<1>3. IsFiniteSet(DOMAIN data') /\ HeapBalance'
  BY DEF InsertPromises, HeapBalance
<1> QED BY <1>2, <1>3 DEF InsertPromises, MemoryInv

\* memory_insert called by the client.
LEMMA InsertPreserves ==
  ASSUME NEW ptr \in Addresses, NEW value \in Values, MemoryInv, Insert(ptr, value)
  PROVE  MemoryInv'
<1>1. ptr \in relocatable /\ value \in maybe_relocatable
  BY ClientAssumption
<1>2. PICK ok \in BOOLEAN :
        /\ memory_insert(ptr, value, ok)
        /\ call' = IF ok THEN NewFrame("insert", ptr, <<value>>, 1, "ok")
                         ELSE NewFrame("insert", ptr, <<value>>, 0, "error")
  BY DEF Insert
<1>3. InsertPromises(ptr, value, ok)
  BY <1>1, <1>2, InsertKeepsPromises DEF MemoryInv, MemoryTypeOK
<1>4. call' \in Frame
  <2>1. <<value>> \in Seq(maybe_relocatable)
    BY <1>1
  <2> QED BY <1>1, <1>2, <2>1 DEF NewFrame, Frame
<1>5. Stored(data', call')
  <2>1. CASE ok
    <3>1. call'.base = ptr /\ call'.index = 1 /\ call'.array[1] = value
      BY <1>2, <2>1 DEF NewFrame
    <3>2. Advance(ptr, 0) = ptr
      BY <1>1, AdvanceSteps
    <3> QED BY <1>3, <2>1, <3>1, <3>2 DEF Stored, InsertPromises
  <2>2. CASE ~ok
    BY <1>2, <2>2 DEF NewFrame, Stored
  <2> QED BY <2>1, <2>2
<1>6. InLoop(call')
  BY <1>2 DEF InLoop, NewFrame
<1> QED BY <1>1, <1>3, <1>4, <1>5, <1>6, StorePreserves DEF Insert, Ready

\* memory_load_data is entered.
LEMMA LoadPreserves ==
  ASSUME NEW ptr \in relocatable, NEW array \in Seq(maybe_relocatable),
         MemoryInv, memory_load_data(ptr, array)
  PROVE  MemoryInv'
<1>1. call' = NewFrame("load", ptr, array, 0, "running")
  BY DEF memory_load_data
<1>2. call' \in Frame /\ call'.index = 0 /\ call'.ptr = ptr /\ call'.base = ptr
      /\ call'.array = array /\ call'.op = "load"
  BY <1>1 DEF NewFrame, Frame
<1>3. Stored(data, call')
  BY <1>2 DEF Stored
<1>4. InLoop(call')
  <2>1. Advance(ptr, 0) = ptr
    BY AdvanceSteps
  <2>2. 0 <= Len(array)
    OBVIOUS
  <2> QED BY <1>2, <2>1, <2>2 DEF InLoop
<1>5. num_segments' \in 0 .. SegMod - 1
  BY DEF memory_load_data, MemoryInv, MemoryTypeOK
<1> QED BY <1>2, <1>3, <1>4, <1>5, FrameOnlyPreserves DEF memory_load_data, Ready

\* A turn of the loop is an insert at ptr of the next element.
LEMMA LoadStepInserts ==
  ASSUME MemoryInv, LoadStep
  PROVE  /\ live /\ call.ptr \in relocatable
         /\ call.array[call.index + 1] \in maybe_relocatable
         /\ \E ok \in BOOLEAN :
              /\ memory_insert(call.ptr, call.array[call.index + 1], ok)
              /\ InsertPromises(call.ptr, call.array[call.index + 1], ok)
              /\ call' = IF ok
                         THEN [call EXCEPT !.ptr = Advance(@, 1), !.index = @ + 1]
                         ELSE [call EXCEPT !.status = "error"]
<1> DEFINE value == call.array[call.index + 1]
<1>1. /\ call \in Frame /\ call.status = "running" /\ call.index < Len(call.array)
  BY DEF MemoryInv, MemoryTypeOK, LoadStep
<1>2. /\ call.ptr \in relocatable /\ call.index \in Nat
      /\ call.array \in Seq(maybe_relocatable) /\ value \in maybe_relocatable
  BY <1>1 DEF Frame
<1>3. live
  BY <1>1 DEF MemoryInv, NoCall, NewFrame
<1>4. PICK ok \in BOOLEAN :
        /\ memory_insert(call.ptr, value, ok)
        /\ call' = IF ok THEN [call EXCEPT !.ptr = Advance(@, 1), !.index = @ + 1]
                         ELSE [call EXCEPT !.status = "error"]
  BY DEF LoadStep
<1>5. InsertPromises(call.ptr, value, ok)
  BY <1>2, <1>4, InsertKeepsPromises DEF MemoryInv, MemoryTypeOK
<1> QED BY <1>2, <1>3, <1>4, <1>5

\* A turn of the loop, which ends it or moves ptr and the iterator together.
LEMMA LoadStepPreserves == MemoryInv /\ LoadStep => MemoryInv'
<1> SUFFICES ASSUME MemoryInv, LoadStep PROVE MemoryInv'
  OBVIOUS
<1> DEFINE value == call.array[call.index + 1]
<1>1. /\ call \in Frame /\ call.status = "running" /\ call.index < Len(call.array)
      /\ call.ptr = Advance(call.base, call.index) /\ call.op = "load"
  BY DEF MemoryInv, MemoryTypeOK, InLoop, LoadStep
<1>2. /\ call.base \in relocatable /\ call.ptr \in relocatable /\ call.index \in Nat
      /\ call.array \in Seq(maybe_relocatable) /\ value \in maybe_relocatable
  BY <1>1, LoadStepInserts DEF Frame
<1>3. live
  BY LoadStepInserts
<1>4. PICK ok \in BOOLEAN :
        /\ InsertPromises(call.ptr, value, ok)
        /\ call' = IF ok THEN [call EXCEPT !.ptr = Advance(@, 1), !.index = @ + 1]
                         ELSE [call EXCEPT !.status = "error"]
  BY LoadStepInserts
<1>5. InsertPromises(call.ptr, value, ok)
  BY <1>4
<1>6. Stored(data', call)
  BY <1>5, StoredIsKept DEF MemoryInv, InsertPromises
<1>7. CASE ok
  <2>1. Advance(call.ptr, 1) = Advance(call.base, call.index + 1)
    <3>1. Advance(Advance(call.base, call.index), 1) = Advance(call.base, call.index + 1)
      BY <1>2, AdvanceSteps
    <3> QED BY <1>1, <3>1
  <2>2. Advance(call.ptr, 1) \in relocatable
    BY <1>2, AdvanceSteps
  <2>3. call' = [call EXCEPT !.ptr = Advance(@, 1), !.index = @ + 1]
    BY <1>4, <1>7
  <2>4. /\ call' \in Frame
        /\ call'.base = call.base /\ call'.array = call.array
        /\ call'.index = call.index + 1 /\ call'.ptr = Advance(call.ptr, 1)
        /\ call'.op = call.op
    BY <1>1, <2>2, <2>3, FrameAdvances
  <2>5. InLoop(call')
    BY <1>1, <1>2, <2>1, <2>4 DEF InLoop
  <2>6. Stored(data', call')
    <3> SUFFICES ASSUME NEW i \in 0 .. call.index
                 PROVE  /\ Advance(call.base, i) \in DOMAIN data'
                        /\ data'[Advance(call.base, i)] = call.array[i + 1]
      BY <1>2, <2>4 DEF Stored
    <3>1. CASE i = call.index
      BY <1>1, <1>5, <1>7, <3>1 DEF InsertPromises
    <3>2. CASE i # call.index
      <4>1. i \in 0 .. call.index - 1
        BY <1>2, <3>2
      <4> QED BY <1>6, <4>1 DEF Stored
    <3> QED BY <3>1, <3>2
  <2> QED BY <1>2, <1>3, <1>5, <2>4, <2>5, <2>6, StorePreserves
<1>8. CASE ~ok
  <2>1. call' = [call EXCEPT !.status = "error"]
    BY <1>4, <1>8
  <2>2. /\ call' \in Frame /\ call'.status = "error"
        /\ call'.base = call.base /\ call'.array = call.array
        /\ call'.index = call.index
    BY <1>1, <2>1 DEF Frame
  <2>3. InLoop(call') /\ Stored(data', call')
    BY <1>6, <2>2 DEF InLoop, Stored
  <2> QED BY <1>2, <1>3, <1>5, <2>2, <2>3, StorePreserves
<1> QED BY <1>7, <1>8

\* The loop is over.
LEMMA LoadReturnPreserves == MemoryInv /\ LoadReturn => MemoryInv'
<1> SUFFICES ASSUME MemoryInv, LoadReturn PROVE MemoryInv'
  OBVIOUS
<1>1. /\ call \in Frame /\ call' = [call EXCEPT !.status = "ok"]
      /\ UNCHANGED <<live, num_segments, data, blocks, refused>>
      /\ call.status = "running"
  BY DEF MemoryInv, MemoryTypeOK, LoadReturn
<1>2. live
  BY <1>1 DEF MemoryInv, NoCall, NewFrame
<1>3. /\ call' \in Frame /\ call'.status = "ok"
      /\ call'.base = call.base /\ call'.array = call.array
      /\ call'.index = call.index
  BY <1>1 DEF Frame
<1>4. InLoop(call') /\ Stored(data, call')
  BY <1>3 DEF InLoop, Stored, MemoryInv
<1>5. num_segments' \in 0 .. SegMod - 1
  BY <1>1 DEF MemoryInv, MemoryTypeOK
<1> QED BY <1>1, <1>2, <1>3, <1>4, <1>5, FrameOnlyPreserves

\* Every step.
LEMMA StepPreserves == MemoryInv /\ [MemoryNext]_memory_vars => MemoryInv'
<1> SUFFICES ASSUME MemoryInv, [MemoryNext]_memory_vars PROVE MemoryInv'
  OBVIOUS
<1>1. CASE memory_new
  BY <1>1, NewPreserves
<1>2. CASE AddSegment
  BY <1>2, AddSegmentPreserves
<1>3. CASE \E ptr \in Addresses, value \in Values : Insert(ptr, value)
  BY <1>3, InsertPreserves
<1>4. CASE \E ptr \in Addresses, array \in Arrays : memory_load_data(ptr, array)
  BY <1>4, LoadPreserves, ClientAssumption
<1>5. CASE LoadStep
  BY <1>5, LoadStepPreserves
<1>6. CASE LoadReturn
  BY <1>6, LoadReturnPreserves
<1>7. CASE Ready /\ memory_free
  BY <1>7, FreePreserves
<1>8. CASE UNCHANGED memory_vars
  BY <1>8 DEF MemoryInv, MemoryTypeOK, HeapBalance, memory_vars
<1> QED BY <1>1, <1>2, <1>3, <1>4, <1>5, <1>6, <1>7, <1>8 DEF MemoryNext, ClientCall

-----------------------------------------------------------------------------
(* Safety, with no assumption on the number of segments.                   *)

\* The invariant holds of every behaviour of the memory.
THEOREM Invariance == MemorySpec => []MemoryInv
<1>1. MemoryInit => MemoryInv
  BY InitEstablishes
<1>2. MemoryInv /\ [MemoryNext]_memory_vars => MemoryInv'
  BY StepPreserves
<1> QED BY <1>1, <1>2, PTL DEF MemorySpec

\* memory.h:11-14: the fields of the memory and the frame of a call always
\* hold values of their types, however the counters wrap.
THEOREM TypeCorrect == MemorySpec => []MemoryTypeOK
<1>1. MemoryInv => MemoryTypeOK
  BY DEF MemoryInv
<1> QED BY <1>1, Invariance, PTL

\* memory_insert takes two blocks for each entry, and two more for each entry
\* the table refuses, which nothing gives back (memory.c:57-66, 118-129).
THEOREM BlocksAccounted == MemorySpec => []HeapBalance
<1>1. MemoryInv => HeapBalance
  BY DEF MemoryInv
<1> QED BY <1>1, Invariance, PTL

\* What memory_insert and memory_load_data accepted is what memory_get returns
\* at the place it was meant for, in the middle of a load and after an error.
THEOREM AcceptedIsRead == MemorySpec => []AcceptedIsStored
<1>1. MemoryInv => AcceptedIsStored
  BY StoredIsRead DEF MemoryInv
<1> QED BY <1>1, Invariance, PTL

\* Every step that does not end the memory keeps every entry of the table.
LEMMA StepKeepsCells ==
  ASSUME MemoryInv, [MemoryNext]_memory_vars, live'
  PROVE  \A x \in DOMAIN data : x \in DOMAIN data' /\ data'[x] = data[x]
<1>1. CASE memory_new
  BY <1>1 DEF memory_new, MemoryInv, EmptyTable
<1>2. CASE AddSegment
  BY <1>2 DEF AddSegment
<1>3. CASE \E ptr \in Addresses, value \in Values : Insert(ptr, value)
  <2>1. PICK ptr \in Addresses, value \in Values, ok \in BOOLEAN :
          memory_insert(ptr, value, ok)
    BY <1>3 DEF Insert
  <2>2. InsertPromises(ptr, value, ok)
    BY <2>1, ClientAssumption, InsertKeepsPromises DEF MemoryInv, MemoryTypeOK
  <2> QED BY <2>2 DEF InsertPromises
<1>4. CASE \E ptr \in Addresses, array \in Arrays : memory_load_data(ptr, array)
  BY <1>4 DEF memory_load_data
<1>5. CASE LoadStep
  BY <1>5, LoadStepInserts DEF InsertPromises
<1>6. CASE LoadReturn
  BY <1>6 DEF LoadReturn
<1>7. CASE Ready /\ memory_free
  BY <1>7 DEF memory_free
<1>8. CASE UNCHANGED memory_vars
  BY <1>8 DEF memory_vars
<1> QED BY <1>1, <1>2, <1>3, <1>4, <1>5, <1>6, <1>7, <1>8 DEF MemoryNext, ClientCall

\* No call changes or removes a cell before memory_free, in the middle of a
\* load and after an error included (memory.c:45-54, the overwrite guard).
THEOREM CellsAreWrittenOnce == MemorySpec => WriteOnce
<1>1. MemoryInv /\ [MemoryNext]_memory_vars =>
        [live' => \A ptr \in DOMAIN data :
           ptr \in DOMAIN data' /\ data'[ptr] = data[ptr]]_memory_vars
  BY StepKeepsCells
<1> QED BY <1>1, Invariance, PTL DEF MemorySpec, WriteOnce

-----------------------------------------------------------------------------
(* Errors.                                                                 *)

\* An insert that fails without a refusal leaves what made it fail.
LEMMA FailedInsert ==
  ASSUME MemoryInv, NEW ptr \in relocatable, NEW value \in maybe_relocatable,
         memory_insert(ptr, value, FALSE), refused' = 0
  PROVE  \/ ptr.segment_index \notin Allocated'
         \/ /\ ~cc_hashtable_get(data', ptr).is_error
            /\ cc_hashtable_get(data', ptr) # Found(value)
<1>1. refused \in Nat /\ live' = live /\ num_segments' = num_segments
  BY BoundAssumption DEF MemoryInv, MemoryTypeOK, memory_insert
<1>2. CASE ~InBounds(ptr)
  <2>1. ptr.segment_index \in Nat /\ num_segments \in Nat
    BY WidthAssumption DEF relocatable, MemoryInv, MemoryTypeOK
  <2> QED BY <1>1, <1>2, <2>1 DEF Allocated, InBounds
<1>3. CASE /\ ~memory_get(ptr).is_error /\ data' = data
           /\ FALSE = maybe_relocatable_equal(memory_get(ptr).memory_value, value)
  <2>1. memory_get(ptr) = Found(data[ptr]) /\ ptr \in DOMAIN data
    BY <1>3, Lookup DEF memory_get, NotFound, MemoryInv, MemoryTypeOK
  <2>2. data[ptr] \in maybe_relocatable /\ memory_get(ptr).memory_value = data[ptr]
    BY <2>1 DEF MemoryInv, MemoryTypeOK, Found
  <2>3. data[ptr] # value
    BY <1>3, <2>2, ValueEquality
  <2>4. Found(data[ptr]) # Found(value)
    BY <2>3, FoundFacts
  <2> QED BY <1>3, <2>1, <2>4 DEF memory_get
<1>4. CASE refused' = refused + 1
  BY <1>1, <1>4
<1> QED BY <1>2, <1>3, <1>4 DEF memory_insert

\* The frame of an error keeps its cause, and no other frame is one.
LEMMA StepKeepsCause ==
  ASSUME MemoryInv, ErrorHasCause, [MemoryNext]_memory_vars
  PROVE  ErrorHasCause'
<1>1. CASE memory_new \/ (Ready /\ memory_free)
  BY <1>1 DEF memory_new, memory_free, NoCall, NewFrame, ErrorHasCause
<1>2. CASE AddSegment
  BY <1>2 DEF AddSegment, NewFrame, ErrorHasCause
<1>3. CASE \E ptr \in Addresses, value \in Values : Insert(ptr, value)
  <2>1. PICK ptr \in Addresses, value \in Values, ok \in BOOLEAN :
          /\ memory_insert(ptr, value, ok)
          /\ call' = IF ok THEN NewFrame("insert", ptr, <<value>>, 1, "ok")
                           ELSE NewFrame("insert", ptr, <<value>>, 0, "error")
    BY <1>3 DEF Insert
  <2>2. CASE ok
    BY <2>1, <2>2 DEF NewFrame, ErrorHasCause
  <2>3. CASE ~ok
    <3>1. /\ call'.ptr = ptr /\ call'.index = 0 /\ call'.array = <<value>>
          /\ memory_insert(ptr, value, FALSE)
      BY <2>1, <2>3 DEF NewFrame
    <3>2. call'.array[call'.index + 1] = value
      BY <3>1
    <3> QED BY <3>1, <3>2, FailedInsert, ClientAssumption DEF ErrorHasCause, memory_get
  <2> QED BY <2>2, <2>3
<1>4. CASE \E ptr \in Addresses, array \in Arrays : memory_load_data(ptr, array)
  BY <1>4 DEF memory_load_data, NewFrame, ErrorHasCause
<1>5. CASE LoadStep
  <2>1. PICK ok \in BOOLEAN :
          /\ memory_insert(call.ptr, call.array[call.index + 1], ok)
          /\ call' = IF ok THEN [call EXCEPT !.ptr = Advance(@, 1), !.index = @ + 1]
                           ELSE [call EXCEPT !.status = "error"]
    BY <1>5 DEF LoadStep
  <2>2. /\ call \in Frame /\ call.status = "running" /\ call.ptr \in relocatable
        /\ call.array[call.index + 1] \in maybe_relocatable
    BY <1>5, LoadStepInserts DEF MemoryInv, MemoryTypeOK, LoadStep
  <2>3. CASE ok
    <3>1. call'.status = "running"
      BY <2>1, <2>2, <2>3 DEF Frame
    <3> QED BY <3>1 DEF ErrorHasCause
  <2>4. CASE ~ok
    <3>1. /\ call'.ptr = call.ptr /\ call'.index = call.index
          /\ call'.array = call.array
      BY <2>1, <2>2, <2>4 DEF Frame
    <3>2. memory_insert(call.ptr, call.array[call.index + 1], FALSE)
      BY <2>1, <2>4
    <3>3. refused' = 0 =>
            \/ call.ptr.segment_index \notin Allocated'
            \/ /\ ~cc_hashtable_get(data', call.ptr).is_error
               /\ cc_hashtable_get(data', call.ptr)
                    # Found(call.array[call.index + 1])
      BY <2>2, <3>2, FailedInsert
    <3> QED BY <3>1, <3>3 DEF ErrorHasCause, memory_get
  <2> QED BY <2>3, <2>4
<1>6. CASE LoadReturn
  BY <1>6 DEF LoadReturn, MemoryInv, MemoryTypeOK, Frame, ErrorHasCause
<1>7. CASE UNCHANGED memory_vars
  BY <1>7 DEF memory_vars, ErrorHasCause, memory_get, Allocated
<1> QED BY <1>1, <1>2, <1>3, <1>4, <1>5, <1>6, <1>7 DEF MemoryNext, ClientCall

\* As long as the table refuses nothing, whoever is told of an error finds its
\* cause in the memory (memory.c:40-54).
THEOREM ErrorsHaveCauses == MemorySpec => []ErrorHasCause
<1>1. MemoryInit => ErrorHasCause
  BY DEF MemoryInit, ErrorHasCause, NoCall, NewFrame
<1>2. MemoryInv /\ ErrorHasCause /\ [MemoryNext]_memory_vars => ErrorHasCause'
  BY StepKeepsCause
<1> QED BY <1>1, <1>2, Invariance, PTL DEF MemorySpec

-----------------------------------------------------------------------------
(* Loads.                                                                  *)

\* A load that runs goes on to the next element of its array, or ends: at the
\* end of the array, or with an error on the element it was at.
LoadGoesOn ==
  call.status = "running" =>
    /\ call'.base = call.base /\ call'.array = call.array
    /\ \/ call'.status = "running" /\ call'.index = call.index + 1
          /\ call'.index <= Len(call.array)
       \/ call'.status = "error" /\ call'.index = call.index
       \/ call'.status = "ok" /\ call'.index = call.index /\ call.index = Len(call.array)

LEMMA LoadStepGoesOn ==
  ASSUME MemoryInv, LoadStep
  PROVE  LoadGoesOn
<1>1. call \in Frame /\ Len(call.array) \in Nat /\ call.index \in Nat /\ call.index < Len(call.array)
  BY DEF MemoryInv, MemoryTypeOK, Frame, LoadStep
<1>2. PICK ok \in BOOLEAN :
        call' = IF ok THEN [call EXCEPT !.ptr = Advance(@, 1), !.index = @ + 1]
                      ELSE [call EXCEPT !.status = "error"]
  BY DEF LoadStep
<1>3. CASE ok
  BY <1>1, <1>2, <1>3 DEF LoadGoesOn, Frame
<1>4. CASE ~ok
  BY <1>1, <1>2, <1>4 DEF LoadGoesOn, Frame
<1> QED BY <1>3, <1>4

LEMMA LoadReturnGoesOn ==
  ASSUME MemoryInv, LoadReturn
  PROVE  LoadGoesOn
BY DEF MemoryInv, MemoryTypeOK, Frame, LoadReturn, LoadGoesOn

\* Nothing comes between the turns of the loop of memory_load_data, and each of
\* them moves the iterator by one, so that a load of n elements takes at most
\* n turns, whatever its array overwrites or runs into (memory.c:80).
THEOREM LoadsGoOn == MemorySpec => [][LoadGoesOn]_memory_vars
<1>1. ASSUME MemoryInv, MemoryNext PROVE LoadGoesOn
  <2>1. CASE memory_new
    BY <1>1, <2>1 DEF memory_new, MemoryInv, NoCall, NewFrame, LoadGoesOn
  <2>2. CASE ClientCall \/ (Ready /\ memory_free)
    BY <2>2 DEF ClientCall, AddSegment, Insert, memory_load_data, Ready, LoadGoesOn
  <2>3. CASE LoadStep
    BY <1>1, <2>3, LoadStepGoesOn
  <2>4. CASE LoadReturn
    BY <1>1, <2>4, LoadReturnGoesOn
  <2> QED BY <1>1, <2>1, <2>2, <2>3, <2>4 DEF MemoryNext
<1>2. MemoryInv /\ [MemoryNext]_memory_vars => [LoadGoesOn]_memory_vars
  BY <1>1
<1> QED BY <1>2, Invariance, PTL DEF MemorySpec

-----------------------------------------------------------------------------
(* Segments: what holds as long as num_segments cannot wrap.               *)

\* A client that adds fewer segments than an unsigned can count.
NoSegmentWrap == MaxSegments < SegMod

\* FreshSegment needs to know that no cell lies in a segment that was not
\* added, and that takes the bound on num_segments to be preserved with it.
SegmentInv ==
  /\ MemoryInv
  /\ num_segments <= MaxSegments
  /\ SegmentsAllocated

\* The segment that memory_add_segment counts is the next one.
LEMMA NextSegment ==
  ASSUME NoSegmentWrap, SegmentInv, AddSegment
  PROVE  /\ num_segments' = num_segments + 1 /\ num_segments' <= MaxSegments
         /\ num_segments \in Nat
         /\ live /\ live' /\ data' = data
         /\ call' = NewFrame("add_segment",
                      [segment_index |-> num_segments, offset |-> 0], << >>, 0, "ok")
<1>1. /\ num_segments' = (num_segments + 1) % SegMod
      /\ num_segments \in 0 .. SegMod - 1 /\ num_segments < MaxSegments
  BY DEF AddSegment, memory_add_segment, SegmentInv, MemoryInv, MemoryTypeOK
<1>2. num_segments + 1 \in 0 .. SegMod - 1 /\ SegMod \in Nat \ {0}
  BY <1>1, WidthAssumption, BoundAssumption DEF NoSegmentWrap
<1>3. (SegMod * 0 + (num_segments + 1)) % SegMod = num_segments + 1
  BY <1>2, ModUnique
<1>4. (num_segments + 1) % SegMod = num_segments + 1
  BY <1>2, <1>3
<1> QED BY <1>1, <1>4, BoundAssumption
        DEF AddSegment, memory_add_segment, Ready

\* An insert puts nothing outside the segments that exist.
LEMMA InsertStaysAllocated ==
  ASSUME SegmentsAllocated, num_segments \in Nat, live,
         NEW ptr, ptr.segment_index \in Nat, NEW value, NEW ok,
         InsertPromises(ptr, value, ok)
  PROVE  SegmentsAllocated' /\ Allocated' = Allocated
<1>1. Allocated' = Allocated /\ Allocated = 0 .. num_segments - 1
  BY DEF Allocated, InsertPromises
<1>2. InBounds(ptr) => ptr.segment_index \in Allocated
  BY <1>1 DEF InBounds
<1> QED BY <1>1, <1>2 DEF SegmentsAllocated, InsertPromises

\* A table without entries has none outside the segments that exist.
LEMMA EmptyIsAllocated == data' = EmptyTable => SegmentsAllocated'
  BY DEF SegmentsAllocated, EmptyTable

\* Every step keeps the cells inside the segments, and the counter bounded.
LEMMA SegmentStep ==
  ASSUME NoSegmentWrap, SegmentInv, [MemoryNext]_memory_vars
  PROVE  SegmentInv'
<1>1. MemoryInv'
  BY StepPreserves DEF SegmentInv
<1>2. num_segments \in Nat /\ num_segments <= MaxSegments /\ MaxSegments \in Nat
  BY BoundAssumption, WidthAssumption DEF SegmentInv, MemoryInv, MemoryTypeOK
<1>3. CASE memory_new
  BY <1>1, <1>2, <1>3, EmptyIsAllocated DEF SegmentInv, memory_new
<1>4. CASE AddSegment
  <2>1. Allocated \subseteq Allocated'
    BY <1>2, <1>4, NextSegment DEF Allocated
  <2> QED BY <1>1, <1>2, <1>4, <2>1, NextSegment DEF SegmentInv, SegmentsAllocated
<1>5. CASE \E ptr \in Addresses, value \in Values : Insert(ptr, value)
  <2>1. PICK ptr \in Addresses, value \in Values, ok \in BOOLEAN :
          live /\ memory_insert(ptr, value, ok)
    BY <1>5 DEF Insert, Ready
  <2>2. InsertPromises(ptr, value, ok)
    BY <2>1, ClientAssumption, InsertKeepsPromises
    DEF SegmentInv, MemoryInv, MemoryTypeOK
  <2>3. ptr.segment_index \in Nat
    BY ClientAssumption, WidthAssumption DEF relocatable
  <2> QED BY <1>1, <1>2, <2>1, <2>2, <2>3, InsertStaysAllocated
          DEF SegmentInv, InsertPromises
<1>6. CASE LoadStep
  <2>1. PICK ok \in BOOLEAN :
          InsertPromises(call.ptr, call.array[call.index + 1], ok)
    BY <1>6, LoadStepInserts DEF SegmentInv
  <2>2. live /\ call.ptr.segment_index \in Nat
    BY <1>6, LoadStepInserts, WidthAssumption DEF SegmentInv, relocatable
  <2> QED BY <1>1, <1>2, <2>1, <2>2, InsertStaysAllocated
          DEF SegmentInv, InsertPromises
<1>7. CASE Ready /\ memory_free
  BY <1>1, <1>2, <1>7, EmptyIsAllocated DEF SegmentInv, memory_free
<1>8. CASE UNCHANGED <<live, num_segments, data>>
  BY <1>1, <1>2, <1>8 DEF SegmentInv, SegmentsAllocated, Allocated
<1>9. CASE \E ptr \in Addresses, array \in Arrays : memory_load_data(ptr, array)
  BY <1>8, <1>9 DEF memory_load_data
<1>10. CASE LoadReturn
  BY <1>8, <1>10 DEF LoadReturn
<1>11. CASE UNCHANGED memory_vars
  BY <1>8, <1>11 DEF memory_vars
<1> QED BY <1>3, <1>4, <1>5, <1>6, <1>7, <1>9, <1>10, <1>11 DEF MemoryNext, ClientCall

\* The invariant of the segments holds of every behaviour.
LEMMA SegmentInvariance == NoSegmentWrap => (MemorySpec => []SegmentInv)
<1> SUFFICES ASSUME NoSegmentWrap PROVE MemorySpec => []SegmentInv
  OBVIOUS
<1>1. MemoryInit => SegmentInv
  BY InitEstablishes, BoundAssumption
  DEF MemoryInit, SegmentInv, SegmentsAllocated, EmptyTable
<1>2. SegmentInv /\ [MemoryNext]_memory_vars => SegmentInv'
  BY SegmentStep
<1> QED BY <1>1, <1>2, PTL DEF MemorySpec

\* memory.c:40: no cell ever lies in a segment that memory_add_segment has not
\* returned, whoever writes it.
THEOREM CellsAreAllocated == NoSegmentWrap => (MemorySpec => []SegmentsAllocated)
<1> SUFFICES ASSUME NoSegmentWrap PROVE MemorySpec => []SegmentsAllocated
  OBVIOUS
<1>1. SegmentInv => SegmentsAllocated
  BY DEF SegmentInv
<1> QED BY <1>1, SegmentInvariance, PTL

\* A frame of memory_add_segment is made by that call only.
LEMMA OnlyAddSegmentAdds ==
  ASSUME MemoryInv, [MemoryNext]_memory_vars,
         call'.op = "add_segment", call' # call
  PROVE  AddSegment
<1>1. ~memory_new /\ ~memory_free
  BY DEF memory_new, memory_free, NoCall, NewFrame
<1>2. ASSUME NEW ptr, NEW value PROVE ~Insert(ptr, value)
  BY DEF Insert, NewFrame
<1>3. ASSUME NEW ptr, NEW array PROVE ~memory_load_data(ptr, array)
  BY DEF memory_load_data, NewFrame
<1>4. call.status = "running" => call.op = "load" /\ call \in Frame
  BY DEF MemoryInv, MemoryTypeOK, InLoop
<1>5. ~LoadReturn
  BY <1>4 DEF LoadReturn, Frame
<1>6. ~LoadStep
  <2> SUFFICES ASSUME LoadStep PROVE FALSE
    OBVIOUS
  <2>1. \/ call' = [call EXCEPT !.ptr = Advance(@, 1), !.index = @ + 1]
        \/ call' = [call EXCEPT !.status = "error"]
    BY LoadStepInserts
  <2>2. call.op = "load" /\ call \in Frame
    BY <1>4 DEF LoadStep
  <2>3. CASE call' = [call EXCEPT !.status = "error"]
    BY <2>2, <2>3 DEF Frame
  <2>4. CASE call' = [call EXCEPT !.ptr = Advance(@, 1), !.index = @ + 1]
    <3>1. call.ptr \in relocatable
      BY <2>2 DEF Frame
    <3>2. Advance(call.ptr, 1) \in relocatable
      BY <3>1, AdvanceSteps
    <3> QED BY <2>2, <2>4, <3>2, FrameAdvances
  <2> QED BY <2>1, <2>3, <2>4
<1> QED BY <1>1, <1>2, <1>3, <1>5, <1>6 DEF MemoryNext, ClientCall, memory_vars

\* What memory_add_segment returns, and what it is like before and after.
LEMMA NewSegmentIsFresh ==
  ASSUME NoSegmentWrap, SegmentInv, AddSegment
  PROVE  LET new == call'.ptr.segment_index IN
         /\ new \notin Allocated
         /\ new \in Allocated'
         /\ \A o \in 0 .. OffMod - 1 :
              cc_hashtable_get(data', [segment_index |-> new, offset |-> o]).is_error
<1>1. /\ call'.ptr.segment_index = num_segments
      /\ num_segments \in Nat /\ num_segments \in 0 .. SegMod - 1
  BY NextSegment DEF NewFrame, SegmentInv, MemoryInv, MemoryTypeOK
<1>2. num_segments \notin Allocated /\ num_segments \in Allocated'
  BY <1>1, NextSegment DEF Allocated
<1>3. ASSUME NEW o \in 0 .. OffMod - 1
      PROVE  cc_hashtable_get(data', [segment_index |-> num_segments,
                                      offset |-> o]).is_error
  <2> DEFINE ptr == [segment_index |-> num_segments, offset |-> o]
  <2>1. ptr \in relocatable /\ ptr.segment_index = num_segments
    BY <1>1 DEF relocatable
  <2>2. ptr \notin DOMAIN data /\ data' = data
    BY <1>2, <2>1, NextSegment DEF SegmentInv, SegmentsAllocated
  <2>3. cc_hashtable_get(data', ptr) = NotFound
    BY <2>1, <2>2, Lookup DEF SegmentInv, MemoryInv, MemoryTypeOK
  <2> QED BY <2>3 DEF NotFound
<1> QED BY <1>1, <1>2, <1>3

\* README.md:171: memory_add_segment creates a new, empty segment, as long as
\* the counter does not wrap.
THEOREM SegmentsAreFresh == NoSegmentWrap => (MemorySpec => FreshSegment)
<1> SUFFICES ASSUME NoSegmentWrap PROVE MemorySpec => FreshSegment
  OBVIOUS
<1>1. SegmentInv /\ [MemoryNext]_memory_vars =>
        [ call'.op = "add_segment" /\ call' # call =>
            LET new == call'.ptr.segment_index IN
            /\ new \notin Allocated
            /\ new \in Allocated'
            /\ \A o \in 0 .. OffMod - 1 :
                 cc_hashtable_get(data', [segment_index |-> new, offset |-> o]).is_error
        ]_memory_vars
  BY OnlyAddSegmentAdds, NewSegmentIsFresh DEF SegmentInv
<1> QED BY <1>1, SegmentInvariance, PTL DEF MemorySpec, FreshSegment

-----------------------------------------------------------------------------
(* Refinement: every call is a step of the write-once store, or none.      *)

\* An insert writes the cell it was given, which was empty, or nothing.
LEMMA InsertRefines ==
  ASSUME MemoryInv, num_segments \in Nat, live,
         NEW ptr \in relocatable, NEW value \in maybe_relocatable, NEW ok \in BOOLEAN,
         memory_insert(ptr, value, ok)
  PROVE  Store!Write(ptr, value) \/ UNCHANGED <<Allocated, data>>
<1>1. live' = live /\ num_segments' = num_segments /\ Allocated' = Allocated
  BY DEF memory_insert, Allocated
<1>2. CASE UNCHANGED data
  BY <1>1, <1>2
<1>3. CASE InBounds(ptr) /\ memory_get(ptr).is_error /\ cc_hashtable_add(ptr, value)
  <2>1. ptr \notin DOMAIN data
    BY <1>3, Lookup, FoundFacts DEF memory_get, Found, MemoryInv, MemoryTypeOK
  <2>2. ptr.segment_index \in Allocated
    BY <1>3, WidthAssumption DEF InBounds, Allocated, relocatable
  <2> QED BY <1>1, <1>3, <2>1, <2>2 DEF Store!Write, cc_hashtable_add
<1> QED BY <1>2, <1>3 DEF memory_insert

\* Every step is a step of the store, or changes nothing it can see.
LEMMA StepRefines ==
  ASSUME NoSegmentWrap, SegmentInv, [MemoryNext]_memory_vars
  PROVE  [Store!Next]_<<Allocated, data>>
<1>1. num_segments \in Nat /\ num_segments \in 0 .. SegMod - 1
  BY WidthAssumption DEF SegmentInv, MemoryInv, MemoryTypeOK
<1>2. CASE memory_new
  BY <1>2 DEF memory_new, SegmentInv, MemoryInv, Allocated
<1>3. CASE AddSegment
  <2>1. /\ Allocated' = Allocated \cup {num_segments} /\ data' = data
        /\ num_segments \notin Allocated
    BY <1>1, <1>3, NextSegment DEF Allocated
  <2>2. {num_segments} \in SUBSET ((0 .. SegMod - 1) \ Allocated)
    BY <1>1, <2>1
  <2>3. Store!Allocate
    BY <2>1, <2>2 DEF Store!Allocate
  <2> QED BY <2>3 DEF Store!Next
<1>4. CASE \E ptr \in Addresses, value \in Values : Insert(ptr, value)
  <2>1. PICK ptr \in Addresses, value \in Values, ok \in BOOLEAN :
          live /\ memory_insert(ptr, value, ok)
    BY <1>4 DEF Insert, Ready
  <2>2. ptr \in relocatable /\ value \in maybe_relocatable
    BY ClientAssumption
  <2>3. Store!Write(ptr, value) \/ UNCHANGED <<Allocated, data>>
    BY <1>1, <2>1, <2>2, InsertRefines DEF SegmentInv
  <2> QED BY <2>2, <2>3 DEF Store!Next
<1>5. CASE LoadStep
  <2> DEFINE value == call.array[call.index + 1]
  <2>1. PICK ok \in BOOLEAN : memory_insert(call.ptr, value, ok)
    BY <1>5, LoadStepInserts DEF SegmentInv
  <2>2. live /\ call.ptr \in relocatable /\ value \in maybe_relocatable
    BY <1>5, LoadStepInserts DEF SegmentInv
  <2>3. Store!Write(call.ptr, value) \/ UNCHANGED <<Allocated, data>>
    BY <1>1, <2>1, <2>2, InsertRefines DEF SegmentInv
  <2> QED BY <2>2, <2>3 DEF Store!Next
<1>6. CASE Ready /\ memory_free
  <2>1. Store!Discard
    BY <1>6 DEF memory_free, Store!Discard, Allocated, EmptyTable
  <2> QED BY <2>1 DEF Store!Next
<1>7. CASE UNCHANGED <<live, num_segments, data>>
  BY <1>7 DEF Allocated
<1>8. CASE \E ptr \in Addresses, array \in Arrays : memory_load_data(ptr, array)
  BY <1>7, <1>8 DEF memory_load_data
<1>9. CASE LoadReturn
  BY <1>7, <1>9 DEF LoadReturn
<1>10. CASE UNCHANGED memory_vars
  BY <1>7, <1>10 DEF memory_vars
<1> QED BY <1>2, <1>3, <1>4, <1>5, <1>6, <1>8, <1>9, <1>10 DEF MemoryNext, ClientCall

\* The memory, with its counter, its table, its half-done loads and its
\* refused entries, does nothing a write-once store would not do.
THEOREM MemoryImplementsStore == NoSegmentWrap => (MemorySpec => ImplementsStore)
<1> SUFFICES ASSUME NoSegmentWrap PROVE MemorySpec => ImplementsStore
  OBVIOUS
<1>1. MemoryInit => Store!Init
  BY DEF MemoryInit, Store!Init, Allocated, EmptyTable
<1>2. SegmentInv /\ [MemoryNext]_memory_vars => [Store!Next]_<<Allocated, data>>
  BY StepRefines
<1> QED BY <1>1, <1>2, SegmentInvariance, PTL
        DEF MemorySpec, ImplementsStore, Store!Spec

=============================================================================
