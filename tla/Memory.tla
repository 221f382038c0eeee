------------------------------- MODULE Memory -------------------------------
(***************************************************************************)
(* The write-once segmented memory of src/memory.h and src/memory.c, under *)
(* any sequence of calls of its API by one client.                         *)
(*                                                                         *)
(* The CC_HashTable is the function data from the addresses present to     *)
(* their values.  cc_hashtable_add belongs to Collections-C, which is not  *)
(* in this repository: it may refuse an entry (the error path of           *)
(* memory_insert), at most MaxRefusals times in a behaviour.               *)
(*                                                                         *)
(* memory_insert and memory_add_segment are single steps.                  *)
(* memory_load_data is a call frame and one step per turn of its loop, so  *)
(* that the states in which a load is half done, or has stopped half way,  *)
(* are states of the model.  The frame of the last call stays after it     *)
(* returns and is what the client was told.                                *)
(***************************************************************************)
EXTENDS Relocatable, Sequences, FiniteSets

CONSTANTS
  Addresses,     \* the addresses the client passes
  Values,        \* the values the client inserts
  Arrays,        \* the arrays the client loads
  MaxSegments,   \* the client stops adding segments here
  MaxRefusals    \* how often cc_hashtable_add may refuse an entry

ASSUME ClientAssumption ==
  /\ Addresses \subseteq relocatable
  /\ Values \subseteq maybe_relocatable
  /\ Arrays \subseteq Seq(maybe_relocatable)
ASSUME BoundAssumption == MaxSegments \in Nat /\ MaxRefusals \in Nat

VARIABLES
  live,           \* memory_new has been called and memory_free has not
  num_segments,   \* memory.num_segments
  data,           \* memory.data
  blocks,         \* keys and values malloc'ed and not yet freed
  refused,        \* entries refused by the table so far
  call            \* frame of the call being executed, or of the last one

memory_vars == <<live, num_segments, data, blocks, refused, call>>

Frame ==
  [op     : {"none", "add_segment", "insert", "load"},
   base   : relocatable,              \* the address passed by the caller
   ptr    : relocatable,              \* the local ptr of the loop
   array  : Seq(maybe_relocatable),   \* what is to be stored
   index  : Nat,                      \* how many elements were accepted
   status : {"running", "ok", "error"}]

\* The frame of a call of op that was passed base and array.
NewFrame(op, base, array, index, status) ==
  [op |-> op, base |-> base, ptr |-> base, array |-> array,
   index |-> index, status |-> status]

EmptyTable == [ptr \in {} |-> ptr]

NoCall ==
  NewFrame("none", [segment_index |-> 0, offset |-> 0], << >>, 0, "ok")

\* memory.h:11-14: the fields of the memory, the frame of the call and the two
\* counters hold values of their types, wrapped offsets included.
MemoryTypeOK ==
  /\ live \in BOOLEAN
  /\ num_segments \in 0 .. SegMod - 1
  /\ DOMAIN data \subseteq relocatable
  /\ data \in [DOMAIN data -> maybe_relocatable]
  /\ blocks \in Nat
  /\ refused \in 0 .. MaxRefusals
  /\ call \in Frame

\* The client may start a call: the memory exists and no call is under way.
Ready == live /\ call.status # "running"

-----------------------------------------------------------------------------
\* A comparison of keys that forgets the segment.
key_compare_OffsetOnly(r1, r2) == ~(r1.offset = r2.offset)

\* Zero (here FALSE) when the keys are equal, as the table expects.
key_compare(r1, r2) ==
  ~(r1.segment_index = r2.segment_index /\ r1.offset = r2.offset)

Found(value) == [is_error |-> FALSE, memory_value |-> value]
NotFound     == [is_error |-> TRUE, error |-> "Get"]

\* cc_hashtable_get of a table made with key_compare.
cc_hashtable_get(table, ptr) ==
  IF \E key \in DOMAIN table : ~key_compare(key, ptr)
  THEN Found(table[CHOOSE key \in DOMAIN table : ~key_compare(key, ptr)])
  ELSE NotFound

memory_get(ptr) == cc_hashtable_get(data, ptr)

\* A bounds check that lets the first segment not yet added through.
InBounds_OffByOne(ptr) == ptr.segment_index <= num_segments

InBounds(ptr) == ptr.segment_index < num_segments

\* cc_hashtable_add of a new key.
cc_hashtable_add(ptr, value) ==
  data' = [x \in DOMAIN data \cup {ptr} |-> IF x = ptr THEN value ELSE data[x]]

\* memory_insert that never looks for a previous value.
memory_insert_Overwrites(ptr, value, ok) ==
  /\ ok = InBounds(ptr)
  /\ IF ok THEN cc_hashtable_add(ptr, value) /\ blocks' = blocks + 2
           ELSE UNCHANGED <<data, blocks>>
  /\ UNCHANGED <<live, num_segments, refused>>

\* memory_insert(mem, ptr, value) returning ~is_error = ok.
memory_insert(ptr, value, ok) ==
  LET prev == memory_get(ptr) IN
  /\ \/ /\ ~InBounds(ptr)
        /\ ok = FALSE
        /\ UNCHANGED <<data, blocks, refused>>
     \/ /\ InBounds(ptr)
        /\ ~prev.is_error
        /\ ok = maybe_relocatable_equal(prev.memory_value, value)
        /\ UNCHANGED <<data, blocks, refused>>
     \/ /\ InBounds(ptr)
        /\ prev.is_error
        /\ ok = TRUE
        /\ cc_hashtable_add(ptr, value)
        /\ blocks' = blocks + 2
        /\ UNCHANGED refused
     \/ /\ InBounds(ptr)
        /\ prev.is_error
        /\ ok = FALSE          \* the table refuses; both blocks stay allocated
        /\ refused < MaxRefusals
        /\ refused' = refused + 1
        /\ blocks' = blocks + 2
        /\ UNCHANGED data
  /\ UNCHANGED <<live, num_segments>>

\* memory_add_segment on a memory with n segments that forgets to count.
memory_add_segment_NoCount(n) ==
  [ptr |-> [segment_index |-> n, offset |-> 0], num_segments |-> n]

\* memory_add_segment on a memory with n segments: what it returns and leaves.
memory_add_segment(n) ==
  [ptr |-> [segment_index |-> n, offset |-> 0], num_segments |-> (n + 1) % SegMod]

-----------------------------------------------------------------------------
memory_new ==
  /\ ~live
  /\ live' = TRUE
  /\ num_segments' = 0
  /\ data' = EmptyTable
  /\ call' = NoCall
  /\ UNCHANGED <<blocks, refused>>

\* memory_free that releases the values and forgets the keys.
memory_free_ValuesOnly ==
  /\ live' = FALSE
  /\ blocks' = blocks - Cardinality(DOMAIN data)
  /\ data' = EmptyTable
  /\ call' = NoCall
  /\ UNCHANGED <<num_segments, refused>>

\* memory_free releases the key and the value of every entry, and the table.
memory_free ==
  /\ live' = FALSE
  /\ blocks' = blocks - 2 * Cardinality(DOMAIN data)
  /\ data' = EmptyTable
  /\ call' = NoCall
  /\ UNCHANGED <<num_segments, refused>>

\* The client calls memory_add_segment.
AddSegment ==
  LET added == memory_add_segment(num_segments) IN
  /\ Ready
  /\ num_segments < MaxSegments
  /\ num_segments' = added.num_segments
  /\ call' = NewFrame("add_segment", added.ptr, << >>, 0, "ok")
  /\ UNCHANGED <<live, data, blocks, refused>>

\* The client calls memory_insert.
Insert(ptr, value) ==
  /\ Ready
  /\ \E ok \in BOOLEAN :
       /\ memory_insert(ptr, value, ok)
       /\ call' = IF ok THEN NewFrame("insert", ptr, <<value>>, 1, "ok")
                        ELSE NewFrame("insert", ptr, <<value>>, 0, "error")

\* memory_load_data is entered.
memory_load_data(ptr, array) ==
  /\ Ready
  /\ call' = NewFrame("load", ptr, array, 0, "running")
  /\ UNCHANGED <<live, num_segments, data, blocks, refused>>

\* A turn of the loop that does not move the iterator.
LoadStep_Stuck ==
  /\ call.status = "running"
  /\ call.index < Len(call.array)
  /\ \E ok \in BOOLEAN :
       /\ memory_insert(call.ptr, call.array[call.index + 1], ok)
       /\ call' = IF ok THEN call ELSE [call EXCEPT !.status = "error"]

\* A turn of the loop: insert, then return the error or advance.
LoadStep ==
  /\ call.status = "running"
  /\ call.index < Len(call.array)
  /\ \E ok \in BOOLEAN :
       /\ memory_insert(call.ptr, call.array[call.index + 1], ok)
       /\ call' = IF ok
                  THEN [call EXCEPT !.ptr = Advance(@, 1), !.index = @ + 1]
                  ELSE [call EXCEPT !.status = "error"]

\* The loop is over: return the advanced ptr.
LoadReturn ==
  /\ call.status = "running"
  /\ call.index = Len(call.array)
  /\ call' = [call EXCEPT !.status = "ok"]
  /\ UNCHANGED <<live, num_segments, data, blocks, refused>>

-----------------------------------------------------------------------------
MemoryInit ==
  /\ live = FALSE
  /\ num_segments = 0
  /\ data = EmptyTable
  /\ blocks = 0
  /\ refused = 0
  /\ call = NoCall

\* What the client may ask of a memory between two calls.
ClientCall ==
  \/ AddSegment
  \/ \E ptr \in Addresses, value \in Values : Insert(ptr, value)
  \/ \E ptr \in Addresses, array \in Arrays : memory_load_data(ptr, array)

MemoryNext ==
  \/ memory_new
  \/ ClientCall
  \/ LoadStep
  \/ LoadReturn
  \/ Ready /\ memory_free

\* The one thread that runs a load keeps running it.
LoadFairness == WF_memory_vars(LoadStep) /\ WF_memory_vars(LoadReturn)

MemorySpec == MemoryInit /\ [][MemoryNext]_memory_vars /\ LoadFairness

-----------------------------------------------------------------------------
(* What a client can rely on.                                              *)

\* The segments that exist.
Allocated == IF live THEN 0 .. num_segments - 1 ELSE {}

\* Every cell lies in a segment that was added: the bounds check of
\* memory_insert (memory.c:40) covers every write, those of a load included.
SegmentsAllocated == \A ptr \in DOMAIN data : ptr.segment_index \in Allocated

\* memory_add_segment "creates a new, empty segment" (README.md:171): what it
\* returns did not exist before the call, exists after it and reads as empty.
FreshSegment ==
  [][ call'.op = "add_segment" /\ call' # call =>
        LET new == call'.ptr.segment_index IN
        /\ new \notin Allocated
        /\ new \in Allocated'
        /\ \A o \in 0 .. OffMod - 1 :
             cc_hashtable_get(data', [segment_index |-> new, offset |-> o]).is_error
    ]_memory_vars

\* A written cell keeps its value until the memory is freed: no call, half
\* done load or refused entry changes or removes it.
WriteOnce ==
  [][ live' => \A ptr \in DOMAIN data :
        ptr \in DOMAIN data' /\ data'[ptr] = data[ptr] ]_memory_vars

\* Whatever an insert or a load has accepted so far is what memory_get returns
\* at the place it was meant for, however far the load got.
AcceptedIsStored ==
  \A i \in 0 .. call.index - 1 :
    memory_get(Advance(call.base, i)) = Found(call.array[i + 1])

\* As long as the table refuses nothing, an error means a conflict that is
\* still there: the segment does not exist, or the cell holds another value.
ErrorHasCause ==
  call.status = "error" /\ refused = 0 =>
    \/ call.ptr.segment_index \notin Allocated
    \/ /\ ~memory_get(call.ptr).is_error
       /\ memory_get(call.ptr) # Found(call.array[call.index + 1])

\* The blocks held are a key and a value for each entry in the table, and two
\* for each entry it refused.
HeapBalance == blocks = 2 * (Cardinality(DOMAIN data) + refused)

\* A load returns (memory.c:80: the loop ends with the array).
LoadReturns == call.status = "running" ~> call.status # "running"

\* The memory implements the write-once store: a segment is a number below
\* num_segments, a cell an entry of the table.
Store == INSTANCE WriteOnceStore WITH
           Segment <- 0 .. SegMod - 1, Cell <- relocatable,
           Value <- maybe_relocatable,
           allocated <- Allocated, contents <- data
ImplementsStore == Store!Spec

-----------------------------------------------------------------------------
(* What the documentation says beyond that.                                *)

\* README.md:179: memory_load_data "returns a pointer to the next free memory
\* slot after the inserted data".
LoadReturnsFreeSlot ==
  call.op = "load" /\ call.status = "ok" /\ call.index > 0 =>
    memory_get(call.ptr).is_error

\* memory.h:54: memory_free "frees resources used by the memory struct".
FreeReleasesAll == ~live => blocks = 0

\* An unsigned int cast to an int.
AsInt(n) == IF n < SegMod \div 2 THEN n ELSE n - SegMod

\* The addresses print_memory shows: in each segment, up to the first gap.  The
\* cast leaves no segment at all when there are more than an int can count.  A
\* segment without a gap is shown over and over: the offset wraps.
print_memory ==
  {ptr \in relocatable :
     /\ ptr.segment_index < AsInt(num_segments)
     /\ \A o \in 0 .. ptr.offset :
          ~memory_get([ptr EXCEPT !.offset = o]).is_error}

\* memory.h:57: print_memory "prints the memory".
PrintsWholeMemory == live => print_memory = DOMAIN data

=============================================================================
