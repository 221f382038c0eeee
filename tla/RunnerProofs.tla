---------------------------- MODULE RunnerProofs ----------------------------
(***************************************************************************)
(* What Runner.tla guarantees for every width, every set of programs and   *)
(* every client, initialized as often as the client likes.                 *)
(***************************************************************************)
EXTENDS Runner, MemoryProofs

-----------------------------------------------------------------------------
(* What the comment at cairo_runner.c:33 needs, besides the segments.      *)

\* The table takes every entry: cc_hashtable_add finds memory.
NoRefusals == MaxRefusals = 0

\* A program fits in a segment, and so do the two words of the first frame.
FitsASegment == 2 <= OffMod /\ \A p \in Programs : Len(p.data) <= OffMod

BootConditions == NoSegmentWrap /\ NoRefusals /\ FitsASegment

-----------------------------------------------------------------------------
(* The inductive invariant.                                                *)

Start(s) == [segment_index |-> s, offset |-> 0]

\* The first of the four segments of the last initialization.
First == runner.program_base.segment_index

\* The two words of the first frame.
FirstFrame == <<Pointer(Start(First + 2)), Pointer(Start(First + 3))>>

\* Which of its base addresses the runner knows, and that no other segment was
\* added since, until the client may add one again.
BaseInv ==
  /\ stage \in Initializing \cup {"ready"} => runner.program_base = Start(First)
  /\ stage = "program_segment" => num_segments = First + 1
  /\ stage \in (Initializing \cup {"ready"}) \ {"program_segment"} =>
       runner.execution_base = Start(First + 1)
  /\ stage = "execution_segment" => num_segments = First + 2
  /\ stage = "return_fp" =>
       /\ num_segments = First + 3 /\ locals.return_fp = Start(First + 2)
       /\ locals.stack = << >>
  /\ stage \in {"end", "load_program", "load_stack"} =>
       /\ locals.end = Start(First + 3)
       /\ locals.stack = FirstFrame
  /\ stage \in {"end", "load_program", "load_stack", "return_end"} =>
       num_segments = First + 4
  /\ stage \in {"end", "load_program", "load_stack", "return_end", "ready"} =>
       runner.initial_fp = Advance(runner.execution_base, 2)
  /\ stage \in {"return_end", "ready"} => runner.final_pc = Start(First + 3)
  /\ stage = "ready" => First + 4 <= num_segments

\* When the runner executes, and which load.
ControlInv ==
  /\ live <=> stage # "none"
  /\ call.status = "running" => stage \in {"new", "ready", "load_program", "load_stack"}
  /\ stage \in {"load_program", "load_stack"} => call.status # "error"
  /\ stage = "load_program" =>
       call.base = runner.program_base /\ call.array = program.data
  /\ stage = "load_stack" =>
       call.base = runner.execution_base /\ call.array = locals.stack
  /\ stage \in {"load_program", "load_stack"} /\ call.status = "ok" =>
       call.index = Len(call.array)
  /\ stage \in {"load_program", "load_stack", "return_end", "ready"} =>
       runner.initial_pc = Advance(runner.program_base, program.main)
  /\ stage = "ready" => runner.pc = runner.initial_pc
                        /\ runner.ap = runner.initial_fp /\ runner.fp = runner.initial_fp
  /\ Len(program.data) <= OffMod

\* The first n words from base on.
Cells(base, n) == {Advance(base, i - 1) : i \in 1 .. n}

\* What the segments of the runner may hold: nothing but what was loaded.
NothingBut(cells) == \A ptr \in DOMAIN data : ptr.segment_index < First \/ ptr \in cells

\* What they hold.
Holds(base, array) ==
  \A i \in 1 .. Len(array) :
    Advance(base, i - 1) \in DOMAIN data /\ data[Advance(base, i - 1)] = array[i]

ContentsInv ==
  /\ stage \in {"program_segment", "execution_segment", "return_fp", "end"} => NothingBut({})
  /\ stage = "load_program" => NothingBut(Cells(runner.program_base, call.index))
  /\ stage = "load_stack" =>
       NothingBut(Cells(runner.program_base, Len(program.data))
                    \cup Cells(runner.execution_base, call.index))
  /\ stage = "return_end" =>
       NothingBut(Cells(runner.program_base, Len(program.data))
                    \cup Cells(runner.execution_base, 2))
  /\ stage \in {"load_stack", "return_end", "ready"} =>
       Holds(runner.program_base, program.data)
  /\ stage \in {"return_end", "ready"} => Holds(runner.execution_base, FirstFrame)

\* ContentsInv says what each load has done so far and that nothing else is
\* in the way of the next word; BaseInv and ControlInv are what makes that
\* inductive: the loads of the runner write in its own segments only, and the
\* client writes below them, where it wrote before.
RunnerInv ==
  /\ SegmentInv
  /\ RunnerTypeOK
  /\ BaseInv
  /\ ControlInv
  /\ ContentsInv

-----------------------------------------------------------------------------
(* Types.                                                                  *)

\* The addresses of the runner are the fields of a record of addresses.
LEMMA RunnerFields ==
  /\ DOMAIN NewRunner = {"program_base", "execution_base", "initial_pc",
                         "initial_fp", "final_pc", "pc", "ap", "fp"}
  /\ NewRunner \in [DOMAIN NewRunner -> relocatable]
  /\ Zero \in relocatable
<1>1. Zero \in relocatable
  BY WidthAssumption DEF Zero, relocatable
<1> QED BY <1>1 DEF NewRunner

\* The locals before there are any.
LEMMA NoLocalsType ==
  NoLocals \in [return_fp : relocatable, end : relocatable,
                stack : Seq(maybe_relocatable)]
<1>1. << >> \in Seq(maybe_relocatable)
  OBVIOUS
<1> QED BY <1>1, RunnerFields DEF NoLocals

\* A pointer to an address is a value.
LEMMA PointerType ==
  ASSUME NEW a \in relocatable, NEW b \in relocatable
  PROVE  /\ Pointer(a) \in maybe_relocatable
         /\ <<Pointer(a), Pointer(b)>> \in Seq(maybe_relocatable)
<1>1. Pointer(a) \in maybe_relocatable /\ Pointer(b) \in maybe_relocatable
  BY DEF Pointer, maybe_relocatable
<1> QED BY <1>1

\* The n-th word of a segment, while n is an offset.
LEMMA AdvanceStart ==
  ASSUME NEW s, NEW n \in Nat, n < OffMod
  PROVE  Advance(Start(s), n) = [segment_index |-> s, offset |-> n]
<1>1. (OffMod * 0 + n) % OffMod = n
  BY WidthAssumption, ModUnique
<1>2. (0 + n) % OffMod = n
  BY <1>1, WidthAssumption
<1> QED BY <1>2 DEF Advance, Start

-----------------------------------------------------------------------------
(* What the steps of the memory mean to the runner.                        *)

\* The facts about numbers that the steps use.
LEMMA Numbers ==
  ASSUME SegmentInv, BootConditions
  PROVE  /\ num_segments \in Nat /\ num_segments <= MaxSegments
         /\ MaxSegments \in Nat /\ MaxSegments < SegMod
         /\ SegMod \in Nat \ {0} /\ OffMod \in Nat \ {0} /\ 2 <= OffMod
         /\ refused = 0
BY WidthAssumption, BoundAssumption
DEF SegmentInv, MemoryInv, MemoryTypeOK, BootConditions, NoSegmentWrap, NoRefusals,
    FitsASegment

\* memory_load_data is entered, from an address of the runner.
LEMMA EnterLoad ==
  ASSUME SegmentInv, NEW ptr \in relocatable, NEW array \in Seq(maybe_relocatable),
         memory_load_data(ptr, array)
  PROVE  SegmentInv'
<1>1. MemoryInv'
  BY LoadPreserves DEF SegmentInv
<1> QED BY <1>1 DEF SegmentInv, SegmentsAllocated, Allocated, memory_load_data

\* A step of a load.
LEMMA RunLoadIsMemoryStep ==
  ASSUME SegmentInv, BootConditions, LoadStep \/ LoadReturn
  PROVE  /\ SegmentInv' /\ live' = live /\ num_segments' = num_segments
         /\ \A x \in DOMAIN data : x \in DOMAIN data' /\ data'[x] = data[x]
<1>1. [MemoryNext]_memory_vars
  BY Zenon DEF MemoryNext
<1>2. SegmentInv'
  BY <1>1, SegmentStep DEF BootConditions
<1>3. CASE LoadStep
  BY <1>2, <1>3, LoadStepInserts DEF SegmentInv, InsertPromises
<1>4. CASE LoadReturn
  BY <1>2, <1>4 DEF LoadReturn
<1> QED BY <1>3, <1>4

\* A call of the client.
LEMMA ClientCallIsMemoryStep ==
  ASSUME SegmentInv, BootConditions, ClientCall
  PROVE  /\ SegmentInv' /\ live' = live /\ num_segments <= num_segments'
         /\ \A x \in DOMAIN data : x \in DOMAIN data' /\ data'[x] = data[x]
<1>1. [MemoryNext]_memory_vars
  BY DEF MemoryNext
<1>2. SegmentInv' /\ num_segments \in Nat
  BY <1>1, SegmentStep, Numbers DEF BootConditions
<1>3. live' = live /\ live
  BY DEF ClientCall, AddSegment, Insert, memory_insert, memory_load_data, Ready
<1>4. num_segments <= num_segments'
  <2>1. CASE AddSegment
    BY <1>2, <2>1, NextSegment DEF BootConditions
  <2>2. CASE ~AddSegment
    <3>1. num_segments' = num_segments
      BY <2>2, Zenon DEF ClientCall, Insert, memory_insert, memory_load_data
    <3> QED BY <1>2, <3>1
  <2> QED BY <2>1, <2>2
<1> QED BY <1>1, <1>2, <1>3, <1>4, StepKeepsCells DEF SegmentInv

\* The runner adds a segment.
LEMMA AddsASegment ==
  ASSUME SegmentInv, BootConditions, AddSegment
  PROVE  /\ SegmentInv' /\ live' = live /\ data' = data /\ live
         /\ num_segments \in Nat /\ num_segments' = num_segments + 1
         /\ call'.status = "ok"
         /\ memory_add_segment(num_segments).ptr = Start(num_segments)
         /\ Start(num_segments) \in relocatable
<1>1. SegmentInv'
  <2>1. [MemoryNext]_memory_vars
    BY Zenon DEF MemoryNext, ClientCall
  <2> QED BY <2>1, SegmentStep DEF BootConditions
<1>2. Start(num_segments) \in relocatable
  BY Numbers DEF Start, relocatable
<1> QED BY <1>1, <1>2, Numbers, NextSegment
        DEF BootConditions, NewFrame, memory_add_segment, Start

-----------------------------------------------------------------------------
(* Each action preserves the invariant.                                    *)

\* Before there is a runner.
LEMMA RunnerInitEstablishes ==
  ASSUME BootConditions, Init PROVE RunnerInv
<1>1. SegmentInv
  BY InitEstablishes, BoundAssumption
  DEF Init, MemoryInit, SegmentInv, SegmentsAllocated, EmptyTable
<1>2. RunnerTypeOK
  <2>1. NoProgram \in program_t
    <3>1. 0 \in 0 .. OffMod - 1
      BY WidthAssumption
    <3> QED BY <3>1 DEF NoProgram, program_t
  <2> QED BY <1>1, <2>1, RunnerFields, NoLocalsType
          DEF Init, RunnerTypeOK, SegmentInv, MemoryInv, Stages
<1>3. BaseInv /\ ContentsInv
  BY DEF Init, BaseInv, ContentsInv, Initializing
<1>4. ControlInv
  <2>1. Len(NoProgram.data) = 0
    BY DEF NoProgram
  <2> QED BY <2>1, WidthAssumption DEF Init, MemoryInit, ControlInv, NoCall, NewFrame
<1> QED BY <1>1, <1>2, <1>3, <1>4 DEF RunnerInv

\* runner_new.
LEMMA RunnerNewPreserves ==
  ASSUME RunnerInv, BootConditions, NEW p \in Programs, runner_new(p)
  PROVE  RunnerInv'
<1>1. SegmentInv'
  <2>1. [MemoryNext]_memory_vars
    BY DEF MemoryNext, runner_new
  <2> QED BY <2>1, SegmentStep DEF BootConditions, RunnerInv
<1>2. RunnerTypeOK'
  BY <1>1, RunnerFields, ProgramsAssumption
  DEF RunnerInv, RunnerTypeOK, SegmentInv, MemoryInv, runner_new, Stages
<1>3. BaseInv' /\ ContentsInv'
  BY DEF runner_new, BaseInv, ContentsInv, Initializing
<1>4. ControlInv'
  BY DEF runner_new, memory_new, ControlInv, NoCall, NewFrame,
         BootConditions, FitsASegment
<1> QED BY <1>1, <1>2, <1>3, <1>4 DEF RunnerInv

\* runner_free.
LEMMA RunnerFreePreserves ==
  ASSUME RunnerInv, BootConditions, runner_free
  PROVE  RunnerInv'
<1>1. SegmentInv'
  <2>1. [MemoryNext]_memory_vars
    BY DEF MemoryNext, runner_free
  <2> QED BY <2>1, SegmentStep DEF BootConditions, RunnerInv
<1>2. program' \in program_t /\ Len(program'.data) = 0
  <2>1. << >> \in Seq(maybe_relocatable) /\ Len(<< >>) = 0
    OBVIOUS
  <2>2. program \in program_t /\ program' = [program EXCEPT !.data = << >>]
    BY DEF RunnerInv, RunnerTypeOK, runner_free, program_free
  <2> QED BY <2>1, <2>2 DEF program_t
<1>3. RunnerTypeOK'
  BY <1>1, <1>2 DEF RunnerInv, RunnerTypeOK, SegmentInv, MemoryInv, runner_free, Stages
<1>4. BaseInv' /\ ContentsInv'
  BY DEF runner_free, BaseInv, ContentsInv, Initializing
<1>5. ControlInv'
  BY <1>2, WidthAssumption DEF runner_free, memory_free, ControlInv, NoCall, NewFrame
<1> QED BY <1>1, <1>3, <1>4, <1>5 DEF RunnerInv

\* The client uses the memory, or finishes a load it has started.
LEMMA IdlePreserves ==
  ASSUME RunnerInv, BootConditions, stage \in {"new", "ready"}, UNCHANGED runner_vars,
         SegmentInv', live' = live, num_segments <= num_segments',
         \A x \in DOMAIN data : x \in DOMAIN data' /\ data'[x] = data[x]
  PROVE  RunnerInv'
<1>1. UNCHANGED <<program, runner, locals, stage>>
  BY DEF runner_vars
<1>2. RunnerTypeOK'
  BY <1>1 DEF RunnerInv, RunnerTypeOK, SegmentInv, MemoryInv
<1>3. BaseInv'
  <2>1. stage = "ready" => First \in Nat
    BY RunnerFields, WidthAssumption DEF RunnerInv, RunnerTypeOK, First, relocatable
  <2>2. num_segments \in Nat /\ num_segments' \in Nat
    BY WidthAssumption DEF RunnerInv, SegmentInv, MemoryInv, MemoryTypeOK
  <2>3. stage = "ready" => First + 4 <= num_segments'
    BY <2>1, <2>2 DEF RunnerInv, BaseInv
  <2> QED BY <1>1, <2>3 DEF RunnerInv, BaseInv, First, Initializing
<1>4. ControlInv'
  BY <1>1 DEF RunnerInv, ControlInv
<1>5. ContentsInv'
  BY <1>1 DEF RunnerInv, ContentsInv, Holds, First, FirstFrame
<1> QED BY <1>2, <1>3, <1>4, <1>5 DEF RunnerInv

\* What the client does between two initializations.
LEMMA UseMemoryPreserves ==
  ASSUME RunnerInv, BootConditions, UseMemory PROVE RunnerInv'
<1>1. ClientCall /\ stage \in {"new", "ready"} /\ UNCHANGED runner_vars
  BY DEF UseMemory
<1> QED BY <1>1, ClientCallIsMemoryStep, IdlePreserves DEF RunnerInv

\* The first segment of an initialization is above every cell there is.
LEMMA AddProgramSegmentPreserves ==
  ASSUME RunnerInv, BootConditions, AddProgramSegment PROVE RunnerInv'
<1> DEFINE s == num_segments
<1>1. /\ SegmentInv' /\ live' = live /\ data' = data /\ live
      /\ s \in Nat /\ num_segments' = s + 1 /\ call'.status = "ok"
      /\ Start(s) \in relocatable
  BY AddsASegment DEF RunnerInv, AddProgramSegment
<1>2. /\ runner' = [runner EXCEPT !.program_base = Start(s)]
      /\ stage \in {"new", "ready"} /\ stage' = "program_segment"
      /\ program' = program /\ locals' = locals
  BY AddsASegment DEF RunnerInv, AddProgramSegment
<1>3. runner' \in [DOMAIN NewRunner -> relocatable] /\ runner'.program_base = Start(s)
  BY <1>1, <1>2, RunnerFields DEF RunnerInv, RunnerTypeOK
<1>4. RunnerTypeOK'
  BY <1>1, <1>2, <1>3
  DEF RunnerInv, RunnerTypeOK, SegmentInv, MemoryInv, Stages, Initializing
<1>5. First' = s
  BY <1>3 DEF First, Start
<1>6. BaseInv'
  BY <1>1, <1>2, <1>3, <1>5 DEF BaseInv
<1>7. ControlInv'
  BY <1>1, <1>2 DEF RunnerInv, ControlInv
<1>8. ContentsInv'
  <2>1. \A ptr \in DOMAIN data : ptr.segment_index < s
    BY <1>1 DEF RunnerInv, SegmentInv, SegmentsAllocated, Allocated
  <2> QED BY <1>1, <1>2, <1>5, <2>1 DEF ContentsInv, NothingBut
<1> QED BY <1>1, <1>4, <1>6, <1>7, <1>8 DEF RunnerInv

\* The second one is the next.
LEMMA AddExecutionSegmentPreserves ==
  ASSUME RunnerInv, BootConditions, AddExecutionSegment PROVE RunnerInv'
<1> DEFINE s == num_segments
<1>1. /\ SegmentInv' /\ live' = live /\ data' = data /\ live
      /\ s \in Nat /\ num_segments' = s + 1 /\ call'.status = "ok"
      /\ Start(s) \in relocatable
  BY AddsASegment DEF RunnerInv, AddExecutionSegment
<1>2. /\ runner' = [runner EXCEPT !.execution_base = Start(s)]
      /\ stage = "program_segment" /\ stage' = "execution_segment"
      /\ program' = program /\ locals' = locals
  BY AddsASegment DEF RunnerInv, AddExecutionSegment
<1>3. /\ runner' \in [DOMAIN NewRunner -> relocatable]
      /\ runner'.execution_base = Start(s)
      /\ runner'.program_base = runner.program_base
  BY <1>1, <1>2, RunnerFields DEF RunnerInv, RunnerTypeOK
<1>4. RunnerTypeOK'
  BY <1>1, <1>2, <1>3
  DEF RunnerInv, RunnerTypeOK, SegmentInv, MemoryInv, Stages, Initializing
<1>5. First' = First /\ s = First + 1 /\ First \in Nat
  <2>1. s = First + 1
    BY <1>2 DEF RunnerInv, BaseInv
  <2>2. First \in Nat
    BY RunnerFields, WidthAssumption DEF RunnerInv, RunnerTypeOK, First, relocatable
  <2> QED BY <1>3, <2>1, <2>2 DEF First
<1>6. BaseInv'
  <2>1. num_segments' = First + 2
    BY <1>1, <1>5
  <2>2. runner.program_base = Start(First)
    BY <1>2 DEF RunnerInv, BaseInv, Initializing
  <2> QED BY <1>2, <1>3, <1>5, <2>1, <2>2 DEF BaseInv
<1>7. ControlInv'
  BY <1>1, <1>2 DEF RunnerInv, ControlInv
<1>8. ContentsInv'
  BY <1>1, <1>2, <1>5 DEF RunnerInv, ContentsInv, NothingBut
<1> QED BY <1>1, <1>4, <1>6, <1>7, <1>8 DEF RunnerInv

\* The third is for return_fp.
LEMMA InitializeMainEntrypointPreserves ==
  ASSUME RunnerInv, BootConditions, InitializeMainEntrypoint PROVE RunnerInv'
<1> DEFINE s == num_segments
<1>1. /\ SegmentInv' /\ live' = live /\ data' = data /\ live
      /\ s \in Nat /\ num_segments' = s + 1 /\ call'.status = "ok"
      /\ Start(s) \in relocatable
  BY AddsASegment DEF RunnerInv, InitializeMainEntrypoint
<1>2. /\ locals' = [NoLocals EXCEPT !.return_fp = Start(s)]
      /\ stage = "execution_segment" /\ stage' = "return_fp"
      /\ program' = program /\ runner' = runner
  BY AddsASegment DEF RunnerInv, InitializeMainEntrypoint
<1>3. /\ locals' \in [return_fp : relocatable, end : relocatable,
                      stack : Seq(maybe_relocatable)]
      /\ locals'.return_fp = Start(s) /\ locals'.stack = << >>
  BY <1>1, <1>2, NoLocalsType DEF NoLocals
<1>4. RunnerTypeOK'
  BY <1>1, <1>2, <1>3
  DEF RunnerInv, RunnerTypeOK, SegmentInv, MemoryInv, Stages, Initializing
<1>5. First' = First /\ s = First + 2 /\ First \in Nat
  <2>1. s = First + 2
    BY <1>2 DEF RunnerInv, BaseInv
  <2>2. First \in Nat
    BY RunnerFields, WidthAssumption DEF RunnerInv, RunnerTypeOK, First, relocatable
  <2> QED BY <1>2, <2>1, <2>2 DEF First
<1>6. BaseInv'
  <2>1. num_segments' = First + 3
    BY <1>1, <1>5
  <2>2. runner.program_base = Start(First) /\ runner.execution_base = Start(First + 1)
    BY <1>2 DEF RunnerInv, BaseInv, Initializing
  <2> QED BY <1>2, <1>3, <1>5, <2>1, <2>2 DEF BaseInv
<1>7. ControlInv'
  BY <1>1, <1>2 DEF RunnerInv, ControlInv
<1>8. ContentsInv'
  BY <1>1, <1>2, <1>5 DEF RunnerInv, ContentsInv, NothingBut
<1> QED BY <1>1, <1>4, <1>6, <1>7, <1>8 DEF RunnerInv

\* The fourth is for end; the stack gets its two words.
LEMMA InitializeFunctionEntrypointPreserves ==
  ASSUME RunnerInv, BootConditions, InitializeFunctionEntrypoint PROVE RunnerInv'
<1> DEFINE s == num_segments
           fp == [runner.initial_fp EXCEPT
                    !.segment_index = runner.execution_base.segment_index,
                    !.offset = 2 % OffMod]
<1>1. /\ SegmentInv' /\ live' = live /\ data' = data /\ live
      /\ s \in Nat /\ num_segments' = s + 1 /\ call'.status = "ok"
      /\ Start(s) \in relocatable
  BY AddsASegment DEF RunnerInv, InitializeFunctionEntrypoint
<1>2. First \in Nat /\ s = First + 3 /\ locals.return_fp = Start(First + 2)
      /\ locals.stack = << >> /\ stage = "return_fp"
      /\ runner.program_base = Start(First) /\ runner.execution_base = Start(First + 1)
  <2>1. First \in Nat
    BY RunnerFields, WidthAssumption DEF RunnerInv, RunnerTypeOK, First, relocatable
  <2> QED BY <2>1 DEF RunnerInv, BaseInv, Initializing, InitializeFunctionEntrypoint
<1>3. locals.stack \o <<Pointer(locals.return_fp), Pointer(Start(s))>> = FirstFrame
      /\ Len(FirstFrame) = 2
  BY <1>2 DEF FirstFrame
<1>4. /\ locals' = [locals EXCEPT !.end = Start(s), !.stack = FirstFrame]
      /\ runner' = [runner EXCEPT !.initial_fp = fp]
      /\ stage' = "end" /\ program' = program
  <2> HIDE DEF FirstFrame
  <2>1. memory_add_segment(num_segments).ptr = Start(s)
    BY AddsASegment DEF RunnerInv, InitializeFunctionEntrypoint
  <2>2. /\ locals' = [locals EXCEPT !.end = Start(s), !.stack = FirstFrame]
        /\ stage' = "end" /\ program' = program
    BY <1>3, <2>1 DEF InitializeFunctionEntrypoint
  <2>3. runner' = [runner EXCEPT
                  !.initial_fp.segment_index = runner.execution_base.segment_index,
                  !.initial_fp.offset = 2 % OffMod]
    BY <1>3, <2>1 DEF InitializeFunctionEntrypoint
  <2>4. runner' = [runner EXCEPT !.initial_fp = fp]
    BY <2>3, RunnerFields DEF RunnerInv, RunnerTypeOK
  <2> QED BY <2>2, <2>4
<1>5. fp = Advance(runner.execution_base, 2) /\ fp \in relocatable
  <2>1. runner.initial_fp \in relocatable /\ runner.execution_base \in relocatable
    BY RunnerFields DEF RunnerInv, RunnerTypeOK
  <2>2. runner.execution_base.offset = 0
    BY <1>2 DEF Start
  <2>3. fp = Advance(runner.execution_base, 2)
    <3>1. (runner.execution_base.offset + 2) % OffMod = 2 % OffMod
      BY <2>2
    <3>2. ASSUME NEW a \in relocatable, NEW x, NEW y
          PROVE  [a EXCEPT !.segment_index = x, !.offset = y]
                   = [segment_index |-> x, offset |-> y]
      <4>1. [a EXCEPT !.segment_index = x] = [segment_index |-> x, offset |-> a.offset]
        BY DEF relocatable
      <4>2. [a EXCEPT !.segment_index = x, !.offset = y]
              = [[a EXCEPT !.segment_index = x] EXCEPT !.offset = y]
        OBVIOUS
      <4>3. [[segment_index |-> x, offset |-> a.offset] EXCEPT !.offset = y]
              = [segment_index |-> x, offset |-> y]
        OBVIOUS
      <4> QED BY <4>1, <4>2, <4>3
    <3>3. fp = [segment_index |-> runner.execution_base.segment_index,
                offset |-> 2 % OffMod]
      BY <2>1, <3>2
    <3>4. Advance(runner.execution_base, 2)
            = [segment_index |-> runner.execution_base.segment_index,
               offset |-> 2 % OffMod]
      BY <2>1, <3>1 DEF Advance, relocatable
    <3> QED BY <3>3, <3>4
  <2> QED BY <2>1, <2>3, AdvanceSteps
<1> HIDE DEF fp
<1>6. /\ runner' \in [DOMAIN NewRunner -> relocatable]
      /\ runner'.execution_base = runner.execution_base
      /\ runner'.program_base = runner.program_base
      /\ runner'.initial_fp = fp
  BY <1>4, <1>5, RunnerFields DEF RunnerInv, RunnerTypeOK
<1>7. FirstFrame \in Seq(maybe_relocatable)
  <2>1. Start(First + 2) \in relocatable
    BY <1>2 DEF RunnerInv, RunnerTypeOK
  <2>2. Start(First + 3) \in relocatable
    BY <1>1, <1>2
  <2> QED BY <2>1, <2>2, PointerType DEF FirstFrame
<1>8. /\ locals' \in [return_fp : relocatable, end : relocatable,
                      stack : Seq(maybe_relocatable)]
      /\ locals'.end = Start(s) /\ locals'.stack = FirstFrame
  BY <1>1, <1>4, <1>7 DEF RunnerInv, RunnerTypeOK
<1>9. RunnerTypeOK'
  BY <1>1, <1>4, <1>6, <1>8
  DEF RunnerInv, RunnerTypeOK, SegmentInv, MemoryInv, Stages, Initializing
<1>10. First' = First /\ FirstFrame' = FirstFrame
  BY <1>6 DEF First, FirstFrame
<1>11. BaseInv'
  <2>1. num_segments' = First + 4
    BY <1>1, <1>2
  <2> QED BY <1>2, <1>4, <1>5, <1>6, <1>8, <1>10, <2>1 DEF BaseInv
<1>12. ControlInv'
  BY <1>1, <1>2, <1>4 DEF RunnerInv, ControlInv
<1>13. ContentsInv'
  BY <1>1, <1>2, <1>4, <1>10 DEF RunnerInv, ContentsInv, NothingBut
<1> QED BY <1>1, <1>9, <1>11, <1>12, <1>13 DEF RunnerInv

-----------------------------------------------------------------------------
(* The two loads.                                                          *)

\* A load that is entered has stored nothing yet.
LEMMA EnteredFrame ==
  ASSUME NEW ptr, NEW array, memory_load_data(ptr, array)
  PROVE  /\ call'.status = "running" /\ call'.base = ptr /\ call'.array = array
         /\ call'.index = 0 /\ data' = data /\ live' = live /\ live
         /\ num_segments' = num_segments /\ call.status # "running"
BY DEF memory_load_data, NewFrame, Ready

\* One word more.
LEMMA NextCell ==
  ASSUME NEW base, NEW n \in Nat
  PROVE  Cells(base, n + 1) = Cells(base, n) \cup {Advance(base, n)}
<1>1. \A i \in 1 .. n + 1 : i \in 1 .. n \/ i - 1 = n
  OBVIOUS
<1>2. n + 1 \in 1 .. n + 1 /\ (n + 1) - 1 = n /\ \A i \in 1 .. n : i \in 1 .. n + 1
  OBVIOUS
<1> QED BY <1>1, <1>2 DEF Cells

\* No words.
LEMMA NoCells == ASSUME NEW base PROVE Cells(base, 0) = {}
BY DEF Cells

\* A word of a load into a segment that holds nothing else goes in.
LEMMA OwnLoadStep ==
  ASSUME SegmentInv, BootConditions, LoadStep,
         NEW s \in Nat, call.base = Start(s), s < num_segments,
         Len(call.array) <= OffMod,
         \A ptr \in DOMAIN data :
           ptr.segment_index # s \/ ptr \in Cells(Start(s), call.index)
  PROVE  /\ call'.status = "running" /\ call'.base = call.base
         /\ call'.array = call.array /\ call'.index = call.index + 1
         /\ \A x \in DOMAIN data' :
              x \in DOMAIN data \/ x = Advance(call.base, call.index)
<1> DEFINE n == call.index
           value == call.array[n + 1]
<1>1. /\ call \in Frame /\ n \in Nat /\ n < Len(call.array) /\ n < OffMod
      /\ call.status = "running"
      /\ call.ptr = Advance(Start(s), n) /\ call.ptr \in relocatable
  <2>1. call \in Frame /\ n < Len(call.array) /\ call.status = "running"
        /\ call.ptr = Advance(Start(s), n)
    BY DEF SegmentInv, MemoryInv, MemoryTypeOK, InLoop, LoadStep
  <2>2. n \in Nat /\ call.array \in Seq(maybe_relocatable) /\ call.ptr \in relocatable
    BY <2>1 DEF Frame
  <2>3. n < OffMod
    BY <2>1, <2>2, WidthAssumption
  <2> QED BY <2>1, <2>2, <2>3
<1>2. call.ptr = [segment_index |-> s, offset |-> n]
  BY <1>1, AdvanceStart
<1>3. call.ptr \notin DOMAIN data
  <2> SUFFICES ASSUME call.ptr \in Cells(Start(s), n) PROVE FALSE
    BY <1>2
  <2>1. PICK i \in 1 .. n : call.ptr = Advance(Start(s), i - 1)
    BY DEF Cells
  <2>2. i - 1 \in Nat /\ i - 1 < OffMod /\ i - 1 # n
    BY <1>1, <2>1, WidthAssumption
  <2>3. call.ptr = [segment_index |-> s, offset |-> i - 1]
    BY <2>1, <2>2, AdvanceStart
  <2> QED BY <1>2, <2>2, <2>3
<1>4. memory_get(call.ptr) = NotFound
  BY <1>1, <1>3, Lookup DEF memory_get, SegmentInv, MemoryInv, MemoryTypeOK
<1>5. InBounds(call.ptr)
  BY <1>2 DEF InBounds
<1>6. PICK ok \in BOOLEAN :
        /\ memory_insert(call.ptr, value, ok)
        /\ InsertPromises(call.ptr, value, ok)
        /\ call' = IF ok THEN [call EXCEPT !.ptr = Advance(@, 1), !.index = @ + 1]
                         ELSE [call EXCEPT !.status = "error"]
  BY LoadStepInserts DEF SegmentInv
<1>7. ok
  <2>1. memory_get(call.ptr).is_error
    BY <1>4 DEF NotFound
  <2>2. ~(refused < MaxRefusals)
    BY Numbers DEF BootConditions, NoRefusals
  <2> QED BY <1>5, <1>6, <2>1, <2>2, Zenon DEF memory_insert
<1>8. call' = [call EXCEPT !.ptr = Advance(@, 1), !.index = @ + 1]
  BY <1>6, <1>7
<1>9. /\ call'.base = call.base /\ call'.array = call.array
      /\ call'.index = call.index + 1
  <2>1. Advance(call.ptr, 1) \in relocatable
    BY <1>1, AdvanceSteps
  <2> QED BY <1>1, <1>8, <2>1, FrameAdvances
<1>10. call'.status = "running"
  BY <1>1, <1>8 DEF Frame
<1>11. \A x \in DOMAIN data' : x \in DOMAIN data \/ x = call.ptr
  BY <1>6 DEF InsertPromises
<1> QED BY <1>1, <1>9, <1>10, <1>11

\* What is in the segments of the runner, while it loads its program or stack,
\* is no obstacle to the next word.
LEMMA NothingInTheWay ==
  ASSUME RunnerInv, BootConditions, stage \in {"load_program", "load_stack"}
  PROVE  \E s \in Nat :
           /\ call.base = Start(s) /\ s < num_segments
           /\ Len(call.array) <= OffMod
           /\ \A ptr \in DOMAIN data :
                ptr.segment_index # s \/ ptr \in Cells(Start(s), call.index)
<1>1. First \in Nat
  BY RunnerFields, WidthAssumption DEF RunnerInv, RunnerTypeOK, First, relocatable
<1>2. /\ num_segments = First + 4 /\ runner.program_base = Start(First)
      /\ runner.execution_base = Start(First + 1)
  BY DEF RunnerInv, BaseInv, Initializing
<1>3. CASE stage = "load_program"
  <2>1. call.base = Start(First) /\ Len(call.array) <= OffMod
    BY <1>2, <1>3 DEF RunnerInv, ControlInv
  <2>2. \A ptr \in DOMAIN data :
          ptr.segment_index < First \/ ptr \in Cells(Start(First), call.index)
    BY <1>2, <1>3 DEF RunnerInv, ContentsInv, NothingBut
  <2>3. \A ptr \in DOMAIN data :
          ptr.segment_index # First \/ ptr \in Cells(Start(First), call.index)
    BY <1>1, <2>2
  <2>4. First < num_segments
    BY <1>1, <1>2
  <2> QED BY <1>1, <2>1, <2>3, <2>4
<1>4. CASE stage = "load_stack"
  <2>1. call.base = Start(First + 1) /\ Len(call.array) <= OffMod
    <3>1. Len(FirstFrame) = 2
      BY DEF FirstFrame
    <3>2. call.array = FirstFrame /\ call.base = Start(First + 1)
      BY <1>2, <1>4 DEF RunnerInv, ControlInv, BaseInv
    <3> QED BY <3>1, <3>2 DEF BootConditions, FitsASegment
  <2>2. \A ptr \in DOMAIN data :
          \/ ptr.segment_index < First
          \/ ptr \in Cells(Start(First), Len(program.data))
          \/ ptr \in Cells(Start(First + 1), call.index)
    BY <1>2, <1>4 DEF RunnerInv, ContentsInv, NothingBut
  <2>3. ASSUME NEW ptr \in Cells(Start(First), Len(program.data))
        PROVE  ptr.segment_index = First
    BY DEF Cells, Advance, Start
  <2>4. \A ptr \in DOMAIN data :
          ptr.segment_index # First + 1 \/ ptr \in Cells(Start(First + 1), call.index)
    BY <1>1, <2>2, <2>3
  <2>5. First + 1 \in Nat /\ First + 1 < num_segments
    BY <1>1, <1>2
  <2> QED BY <2>1, <2>4, <2>5
<1> QED BY <1>3, <1>4

\* A step of a load, the client's or the runner's.
LEMMA RunLoadPreserves ==
  ASSUME RunnerInv, BootConditions, RunLoad PROVE RunnerInv'
<1>1. /\ LoadStep \/ LoadReturn
      /\ UNCHANGED runner_vars /\ call.status = "running"
      /\ stage \in {"new", "ready", "load_program", "load_stack"}
  BY DEF RunLoad, LoadStep, LoadReturn, RunnerInv, ControlInv
<1>2. /\ SegmentInv' /\ live' = live /\ num_segments' = num_segments
      /\ \A x \in DOMAIN data : x \in DOMAIN data' /\ data'[x] = data[x]
  BY <1>1, RunLoadIsMemoryStep DEF RunnerInv
<1>3. CASE stage \in {"new", "ready"}
  <2>1. num_segments <= num_segments'
    BY <1>2, Numbers DEF RunnerInv
  <2> QED BY <1>1, <1>2, <1>3, <2>1, IdlePreserves
<1>4. CASE stage \in {"load_program", "load_stack"}
  <2>1. UNCHANGED <<program, runner, locals, stage, First, FirstFrame>>
    BY <1>1 DEF runner_vars, First, FirstFrame
  <2>2. RunnerTypeOK'
    BY <1>2, <2>1 DEF RunnerInv, RunnerTypeOK, SegmentInv, MemoryInv
  <2>3. BaseInv'
    BY <1>2, <2>1 DEF RunnerInv, BaseInv
  <2>4. call \in Frame /\ call.index \in Nat
    BY DEF RunnerInv, RunnerTypeOK, MemoryTypeOK, Frame
  <2>5. Holds(runner.program_base, program.data)
          => Holds(runner.program_base, program.data)'
    BY <1>2, <2>1 DEF Holds
  <2>6. CASE LoadStep
    <3>1. /\ call'.status = "running" /\ call'.base = call.base
          /\ call'.array = call.array /\ call'.index = call.index + 1
          /\ \A x \in DOMAIN data' :
               x \in DOMAIN data \/ x = Advance(call.base, call.index)
      BY <1>4, <2>6, NothingInTheWay, OwnLoadStep DEF RunnerInv
    <3>2. ControlInv'
      BY <1>2, <1>4, <2>1, <3>1 DEF RunnerInv, ControlInv
    <3>3. Cells(call.base, call'.index)
            = Cells(call.base, call.index) \cup {Advance(call.base, call.index)}
      BY <2>4, <3>1, NextCell
    <3>4. CASE stage = "load_program"
      <4>1. call.base = runner.program_base
            /\ NothingBut(Cells(runner.program_base, call.index))
        BY <3>4 DEF RunnerInv, ControlInv, ContentsInv
      <4>2. NothingBut(Cells(runner.program_base, call.index))'
        BY <2>1, <3>1, <3>3, <4>1 DEF NothingBut, Cells
      <4> QED BY <1>2, <2>1, <2>2, <2>3, <3>2, <3>4, <4>2 DEF RunnerInv, ContentsInv
    <3>5. CASE stage = "load_stack"
      <4> DEFINE own == Cells(runner.program_base, Len(program.data))
      <4>1. /\ call.base = runner.execution_base
            /\ NothingBut(own \cup Cells(runner.execution_base, call.index))
            /\ Holds(runner.program_base, program.data)
        BY <3>5 DEF RunnerInv, ControlInv, ContentsInv
      <4>2. NothingBut(own \cup Cells(runner.execution_base, call.index))'
        BY <2>1, <3>1, <3>3, <4>1 DEF NothingBut, Cells
      <4> QED BY <1>2, <2>1, <2>2, <2>3, <2>5, <3>2, <3>5, <4>1, <4>2
              DEF RunnerInv, ContentsInv
    <3> QED BY <1>4, <3>4, <3>5
  <2>7. CASE LoadReturn
    <3>1. /\ call' = [call EXCEPT !.status = "ok"] /\ data' = data
          /\ call.index = Len(call.array)
      BY <2>7 DEF LoadReturn
    <3>2. /\ call'.status = "ok" /\ call'.base = call.base
          /\ call'.array = call.array /\ call'.index = call.index
      BY <2>4, <3>1 DEF Frame
    <3>3. ControlInv'
      BY <1>2, <1>4, <2>1, <3>1, <3>2 DEF RunnerInv, ControlInv
    <3>4. ContentsInv'
      BY <1>4, <2>1, <2>5, <3>1, <3>2 DEF RunnerInv, ContentsInv, NothingBut, Cells
    <3> QED BY <1>2, <2>2, <2>3, <3>3, <3>4 DEF RunnerInv
  <2> QED BY <1>1, <2>6, <2>7
<1> QED BY <1>1, <1>3, <1>4

\* The program is about to be loaded.
LEMMA InitializeStatePreserves ==
  ASSUME RunnerInv, BootConditions, InitializeState PROVE RunnerInv'
<1> DEFINE pc == Advance(runner.program_base, program.main)
<1>1. /\ stage = "end" /\ stage' = "load_program"
      /\ runner' = [runner EXCEPT !.initial_pc = pc]
      /\ program' = program /\ locals' = locals
      /\ memory_load_data(runner.program_base, program.data)
  BY DEF InitializeState
<1>2. /\ runner.program_base \in relocatable
      /\ program.data \in Seq(maybe_relocatable) /\ program.main \in Nat
  BY RunnerFields, WidthAssumption DEF RunnerInv, RunnerTypeOK, program_t
<1>3. SegmentInv'
  BY <1>1, <1>2, EnterLoad DEF RunnerInv
<1>4. /\ call'.status = "running" /\ call'.base = runner.program_base
      /\ call'.array = program.data /\ call'.index = 0 /\ data' = data
      /\ live' = live /\ num_segments' = num_segments
  BY <1>1, EnteredFrame
<1>5. pc \in relocatable
  BY <1>2, AdvanceSteps
<1> HIDE DEF pc
<1>6. /\ runner' \in [DOMAIN NewRunner -> relocatable]
      /\ runner'.execution_base = runner.execution_base
      /\ runner'.program_base = runner.program_base
      /\ runner'.initial_fp = runner.initial_fp /\ runner'.initial_pc = pc
  BY <1>1, <1>5, RunnerFields DEF RunnerInv, RunnerTypeOK
<1>7. First' = First /\ FirstFrame' = FirstFrame
  BY <1>6 DEF First, FirstFrame
<1>8. RunnerTypeOK'
  BY <1>1, <1>3, <1>6
  DEF RunnerInv, RunnerTypeOK, SegmentInv, MemoryInv, Stages, Initializing
<1>9. BaseInv'
  BY <1>1, <1>4, <1>6, <1>7 DEF RunnerInv, BaseInv, Initializing
<1>10. ControlInv'
  BY <1>1, <1>4, <1>6 DEF RunnerInv, ControlInv, pc
<1>11. ContentsInv'
  <2>1. NothingBut({})
    BY <1>1 DEF RunnerInv, ContentsInv
  <2>2. Cells(runner.program_base, call.index)' = {}
    BY <1>4, <1>6, NoCells DEF Cells
  <2>3. NothingBut(Cells(runner.program_base, call.index))'
    BY <1>4, <1>7, <2>1, <2>2 DEF NothingBut
  <2> QED BY <1>1, <2>3 DEF ContentsInv
<1> QED BY <1>3, <1>8, <1>9, <1>10, <1>11 DEF RunnerInv

\* What a load of the runner leaves when it has returned.
LEMMA LoadIsComplete ==
  ASSUME RunnerInv, stage \in {"load_program", "load_stack"}, call.status # "running"
  PROVE  call.index = Len(call.array) /\ Holds(call.base, call.array)
<1>1. call \in Frame /\ call.index \in Nat /\ Stored(data, call)
  BY DEF RunnerInv, SegmentInv, MemoryInv, MemoryTypeOK, Frame
<1>2. call.status = "ok"
  BY <1>1 DEF RunnerInv, ControlInv, Frame
<1>3. call.index = Len(call.array)
  BY <1>2 DEF RunnerInv, ControlInv
<1>4. ASSUME NEW i \in 1 .. Len(call.array)
      PROVE  /\ Advance(call.base, i - 1) \in DOMAIN data
             /\ data[Advance(call.base, i - 1)] = call.array[i]
  <2>1. i - 1 \in 0 .. call.index - 1 /\ (i - 1) + 1 = i
    BY <1>1, <1>3, <1>4
  <2> QED BY <1>1, <2>1 DEF Stored
<1> QED BY <1>3, <1>4 DEF Holds

\* The frame is about to be loaded.
LEMMA LoadStackPreserves ==
  ASSUME RunnerInv, BootConditions, LoadStack PROVE RunnerInv'
<1>1. /\ stage = "load_program" /\ stage' = "load_stack"
      /\ UNCHANGED <<program, runner, locals, First, FirstFrame>>
      /\ memory_load_data(runner.execution_base, locals.stack)
  BY DEF LoadStack, First, FirstFrame
<1>2. runner.execution_base \in relocatable /\ locals.stack \in Seq(maybe_relocatable)
  BY RunnerFields DEF RunnerInv, RunnerTypeOK
<1>3. SegmentInv'
  BY <1>1, <1>2, EnterLoad DEF RunnerInv
<1>4. /\ call'.status = "running" /\ call'.base = runner.execution_base
      /\ call'.array = locals.stack /\ call'.index = 0 /\ data' = data
      /\ live' = live /\ num_segments' = num_segments /\ call.status # "running"
  BY <1>1, EnteredFrame
<1>5. RunnerTypeOK'
  BY <1>1, <1>3
  DEF RunnerInv, RunnerTypeOK, SegmentInv, MemoryInv, Stages, Initializing
<1>6. BaseInv'
  BY <1>1, <1>4 DEF RunnerInv, BaseInv, Initializing
<1>7. ControlInv'
  BY <1>1, <1>4 DEF RunnerInv, ControlInv
<1>8. ContentsInv'
  <2> DEFINE own == Cells(runner.program_base, Len(program.data))
  <2>1. /\ call.base = runner.program_base /\ call.array = program.data
        /\ NothingBut(Cells(runner.program_base, call.index))
    BY <1>1 DEF RunnerInv, ControlInv, ContentsInv
  <2>2. call.index = Len(program.data) /\ Holds(runner.program_base, program.data)
    BY <1>1, <1>4, <2>1, LoadIsComplete
  <2>3. NothingBut(own \cup Cells(runner.execution_base, call.index))'
    BY <1>1, <1>4, <2>1, <2>2 DEF NothingBut, Cells
  <2>4. Holds(runner.program_base, program.data)'
    BY <1>1, <1>4, <2>2 DEF Holds
  <2> QED BY <1>1, <2>3, <2>4 DEF ContentsInv
<1> QED BY <1>3, <1>5, <1>6, <1>7, <1>8 DEF RunnerInv

\* Both are loaded, and their results were not looked at.
LEMMA ReturnEndPreserves ==
  ASSUME RunnerInv, BootConditions, ReturnEnd PROVE RunnerInv'
<1>1. /\ stage = "load_stack" /\ stage' = "return_end" /\ call.status # "running"
      /\ runner' = [runner EXCEPT !.final_pc = locals.end]
      /\ locals' = NoLocals /\ program' = program /\ UNCHANGED memory_vars
  BY DEF ReturnEnd
<1>2. UNCHANGED <<live, num_segments, data, blocks, refused, call>>
  BY <1>1 DEF memory_vars
<1>3. SegmentInv'
  BY <1>2 DEF RunnerInv, SegmentInv, MemoryInv, MemoryTypeOK, HeapBalance,
              SegmentsAllocated, Allocated
<1>4. /\ runner' \in [DOMAIN NewRunner -> relocatable]
      /\ runner'.execution_base = runner.execution_base
      /\ runner'.program_base = runner.program_base
      /\ runner'.initial_fp = runner.initial_fp
      /\ runner'.initial_pc = runner.initial_pc
      /\ runner'.final_pc = locals.end
  BY <1>1, RunnerFields DEF RunnerInv, RunnerTypeOK
<1>5. First' = First /\ FirstFrame' = FirstFrame
  BY <1>4 DEF First, FirstFrame
<1>6. RunnerTypeOK'
  BY <1>1, <1>3, <1>4, NoLocalsType
  DEF RunnerInv, RunnerTypeOK, SegmentInv, MemoryInv, Stages, Initializing
<1>7. BaseInv'
  BY <1>1, <1>2, <1>4, <1>5 DEF RunnerInv, BaseInv, Initializing
<1>8. ControlInv'
  BY <1>1, <1>2, <1>4 DEF RunnerInv, ControlInv
<1>9. ContentsInv'
  <2> DEFINE own == Cells(runner.program_base, Len(program.data))
  <2>1. /\ call.base = runner.execution_base /\ call.array = FirstFrame
        /\ NothingBut(own \cup Cells(runner.execution_base, call.index))
        /\ Holds(runner.program_base, program.data)
    BY <1>1 DEF RunnerInv, ControlInv, BaseInv, ContentsInv
  <2>2. call.index = Len(FirstFrame) /\ Holds(runner.execution_base, FirstFrame)
    BY <1>1, <2>1, LoadIsComplete
  <2>3. Len(FirstFrame) = 2
    BY DEF FirstFrame
  <2>4. NothingBut(own \cup Cells(runner.execution_base, 2))'
    BY <1>1, <1>2, <1>4, <1>5, <2>1, <2>2, <2>3 DEF NothingBut, Cells
  <2>5. Holds(runner.program_base, program.data)'
    BY <1>1, <1>2, <1>4, <2>1 DEF Holds
  <2>6. Holds(runner.execution_base, FirstFrame)'
    BY <1>1, <1>2, <1>4, <1>5, <2>2 DEF Holds
  <2> QED BY <1>1, <2>4, <2>5, <2>6 DEF ContentsInv
<1> QED BY <1>3, <1>6, <1>7, <1>8, <1>9 DEF RunnerInv

\* The registers are set.
LEMMA InitializeVmPreserves ==
  ASSUME RunnerInv, BootConditions, InitializeVm PROVE RunnerInv'
<1>1. /\ stage = "return_end" /\ stage' = "ready"
      /\ runner' = [runner EXCEPT !.ap = runner.initial_fp,
                                  !.fp = runner.initial_fp,
                                  !.pc = runner.initial_pc]
      /\ locals' = locals /\ program' = program /\ UNCHANGED memory_vars
  BY DEF InitializeVm
<1>2. UNCHANGED <<live, num_segments, data, blocks, refused, call>>
  BY <1>1 DEF memory_vars
<1>3. SegmentInv'
  BY <1>2 DEF RunnerInv, SegmentInv, MemoryInv, MemoryTypeOK, HeapBalance,
              SegmentsAllocated, Allocated
<1>4. /\ runner' \in [DOMAIN NewRunner -> relocatable]
      /\ runner'.execution_base = runner.execution_base
      /\ runner'.program_base = runner.program_base
      /\ runner'.initial_fp = runner.initial_fp
      /\ runner'.initial_pc = runner.initial_pc
      /\ runner'.final_pc = runner.final_pc
      /\ runner'.ap = runner.initial_fp /\ runner'.fp = runner.initial_fp
      /\ runner'.pc = runner.initial_pc
  BY <1>1, RunnerFields DEF RunnerInv, RunnerTypeOK
<1>5. First' = First /\ FirstFrame' = FirstFrame
  BY <1>4 DEF First, FirstFrame
<1>6. RunnerTypeOK'
  BY <1>1, <1>3, <1>4 DEF RunnerInv, RunnerTypeOK, SegmentInv, MemoryInv, Stages
<1>7. BaseInv'
  <2>1. First + 4 <= num_segments'
    BY <1>1, <1>2, <1>3, Numbers DEF RunnerInv, BaseInv
  <2>2. /\ runner.program_base = Start(First)
        /\ runner.execution_base = Start(First + 1)
        /\ runner.initial_fp = Advance(runner.execution_base, 2)
        /\ runner.final_pc = Start(First + 3)
    BY <1>1 DEF RunnerInv, BaseInv, Initializing
  <2> QED BY <1>1, <1>4, <1>5, <2>1, <2>2 DEF BaseInv
<1>8. ControlInv'
  BY <1>1, <1>2, <1>4 DEF RunnerInv, ControlInv
<1>9. ContentsInv'
  BY <1>1, <1>2, <1>4, <1>5 DEF RunnerInv, ContentsInv, Holds
<1> QED BY <1>3, <1>6, <1>7, <1>8, <1>9 DEF RunnerInv

\* Every step.
LEMMA RunnerStepPreserves ==
  ASSUME BootConditions, RunnerInv, [Next]_vars PROVE RunnerInv'
<1>1. CASE \E p \in Programs : runner_new(p)
  BY <1>1, RunnerNewPreserves
<1>2. CASE UseMemory
  BY <1>2, UseMemoryPreserves
<1>3. CASE RunLoad
  BY <1>3, RunLoadPreserves
<1>4. CASE AddProgramSegment
  BY <1>4, AddProgramSegmentPreserves
<1>5. CASE ContinueInitialize
  BY <1>5, AddExecutionSegmentPreserves, InitializeMainEntrypointPreserves,
     InitializeFunctionEntrypointPreserves, InitializeStatePreserves,
     LoadStackPreserves, ReturnEndPreserves, InitializeVmPreserves
  DEF ContinueInitialize
<1>6. CASE runner_free
  BY <1>6, RunnerFreePreserves
<1>7. CASE UNCHANGED vars
  <2>1. UNCHANGED <<live, num_segments, data, blocks, refused, call,
                    program, runner, locals, stage>>
    BY <1>7 DEF vars, memory_vars, runner_vars
  <2> QED BY <2>1 DEF RunnerInv, SegmentInv, MemoryInv, MemoryTypeOK, HeapBalance,
                      SegmentsAllocated, Allocated, RunnerTypeOK, BaseInv,
                      ControlInv, ContentsInv, NothingBut, Holds, Cells,
                      First, FirstFrame
<1> QED BY <1>1, <1>2, <1>3, <1>4, <1>5, <1>6, <1>7 DEF Next

\* The invariant holds of every behaviour of the runner.
LEMMA RunnerInvariance == BootConditions => (Spec => []RunnerInv)
<1> SUFFICES ASSUME BootConditions PROVE Spec => []RunnerInv
  OBVIOUS
<1>1. Init => RunnerInv
  BY RunnerInitEstablishes
<1>2. RunnerInv /\ [Next]_vars => RunnerInv'
  BY RunnerStepPreserves
<1> QED BY <1>1, <1>2, PTL DEF Spec

-----------------------------------------------------------------------------
(* What the runner promises, however often it is initialized, as long as   *)
(* the table takes every entry, num_segments does not wrap and programs    *)
(* fit in a segment.                                                       *)

\* cairo_runner.h:8-17: the fields of the runner, its registers and the locals
\* of its initialization always hold values of their types.
THEOREM RunnerTypeCorrect == BootConditions => (Spec => []RunnerTypeOK)
<1> SUFFICES ASSUME BootConditions PROVE Spec => []RunnerTypeOK
  OBVIOUS
<1>1. RunnerInv => RunnerTypeOK
  BY DEF RunnerInv
<1> QED BY <1>1, RunnerInvariance, PTL

\* The comment at cairo_runner.c:33 is right under these conditions: neither
\* of the loads whose results are ignored can fail.
THEOREM LoadsCannotFail == BootConditions => (Spec => []LoadErrorsUnreachable)
<1> SUFFICES ASSUME BootConditions PROVE Spec => []LoadErrorsUnreachable
  OBVIOUS
<1>1. RunnerInv => LoadErrorsUnreachable
  BY DEF RunnerInv, ControlInv, LoadErrorsUnreachable
<1> QED BY <1>1, RunnerInvariance, PTL

\* What is held is what memory_get returns.
LEMMA HeldIsRead ==
  ASSUME RunnerInv, NEW base \in relocatable, NEW array, Holds(base, array),
         NEW i \in 1 .. Len(array)
  PROVE  memory_get(Advance(base, i - 1)) = Found(array[i])
<1>1. DOMAIN data \subseteq relocatable
  BY DEF RunnerInv, RunnerTypeOK, MemoryTypeOK
<1>2. /\ Advance(base, i - 1) \in DOMAIN data
      /\ data[Advance(base, i - 1)] = array[i]
  BY DEF Holds
<1> QED BY <1>1, <1>2, Lookup DEF memory_get

\* cairo_runner.h:25: a runner that is ready has the whole program in memory,
\* its registers at main and above the first frame, and a return from main
\* goes to the end pointer.
THEOREM ImageIsComplete == BootConditions => (Spec => []BootImage)
<1> SUFFICES ASSUME BootConditions PROVE Spec => []BootImage
  OBVIOUS
<1>1. ASSUME RunnerInv, stage = "ready" PROVE BootImage
  <2>1. /\ runner.program_base \in relocatable /\ runner.execution_base \in relocatable
        /\ Holds(runner.program_base, program.data)
        /\ Holds(runner.execution_base, FirstFrame)
    BY <1>1, RunnerFields DEF RunnerInv, RunnerTypeOK, ContentsInv
  <2>2. \A i \in 1 .. Len(program.data) :
          memory_get(Advance(runner.program_base, i - 1)) = Found(program.data[i])
    BY <1>1, <2>1, HeldIsRead
  <2>3. /\ runner.pc = Advance(runner.program_base, program.main)
        /\ runner.ap = runner.fp /\ runner.fp = Advance(runner.execution_base, 2)
        /\ runner.final_pc = Start(First + 3)
    BY <1>1 DEF RunnerInv, ControlInv, BaseInv
  <2>4. memory_get(Advance(runner.execution_base, 1)) = Found(Pointer(runner.final_pc))
    <3>1. Len(FirstFrame) = 2 /\ FirstFrame[2] = Pointer(Start(First + 3))
      BY DEF FirstFrame
    <3>2. 2 \in 1 .. Len(FirstFrame) /\ 2 - 1 = 1
      BY <3>1
    <3>3. memory_get(Advance(runner.execution_base, 2 - 1)) = Found(FirstFrame[2])
      BY <1>1, <2>1, <3>2, HeldIsRead
    <3> QED BY <2>3, <3>1, <3>2, <3>3
  <2> QED BY <2>2, <2>3, <2>4 DEF BootImage
<1>2. RunnerInv => BootImage
  BY <1>1 DEF BootImage
<1> QED BY <1>2, RunnerInvariance, PTL

\* A runner that is ready has its program, its stack and its two return
\* addresses in four different segments of its memory.
THEOREM SegmentsAreApart == BootConditions => (Spec => []SegmentsApart)
<1> SUFFICES ASSUME BootConditions PROVE Spec => []SegmentsApart
  OBVIOUS
<1>1. ASSUME RunnerInv, stage = "ready" PROVE SegmentsApart
  <2>1. /\ First \in Nat /\ First + 4 <= num_segments /\ num_segments \in Nat
        /\ num_segments < SegMod /\ SegMod \in Nat
    <3>1. First \in Nat
      BY RunnerFields, WidthAssumption, <1>1
      DEF RunnerInv, RunnerTypeOK, First, relocatable
    <3> QED BY <1>1, <3>1, Numbers DEF RunnerInv, BaseInv
  <2>2. /\ runner.program_base = Start(First)
        /\ runner.execution_base = Start(First + 1)
        /\ runner.final_pc = Start(First + 3)
        /\ Holds(runner.execution_base, FirstFrame)
        /\ runner.execution_base \in relocatable /\ live
    BY <1>1, RunnerFields
    DEF RunnerInv, RunnerTypeOK, BaseInv, ContentsInv, ControlInv
  <2> DEFINE bases == {runner.program_base.segment_index,
                       runner.execution_base.segment_index,
                       First + 2, runner.final_pc.segment_index}
  <2>3. bases = First .. First + 3
    <3>1. bases = {First, First + 1, First + 2, First + 3}
      BY <2>2 DEF Start
    <3> HIDE DEF bases
    <3> QED BY <2>1, <3>1
  <2>4. Cardinality(bases) = 4
    <3> HIDE DEF bases
    <3>1. First \in Int /\ First + 3 \in Int
      BY <2>1
    <3>2. Cardinality(First .. First + 3) =
            IF First > First + 3 THEN 0 ELSE (First + 3) - First + 1
      BY <3>1, FS_Interval
    <3>3. Cardinality(First .. First + 3) = 4
      BY <2>1, <3>2
    <3> QED BY <2>3, <3>3
  <2>5. bases \subseteq Allocated
    <3> HIDE DEF bases
    <3> QED BY <2>1, <2>2, <2>3 DEF Allocated
  <2>6. memory_get(runner.execution_base) = Found(Pointer(Start(First + 2)))
    <3>1. Len(FirstFrame) = 2 /\ FirstFrame[1] = Pointer(Start(First + 2))
      BY DEF FirstFrame
    <3>2. 1 \in 1 .. Len(FirstFrame) /\ 1 - 1 = 0
      BY <3>1
    <3>3. memory_get(Advance(runner.execution_base, 1 - 1)) = Found(FirstFrame[1])
      BY <1>1, <2>2, <3>2, HeldIsRead
    <3>4. Advance(runner.execution_base, 0) = runner.execution_base
      BY <2>2, AdvanceSteps
    <3> QED BY <3>1, <3>2, <3>3, <3>4
  <2>7. First + 2 \in 0 .. SegMod - 1
    BY <2>1
  <2> QED BY <2>4, <2>5, <2>6, <2>7 DEF SegmentsApart, SegmentsPerRun, Start
<1>2. RunnerInv => SegmentsApart
  BY <1>1 DEF SegmentsApart
<1> QED BY <1>2, RunnerInvariance, PTL

\* When runner_initialize returns, what is in its four segments is the program
\* and the two words of the first frame.
LEMMA BootLeavesNothingElse ==
  ASSUME RunnerInv, stage = "return_end"
  PROVE  LET fresh == {runner.program_base.segment_index + k : k \in 0 .. 3} IN
         {ptr \in DOMAIN data : ptr.segment_index \in fresh} =
           {Advance(runner.program_base, i - 1) : i \in 1 .. Len(program.data)}
             \cup {runner.execution_base, Advance(runner.execution_base, 1)}
<1> DEFINE pb == runner.program_base
           eb == runner.execution_base
           fresh == {First + k : k \in 0 .. 3}
           own == Cells(pb, Len(program.data))
<1>1. /\ First \in Nat /\ pb = Start(First) /\ eb = Start(First + 1)
      /\ eb \in relocatable
  <2>1. First \in Nat
    BY RunnerFields, WidthAssumption DEF RunnerInv, RunnerTypeOK, First, relocatable
  <2> QED BY <2>1, RunnerFields DEF RunnerInv, RunnerTypeOK, BaseInv, Initializing
<1>2. /\ NothingBut(own \cup Cells(eb, 2))
      /\ Holds(pb, program.data) /\ Holds(eb, FirstFrame)
  BY DEF RunnerInv, ContentsInv
<1>3. Cells(eb, 2) = {eb, Advance(eb, 1)}
  <2>1. Cells(eb, 0) = {} /\ Cells(eb, 0 + 1) = Cells(eb, 0) \cup {Advance(eb, 0)}
        /\ Cells(eb, 1 + 1) = Cells(eb, 1) \cup {Advance(eb, 1)}
    BY NoCells, NextCell
  <2>2. Advance(eb, 0) = eb /\ 0 + 1 = 1 /\ 1 + 1 = 2
    BY <1>1, AdvanceSteps
  <2> QED BY <2>1, <2>2
<1>4. own \subseteq DOMAIN data
  BY <1>2 DEF Cells, Holds
<1>5. {eb, Advance(eb, 1)} \subseteq DOMAIN data
  <2>1. Len(FirstFrame) = 2
    BY DEF FirstFrame
  <2>2. 1 \in 1 .. Len(FirstFrame) /\ 2 \in 1 .. Len(FirstFrame)
        /\ 1 - 1 = 0 /\ 2 - 1 = 1
    BY <2>1
  <2>3. Advance(eb, 1 - 1) \in DOMAIN data /\ Advance(eb, 2 - 1) \in DOMAIN data
    BY <1>2, <2>2 DEF Holds
  <2>4. Advance(eb, 0) = eb
    BY <1>1, AdvanceSteps
  <2> QED BY <2>2, <2>3, <2>4
<1>6. \A ptr \in own : ptr.segment_index = First
  BY <1>1 DEF Cells, Advance, Start
<1>7. eb.segment_index = First + 1 /\ Advance(eb, 1).segment_index = First + 1
  BY <1>1 DEF Advance, Start
<1>8. First \in fresh /\ First + 1 \in fresh /\ \A s \in fresh : ~(s < First)
  <2>1. 0 \in 0 .. 3 /\ 1 \in 0 .. 3 /\ First + 0 = First
    BY <1>1
  <2> QED BY <1>1, <2>1
<1>9. {ptr \in DOMAIN data : ptr.segment_index \in fresh}
        = own \cup {eb, Advance(eb, 1)}
  <2> HIDE DEF own, fresh, pb, eb
  <2>1. ASSUME NEW ptr \in DOMAIN data, ptr.segment_index \in fresh
        PROVE  ptr \in own \cup {eb, Advance(eb, 1)}
    BY <1>2, <1>3, <1>8, <2>1 DEF NothingBut
  <2>2. ASSUME NEW ptr \in own \cup {eb, Advance(eb, 1)}
        PROVE  ptr \in DOMAIN data /\ ptr.segment_index \in fresh
    BY <1>4, <1>5, <1>6, <1>7, <1>8
  <2> QED BY <2>1, <2>2
<1> QED BY <1>9 DEF Cells, First

\* Whatever the client had written before, and in whatever segments, a new
\* initialization finds its segments empty and leaves nothing but the image.
THEOREM BootIsClean == BootConditions => (Spec => CleanBoot)
<1> SUFFICES ASSUME BootConditions PROVE Spec => CleanBoot
  OBVIOUS
<1>1. RunnerInv /\ [Next]_vars =>
        [ stage = "return_end" /\ stage' = "ready" =>
            LET fresh == {runner.program_base.segment_index + k : k \in 0 .. 3} IN
            {ptr \in DOMAIN data : ptr.segment_index \in fresh} =
              {Advance(runner.program_base, i - 1) : i \in 1 .. Len(program.data)}
                \cup {runner.execution_base, Advance(runner.execution_base, 1)} ]_vars
  BY BootLeavesNothingElse
<1> QED BY <1>1, RunnerInvariance, PTL DEF Spec, CleanBoot

-----------------------------------------------------------------------------
(* The runner does to its memory what any client could have done.          *)

\* A step of the runner is a step of the memory, or starts a load: of the
\* program or the stack, which need not be among the arrays of the client.
LEMMA StepOfTheMemory ==
  ASSUME RunnerInv, [Next]_vars
  PROVE  [MemoryNext]_memory_vars \/ UNCHANGED <<live, num_segments, data>>
<1>1. CASE \E p \in Programs : runner_new(p)
  BY <1>1, Zenon DEF runner_new, MemoryNext
<1>2. CASE UseMemory
  BY <1>2, Zenon DEF UseMemory, MemoryNext
<1>3. CASE RunLoad
  BY <1>3, Zenon DEF RunLoad, MemoryNext
<1>4. CASE AddProgramSegment
  BY <1>4, Zenon DEF AddProgramSegment, ClientCall, MemoryNext
<1>5. CASE ContinueInitialize
  <2>1. AddSegment \/ UNCHANGED <<live, num_segments, data>>
    BY <1>5, Zenon
    DEF ContinueInitialize, AddExecutionSegment, InitializeMainEntrypoint,
        InitializeFunctionEntrypoint, InitializeState, LoadStack, ReturnEnd,
        InitializeVm, memory_load_data, memory_vars
  <2> QED BY <2>1, Zenon DEF ClientCall, MemoryNext
<1>6. CASE runner_free
  BY <1>6, Zenon DEF runner_free, MemoryNext
<1>7. CASE UNCHANGED vars
  BY <1>7, Zenon DEF vars, memory_vars
<1> QED BY <1>1, <1>2, <1>3, <1>4, <1>5, <1>6, <1>7, Zenon DEF Next

\* Nothing the runner does, initialized a second time or not, changes or
\* removes a cell of its memory before runner_free.
THEOREM RunnerKeepsCells == BootConditions => (Spec => WriteOnce)
<1> SUFFICES ASSUME BootConditions PROVE Spec => WriteOnce
  OBVIOUS
<1>1. RunnerInv /\ [Next]_vars =>
        [live' => \A ptr \in DOMAIN data :
           ptr \in DOMAIN data' /\ data'[ptr] = data[ptr]]_memory_vars
  BY StepOfTheMemory, StepKeepsCells DEF RunnerInv, SegmentInv
<1> QED BY <1>1, RunnerInvariance, PTL DEF Spec, WriteOnce

\* The runner and its client together, on one memory, are a write-once store.
THEOREM RunnerImplementsStore == BootConditions => (Spec => ImplementsStore)
<1> SUFFICES ASSUME BootConditions PROVE Spec => ImplementsStore
  OBVIOUS
<1>1. Init => Store!Init
  BY DEF Init, MemoryInit, Store!Init, Allocated, EmptyTable
<1>2. ASSUME RunnerInv, [Next]_vars PROVE [Store!Next]_<<Allocated, data>>
  <2>1. CASE [MemoryNext]_memory_vars
    BY <1>2, <2>1, StepRefines DEF RunnerInv, BootConditions
  <2>2. CASE UNCHANGED <<live, num_segments, data>>
    BY <2>2 DEF Allocated
  <2> QED BY <1>2, <2>1, <2>2, StepOfTheMemory
<1>3. RunnerInv /\ [Next]_vars => [Store!Next]_<<Allocated, data>>
  BY <1>2
<1> QED BY <1>1, <1>3, RunnerInvariance, PTL
        DEF Spec, ImplementsStore, Store!Spec

-----------------------------------------------------------------------------
(* That initialization ends.                                               *)

\* What runner_initialize does next.
Following ==
  [program_segment   |-> "execution_segment",
   execution_segment |-> "return_fp",
   return_fp         |-> "end",
   end               |-> "load_program",
   load_program      |-> "load_stack",
   load_stack        |-> "return_end",
   return_end        |-> "ready"]

\* It goes on to that, from a load only when all of its array is in memory, or
\* it is in a load that goes on.
InitializeGoesOn ==
  stage \in Initializing =>
    \/ /\ stage' = Following[stage]
       /\ stage \in {"load_program", "load_stack"} =>
            call.status = "ok" /\ call.index = Len(call.array)
    \/ /\ stage' = stage /\ stage \in {"load_program", "load_stack"}
       /\ call.status = "running" /\ call'.status # "error" /\ LoadGoesOn

\* In the middle of runner_initialize neither the client nor another call gets
\* in, no step is skipped or repeated, and the loads whose results are ignored
\* have loaded everything before the next step (cairo_runner.c:30-40, 84-90).
THEOREM InitializationGoesOn == BootConditions => (Spec => [][InitializeGoesOn]_vars)
<1> SUFFICES ASSUME BootConditions PROVE Spec => [][InitializeGoesOn]_vars
  OBVIOUS
<1>1. ASSUME RunnerInv, RunnerInv', Next, stage \in Initializing PROVE InitializeGoesOn
  <2>1. stage \notin {"none", "new", "ready"}
    BY <1>1 DEF Initializing
  <2>2. /\ stage \in {"load_program", "load_stack"} /\ call.status # "running" =>
             call.status = "ok" /\ call.index = Len(call.array)
        /\ call.status = "running" => stage \in {"load_program", "load_stack"}
    <3>1. call.status \in {"ok", "error", "running"}
      BY <1>1 DEF RunnerInv, SegmentInv, MemoryInv, MemoryTypeOK, Frame
    <3> QED BY <1>1, <2>1, <3>1 DEF RunnerInv, ControlInv
  <2>3. CASE ContinueInitialize
    <3>1. stage' = Following[stage]
      BY <2>3 DEF ContinueInitialize, AddExecutionSegment, InitializeMainEntrypoint,
                  InitializeFunctionEntrypoint, InitializeState, LoadStack, ReturnEnd,
                  InitializeVm, Following
    <3>2. stage \in {"load_program", "load_stack"} => call.status # "running"
      BY <2>3 DEF ContinueInitialize, AddExecutionSegment, InitializeMainEntrypoint,
                  InitializeFunctionEntrypoint, InitializeState, LoadStack, ReturnEnd,
                  InitializeVm, memory_load_data, Ready
    <3> QED BY <2>2, <3>1, <3>2 DEF InitializeGoesOn
  <2>4. CASE RunLoad
    <3>1. call.status = "running" /\ stage' = stage
      BY <2>4 DEF RunLoad, runner_vars, LoadStep, LoadReturn
    <3>2. LoadGoesOn
      BY <1>1, <2>4, LoadStepGoesOn, LoadReturnGoesOn DEF RunLoad, RunnerInv, SegmentInv
    <3>3. stage' \in {"load_program", "load_stack"} => call'.status # "error"
      BY <1>1 DEF RunnerInv, ControlInv
    <3> QED BY <2>2, <3>1, <3>2, <3>3 DEF InitializeGoesOn
  <2>5. ~(\/ \E p \in Programs : runner_new(p)
          \/ UseMemory
          \/ AddProgramSegment
          \/ runner_free)
    BY <2>1 DEF runner_new, UseMemory, AddProgramSegment, runner_free
  <2> QED BY <1>1, <2>3, <2>4, <2>5 DEF Next
<1>2. RunnerInv /\ RunnerInv' /\ [Next]_vars => [InitializeGoesOn]_vars
  BY <1>1 DEF InitializeGoesOn
<1> QED BY <1>2, RunnerInvariance, PTL DEF Spec

=============================================================================
