------------------------------- MODULE Runner -------------------------------
(***************************************************************************)
(* The Cairo runner of src/cairo_runner.c, with the memory it owns         *)
(* (Memory.tla), the registers of src/run_context.h and the program of     *)
(* src/program.h.                                                          *)
(*                                                                         *)
(* A client creates a runner, calls runner_initialize (again, if it wants  *)
(* to), uses runner.vm.memory through the memory API between those calls,  *)
(* and frees the runner.  runner_initialize is not one step: stage is the  *)
(* point its nested functions have reached, each memory call they make is  *)
(* a step of its own, and the loads run through the call frame of Memory.  *)
(***************************************************************************)
EXTENDS Memory

CONSTANT Programs   \* the programs a runner is created with

program_t == [main : 0 .. OffMod - 1, data : Seq(maybe_relocatable)]

ASSUME ProgramsAssumption == Programs \subseteq program_t

VARIABLES
  program,   \* cairo_runner.program; NoProgram before there is one
  runner,    \* the relocatable fields of cairo_runner and of its run_context
  locals,    \* return_fp, end and stack of the entrypoint functions
  stage      \* where the client, or runner_initialize, is

runner_vars == <<program, runner, locals, stage>>
vars == <<memory_vars, runner_vars>>

Zero == [segment_index |-> 0, offset |-> 0]

NoProgram == [main |-> 0, data |-> << >>]

NewRunner ==
  [program_base |-> Zero, execution_base |-> Zero, initial_pc |-> Zero,
   initial_fp |-> Zero, final_pc |-> Zero, pc |-> Zero, ap |-> Zero, fp |-> Zero]

NoLocals == [return_fp |-> Zero, end |-> Zero, stack |-> << >>]

\* The points inside runner_initialize.
Initializing ==
  {"program_segment", "execution_segment", "return_fp", "end",
   "load_program", "load_stack", "return_end"}

Stages == {"none", "new", "ready"} \cup Initializing

\* cairo_runner.h:8-17: the fields of the runner and the locals of its
\* initialization hold values of their types, pointers that wrap included.
RunnerTypeOK ==
  /\ MemoryTypeOK
  /\ program \in program_t
  /\ runner \in [DOMAIN NewRunner -> relocatable]
  /\ locals \in [return_fp : relocatable, end : relocatable,
                 stack : Seq(maybe_relocatable)]
  /\ stage \in Stages

\* Segments runner_initialize adds.
SegmentsPerRun == 4

-----------------------------------------------------------------------------
\* runner_new, with vm_new.
runner_new(p) ==
  /\ stage = "none"
  /\ memory_new
  /\ program' = p
  /\ runner' = NewRunner
  /\ stage' = "new"
  /\ UNCHANGED locals

\* The client uses runner.vm.memory.
UseMemory ==
  /\ stage \in {"new", "ready"}
  /\ ClientCall
  /\ UNCHANGED runner_vars

\* The loop of a load, whoever called memory_load_data.
RunLoad ==
  /\ LoadStep \/ LoadReturn
  /\ UNCHANGED runner_vars

\* runner_initialize_segments, first call.
AddProgramSegment ==
  /\ stage \in {"new", "ready"}
  /\ num_segments + SegmentsPerRun <= MaxSegments
  /\ AddSegment
  /\ runner' = [runner EXCEPT
                  !.program_base = memory_add_segment(num_segments).ptr]
  /\ stage' = "program_segment"
  /\ UNCHANGED <<program, locals>>

\* A second initialization that keeps the bases of the first.
AddExecutionSegment_Stale ==
  /\ stage = "program_segment"
  /\ AddSegment
  /\ runner' = [runner EXCEPT !.program_base = Zero, !.execution_base =
                  [Zero EXCEPT !.segment_index = 1]]
  /\ stage' = "execution_segment"
  /\ UNCHANGED <<program, locals>>

\* runner_initialize_segments, second call.
AddExecutionSegment ==
  /\ stage = "program_segment"
  /\ AddSegment
  /\ runner' = [runner EXCEPT
                  !.execution_base = memory_add_segment(num_segments).ptr]
  /\ stage' = "execution_segment"
  /\ UNCHANGED <<program, locals>>

\* runner_initialize_main_entrypoint up to its call.
InitializeMainEntrypoint ==
  /\ stage = "execution_segment"
  /\ AddSegment
  /\ locals' = [NoLocals EXCEPT
                  !.return_fp = memory_add_segment(num_segments).ptr]
  /\ stage' = "return_fp"
  /\ UNCHANGED <<program, runner>>

\* The two words of the frame pushed in the other order.
InitializeFunctionEntrypoint_Swapped ==
  LET end == memory_add_segment(num_segments).ptr
      stack == locals.stack \o <<Pointer(end), Pointer(locals.return_fp)>> IN
  /\ stage = "return_fp"
  /\ AddSegment
  /\ locals' = [locals EXCEPT !.end = end, !.stack = stack]
  /\ runner' = [runner EXCEPT
                  !.initial_fp.segment_index = runner.execution_base.segment_index,
                  !.initial_fp.offset = Len(stack) % OffMod]
  /\ stage' = "end"
  /\ UNCHANGED program

\* runner_initialize_function_entrypoint up to its call.  The stack holds
\* pointers to two of its variables; they outlive every read of the stack.
InitializeFunctionEntrypoint ==
  LET end == memory_add_segment(num_segments).ptr
      stack == locals.stack \o <<Pointer(locals.return_fp), Pointer(end)>> IN
  /\ stage = "return_fp"
  /\ AddSegment
  /\ locals' = [locals EXCEPT !.end = end, !.stack = stack]
  /\ runner' = [runner EXCEPT
                  !.initial_fp.segment_index = runner.execution_base.segment_index,
                  !.initial_fp.offset = Len(stack) % OffMod]
  /\ stage' = "end"
  /\ UNCHANGED program

\* runner_initialize_state up to its first load.
InitializeState ==
  /\ stage = "end"
  /\ runner' = [runner EXCEPT
                  !.initial_pc = Advance(runner.program_base, program.main)]
  /\ memory_load_data(runner.program_base, program.data)
  /\ stage' = "load_program"
  /\ UNCHANGED <<program, locals>>

\* Its second load.  The result of the first is ignored.
LoadStack ==
  /\ stage = "load_program"
  /\ memory_load_data(runner.execution_base, locals.stack)
  /\ stage' = "load_stack"
  /\ UNCHANGED <<program, runner, locals>>

\* The result of the second is ignored too; the entrypoint functions record
\* and return end, and the stack is destroyed.
ReturnEnd ==
  /\ stage = "load_stack"
  /\ call.status # "running"
  /\ runner' = [runner EXCEPT !.final_pc = locals.end]
  /\ locals' = NoLocals
  /\ stage' = "return_end"
  /\ UNCHANGED <<memory_vars, program>>

\* runner_initialize_vm, and runner_initialize returns.
InitializeVm ==
  /\ stage = "return_end"
  /\ runner' = [runner EXCEPT !.ap = runner.initial_fp,
                              !.fp = runner.initial_fp,
                              !.pc = runner.initial_pc]
  /\ stage' = "ready"
  /\ UNCHANGED <<memory_vars, program, locals>>

\* program_free releases the array of the program and leaves main alone.
program_free == program' = [program EXCEPT !.data = << >>]

\* runner_free: memory_free, then program_free.
runner_free ==
  /\ stage \in {"new", "ready"}
  /\ Ready
  /\ memory_free
  /\ program_free
  /\ stage' = "none"
  /\ UNCHANGED <<runner, locals>>

-----------------------------------------------------------------------------
Init ==
  /\ MemoryInit
  /\ program = NoProgram
  /\ runner = NewRunner
  /\ locals = NoLocals
  /\ stage = "none"

\* The steps of runner_initialize after its first.
ContinueInitialize ==
  \/ AddExecutionSegment
  \/ InitializeMainEntrypoint
  \/ InitializeFunctionEntrypoint
  \/ InitializeState
  \/ LoadStack
  \/ ReturnEnd
  \/ InitializeVm

Next ==
  \/ \E p \in Programs : runner_new(p)
  \/ UseMemory
  \/ RunLoad
  \/ AddProgramSegment
  \/ ContinueInitialize
  \/ runner_free

\* One thread executes runner_initialize and the loads it calls.
Fairness == WF_vars(RunLoad) /\ WF_vars(ContinueInitialize)

Spec == Init /\ [][Next]_vars /\ Fairness

-----------------------------------------------------------------------------
\* cairo_runner.c:33 relies on it to ignore both results: "these cases are
\* unreachable when called after runner_initialize_segments".
LoadErrorsUnreachable ==
  stage \in {"load_program", "load_stack"} => call.status # "error"

\* cairo_runner.h:25: runner_initialize leaves the runner ready to run.  The
\* whole program is in memory from program_base on, pc is its main, ap and fp
\* are above the two cells of the first frame, and the caller of main that the
\* frame names is final_pc: a `ret` from main goes to the end pointer.
BootImage ==
  stage = "ready" =>
    /\ \A i \in 1 .. Len(program.data) :
         memory_get(Advance(runner.program_base, i - 1)) = Found(program.data[i])
    /\ runner.pc = Advance(runner.program_base, program.main)
    /\ runner.ap = runner.fp
    /\ runner.fp = Advance(runner.execution_base, 2)
    /\ memory_get(Advance(runner.execution_base, 1)) = Found(Pointer(runner.final_pc))

\* When runner_initialize returns, the four segments it added hold exactly the
\* program and the two words of the first frame, whatever the client had
\* written before, and in whatever segments.
CleanBoot ==
  [][ stage = "return_end" /\ stage' = "ready" =>
        LET fresh == {runner.program_base.segment_index + k : k \in 0 .. 3} IN
        {ptr \in DOMAIN data : ptr.segment_index \in fresh} =
          {Advance(runner.program_base, i - 1) : i \in 1 .. Len(program.data)}
            \cup {runner.execution_base, Advance(runner.execution_base, 1)} ]_vars

\* The four pointers the runner hands out are in four segments, all of which
\* exist: return_fp is the word under the end pointer in the first frame.
SegmentsApart ==
  stage = "ready" =>
    \E return_fp \in 0 .. SegMod - 1 :
      LET bases == {runner.program_base.segment_index,
                    runner.execution_base.segment_index,
                    return_fp, runner.final_pc.segment_index} IN
      /\ memory_get(runner.execution_base) =
           Found(Pointer([segment_index |-> return_fp, offset |-> 0]))
      /\ Cardinality(bases) = SegmentsPerRun
      /\ bases \subseteq Allocated

\* runner_initialize returns.
InitializeReturns == stage \in Initializing ~> stage = "ready"

=============================================================================
