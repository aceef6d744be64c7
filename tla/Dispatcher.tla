----------------------------- MODULE Dispatcher -----------------------------
(***************************************************************************)
(* NT system calls of the guest: the generated thunks (thunk_gen.c), the   *)
(* assembly that saves the guest and switches stacks                       *)
(* (dispatcher_entry_asm.S), and c_dispatch_syscall with the switch body   *)
(* that gen_dispatcher.py makes of nt_syscalls.def.  Both architectures;   *)
(* one guest thread, as the single register block and stack allow.         *)
(*                                                                         *)
(* The stack is a sequence whose last element is the top.  Memory is made  *)
(* of 4-byte words, and a 64-bit value is a pair <<low, high>> of them.    *)
(***************************************************************************)
EXTENDS Integers, Sequences, SequencesExt, FiniteSets, TLC

CONSTANTS
    Archs,       \* "x86_64", "i386"
    Syscalls,    \* the names of Def that the guest calls
    Pointers,    \* pointer arguments, null and misaligned ones included
    Results,     \* what a handler may return
    GuestLimit,  \* the highest guest address
    MaxCalls

VARIABLES
    arch,
    thunk_blob,    \* "none", "mapped", or "failed" for MAP_FAILED
    thunk_array,   \* number |-> address of its thunk
    dpc,           \* where the guest thread is
    cpu,           \* its registers
    stk,           \* its stack
    words,         \* address |-> word, where it was ever written
    guest_regs,    \* __wine_guest_regs
    cur,           \* the call under way, as the guest and the handler see it
    calls

dispVars == <<arch, thunk_blob, thunk_array, dpc, cpu, stk, words, guest_regs, cur, calls>>

\* 0xC0000005 and 0xC0000002 as the signed 32-bit numbers that they are
STATUS_ACCESS_VIOLATION == -1073741819
STATUS_NOT_IMPLEMENTED == -1073741822

-----------------------------------------------------------------------------
(* nt_syscalls.def: `stack` names locals read from the stack, `wb` (8 bytes *)
(* written back) and `wb32` (4 bytes) pair a source with a local, `ro` are  *)
(* sources only validated, `call` is what the handler is given.             *)

Plain(nr, call) == [nr |-> nr, stack |-> << >>, wb |-> << >>, wb32 |-> << >>, ro |-> << >>, call |-> call]
WithWb(nr, wb, call) == [Plain(nr, call) EXCEPT !.wb = wb]
WithRo(nr, stack, ro, call) == [Plain(nr, call) EXCEPT !.stack = stack, !.ro = ro]

Def == [
    NtCallbackReturn |-> Plain(5, << >>),
    NtQueryInformationProcess |->
        WithRo(7, << <<"retLen", 1>> >>, <<"arg3", "retLen">>, <<"arg1", "arg2", "arg3", "arg4", "retLen">>),
    NtClose |-> Plain(15, <<"arg1">>),
    NtAllocateVirtualMemory |->
        WithWb(24, << <<"arg2", "base">>, <<"arg4", "size">> >>,
               <<"arg1", "base", "arg3", "size", "STACK1", "STACK2">>),
    NtFreeVirtualMemory |->
        WithWb(25, << <<"arg2", "base">>, <<"arg3", "size">> >>, <<"arg1", "base", "size", "arg4">>),
    NtGetContextThread |-> WithRo(36, << >>, <<"arg2">>, <<"arg1", "arg2">>),
    NtSetContextThread |-> WithRo(38, << >>, <<"arg2">>, <<"arg1", "arg2">>),
    NtMapViewOfSection |->
        [WithWb(40, << <<"arg3", "base">>, <<"off", "off">>, <<"size", "size">> >>,
                <<"arg1", "arg2", "base", "arg4", "STACK1", "off", "size", "STACK4", "STACK5", "STACK6">>)
         EXCEPT !.stack = << <<"off", 1>>, <<"size", 2>> >>],
    NtUnmapViewOfSection |-> Plain(41, <<"arg1", "arg2">>),
    NtTerminateProcess |-> Plain(42, <<"arg1", "arg2">>),
    NtReadFile |->
        WithRo(60, << <<"buffer", 1>>, <<"done", 4>> >>, <<"buffer", "done">>,
               <<"arg1", "arg2", "arg3", "arg4", "buffer", "STACK2", "STACK3", "done">>),
    NtWriteFile |->
        WithRo(61, << <<"buffer", 1>>, <<"done", 4>> >>, <<"buffer", "done">>,
               <<"arg1", "arg2", "arg3", "arg4", "buffer", "STACK2", "STACK3", "done">>),
    NtCreateMutex |-> WithWb(68, << <<"arg1", "handle">> >>, <<"handle", "arg2", "arg3">>),
    NtCreateEvent |-> WithWb(72, << <<"arg1", "handle">> >>, <<"handle", "arg2", "arg3", "arg4", "STACK1">>),
    NtCreateSection |->
        WithWb(74, << <<"arg1", "handle">>, <<"arg4", "max">> >>,
               <<"handle", "arg2", "arg3", "max", "STACK1", "STACK2", "STACK3">>),
    NtCreateSemaphore |-> WithWb(76, << <<"arg1", "handle">> >>, <<"handle", "arg2", "arg3", "arg4", "STACK1">>),
    NtCreateThreadEx |->
        WithWb(78, << <<"arg1", "handle">> >>,
               <<"handle", "arg2", "arg3", "arg4", "STACK1", "STACK2", "STACK3", "STACK4", "STACK5", "STACK6", "STACK7">>),
    NtOpenFile |->
        [WithWb(79, << <<"arg1", "handle">> >>, <<"handle", "arg2", "arg3", "arg4", "STACK1", "STACK2">>)
         EXCEPT !.ro = <<"arg3", "arg4">>],
    NtQueryPerformanceCounter |-> WithWb(85, << <<"arg1", "counter">> >>, <<"counter">>),
    NtQueryPerformanceFrequency |-> WithWb(86, << <<"arg1", "freq">> >>, <<"freq">>),
    NtSetEvent |-> [Plain(92, <<"arg1", "prev">>) EXCEPT !.wb32 = << <<"arg2", "prev">> >>],
    NtResetEvent |-> [Plain(94, <<"arg1", "prev">>) EXCEPT !.wb32 = << <<"arg2", "prev">> >>],
    NtQuerySystemTime |-> WithWb(9, << <<"arg1", "time">> >>, <<"time">>),
    NtDelayExecution |-> WithWb(26, << <<"arg2", "timeout">> >>, <<"arg1", "timeout">>),
    NtReleaseMutex |-> Plain(30, <<"arg1", "arg2">>),
    NtWaitForSingleObject |-> WithWb(3, << <<"arg3", "timeout">> >>, <<"arg1", "arg2", "timeout">>)]

EntryOf(nr) == {n \in DOMAIN Def : Def[n].nr = nr}

ASSUME DispatcherAssumption ==
    /\ Archs \subseteq {"x86_64", "i386"} /\ Syscalls \subseteq DOMAIN Def
    /\ Pointers \subseteq Nat /\ 0 \in Pointers /\ MaxCalls \in Nat /\ GuestLimit \in Nat

-----------------------------------------------------------------------------
(* Registers and stack                                                      *)

Is64 == arch = "x86_64"
WordSize == IF Is64 THEN 8 ELSE 4

RegisterList == IF Is64 THEN <<"rax", "rcx", "rdx", "r8", "r9", "rdi", "rsi", "rbx", "r12", "r13", "r14", "r15">>
                ELSE <<"eax", "ecx", "edx", "ebx", "esi", "edi", "ebp">>
Registers == ToSet(RegisterList)
CalleeSaved == IF Is64 THEN {"rsi", "rdi", "rbx", "r12", "r13", "r14", "r15"} ELSE {"ebx", "esi", "edi", "ebp"}

\* The C code keeps its own ABI's callee-saved registers, and nothing else.
SysvClobbered == IF Is64 THEN {"rax", "rcx", "rdx", "r8", "r9", "rdi", "rsi"} ELSE {"eax", "ecx", "edx"}

ArgRegisters == IF Is64 THEN <<"rcx", "rdx", "r8", "r9">> ELSE << >>
NumberRegister == IF Is64 THEN "rdi" ELSE "edx"
ResultRegister == IF Is64 THEN "rax" ELSE "eax"

Top == stk[Len(stk)]
Popped(s) == SubSeq(s, 1, Len(s) - 1)
Update(f, g) == [x \in DOMAIN f |-> IF x \in DOMAIN g THEN g[x] ELSE f[x]]

GuestReturn == 3001     \* in the guest's code, at no particular alignment
Flags == 646
DispatcherEntry == 647  \* the address of __wine_dispatcher
Junk == 648             \* what C code leaves in a scratch register
NoCall == [name |-> "none", given |-> << >>, before |-> << >>, depth |-> 0, words |-> << >>,
           entered |-> FALSE, seen |-> << >>, wrote |-> {}, status |-> 0]

-----------------------------------------------------------------------------
(* thunk_gen.c                                                              *)

nt_syscall_list ==
    <<5, 7, 15, 24, 25, 36, 38, 40, 41, 42, 60, 61, 72, 74, 78, 79, 9, 26, 85, 86, 3, 30, 68, 92, 94>>

THUNK_SIZE == IF Is64 THEN 23 ELSE 15
Blob == 4096

\* The 64-bit thunk's first instruction is 41 57, which pushes r15.
ThunkPushes == IF Is64 THEN "r15" ELSE "ebp"
ThunkPops == IF Is64 THEN "rdi" ELSE "ebp"
ThunkReturn(nr) == thunk_array[nr] + (IF Is64 THEN 21 ELSE 13)

generate_all_thunks ==
    /\ thunk_blob = "none"
    /\ \/ /\ thunk_blob' = "failed"
          /\ UNCHANGED thunk_array
       \/ /\ thunk_blob' = "mapped"
          /\ thunk_array' = [n \in ToSet(nt_syscall_list) |->
                Blob + THUNK_SIZE * ((CHOOSE i \in DOMAIN nt_syscall_list : nt_syscall_list[i] = n) - 1)]
    /\ UNCHANGED <<arch, dpc, cpu, stk, words, guest_regs, cur, calls>>

lookup_thunk(nr) == IF nr < 96 /\ nr \in DOMAIN thunk_array THEN thunk_array[nr] ELSE 0

\* The array is left as it is.
cleanup_thunk_pages ==
    /\ thunk_blob # "none" /\ dpc = "guest" /\ calls = MaxCalls
    /\ thunk_blob' = "none" /\ dpc' = "exited"
    /\ UNCHANGED <<arch, thunk_array, cpu, stk, words, guest_regs, cur, calls>>

-----------------------------------------------------------------------------
(* The guest calls a thunk with the arguments of the call: four in          *)
(* registers above four words of home space on x86_64, all on the stack on  *)
(* i386.                                                                    *)

PointerPositions(e) ==
    {i \in DOMAIN e.call : \/ e.call[i] \in ToSet(e.ro)
                           \/ \E w \in ToSet(e.wb \o e.wb32) : w[2] = e.call[i]}

Arguments(e) ==
    LET p == PointerPositions(e)
    IN {[i \in DOMAIN e.call |-> IF i \in p THEN f[i] ELSE 200 + i] : f \in [p -> Pointers]}

StackImage(args) ==
    IF Is64 THEN Reverse(SubSeq(args, 5, Len(args))) \o <<0, 0, 0, 0, GuestReturn>>
    ELSE Reverse(args) \o <<GuestReturn>>

CallThunk(name, args) ==
    LET used == DOMAIN args \cap DOMAIN ArgRegisters
        loaded == Update(cpu, [r \in {ArgRegisters[i] : i \in used} |->
                                 args[CHOOSE i \in used : ArgRegisters[i] = r]])
    IN /\ dpc = "guest" /\ thunk_blob = "mapped" /\ calls < MaxCalls
       /\ lookup_thunk(Def[name].nr) # 0
       /\ dpc' = "thunk" /\ calls' = calls + 1
       /\ cpu' = loaded
       /\ stk' = stk \o StackImage(args)
       /\ cur' = [NoCall EXCEPT !.name = name, !.given = args, !.before = loaded, !.depth = Len(stk'), !.words = words]
       /\ UNCHANGED <<arch, thunk_blob, thunk_array, words, guest_regs>>

\* write_thunk_at: save a register, load the number and call the dispatcher
RunThunk ==
    /\ dpc = "thunk" /\ dpc' = "enter"
    /\ stk' = stk \o <<cpu[ThunkPushes], ThunkReturn(Def[cur.name].nr)>>
    /\ cpu' = [cpu EXCEPT ![ResultRegister] = DispatcherEntry, ![NumberRegister] = Def[cur.name].nr]
    /\ UNCHANGED <<arch, thunk_blob, thunk_array, words, guest_regs, cur, calls>>

-----------------------------------------------------------------------------
(* dispatcher_entry_asm.S: save, switch to the UNIX stack, call             *)

\* Mutant: the registers that C code saves itself, and the arguments.
SavedRegistersSysv == IF Is64 THEN {"rcx", "rdx", "r8", "r9", "rbx", "r12", "r13", "r14", "r15"}
                      ELSE {"edx", "ecx", "ebx", "esi", "edi"}

SavedRegisters == IF Is64 THEN {"rcx", "rdx", "r8", "r9", "rsi", "rbx", "r12", "r13", "r14", "r15"}
                  ELSE {"edx", "ecx", "ebx", "esi", "edi"}

__wine_dispatcher ==
    /\ dpc = "enter" /\ dpc' = "c"
    /\ stk' = IF Is64 THEN stk ELSE Append(stk, Flags)
    /\ guest_regs' = [regs |-> [r \in SavedRegisters |-> cpu[r]], sp |-> Len(stk'), ret |-> Top,
                      result |-> guest_regs.result]
    /\ UNCHANGED <<arch, thunk_blob, thunk_array, cpu, words, cur, calls>>

-----------------------------------------------------------------------------
(* dispatcher.c                                                             *)

read_guest_stack(index) ==
    IF index \notin 0 .. 15 \/ guest_regs.sp = 0 \/ guest_regs.sp - index < 1 THEN 0
    ELSE stk[guest_regs.sp - index]

syscall_safe_guest_ptr_is_valid(p) == p # 0 /\ p <= GuestLimit /\ p % WordSize = 0

\* arg1 to arg4
__ARG(n) == IF Is64 THEN guest_regs.regs[ArgRegisters[n]] ELSE read_guest_stack(n + 3)

\* The generator expands STACK(n) itself, so that dispatcher.c's macro of that
\* name is never used.
STACK(n) == read_guest_stack(n)

StackNames == <<"STACK1", "STACK2", "STACK3", "STACK4", "STACK5", "STACK6", "STACK7">>
ArgNames == <<"arg1", "arg2", "arg3", "arg4">>

\* An argument, an inline stack read, or a local read from the stack.
SourceValue(e, src) ==
    IF src \in ToSet(ArgNames) THEN __ARG(CHOOSE n \in DOMAIN ArgNames : ArgNames[n] = src)
    ELSE IF src \in ToSet(StackNames) THEN STACK(CHOOSE n \in DOMAIN StackNames : StackNames[n] = src)
    ELSE STACK((CHOOSE x \in ToSet(e.stack) : x[1] = src)[2])

GuestWord(w, a) == IF a \in DOMAIN w THEN w[a] ELSE 0

read_guest_ptr(p) == IF p = 0 THEN <<0, 0>> ELSE <<GuestWord(words, p), GuestWord(words, p + 4)>>

\* dispatch_ptr_inout for the pointers written back, then read_guest_ptr for
\* those only checked: the first that is bad ends the call.
PointersAccepted(e) ==
    \A src \in ToSet(e.ro) \cup {w[1] : w \in ToSet(e.wb \o e.wb32)} :
        LET p == SourceValue(e, src) IN p = 0 \/ syscall_safe_guest_ptr_is_valid(p)

\* What the handler is given, a pointer to a local standing for its value.
HandlerSees(e) ==
    [i \in DOMAIN e.call |->
        LET w == {x \in ToSet(e.wb \o e.wb32) : x[2] = e.call[i]}
        IN IF w = {} THEN SourceValue(e, e.call[i])
           ELSE read_guest_ptr(SourceValue(e, (CHOOSE x \in w : TRUE)[1]))]

\* Eight bytes on both architectures, four for wb32.
WriteBack(e, w, value) ==
    LET p == SourceValue(e, w[1])
    IN IF p = 0 THEN << >>
       ELSE IF w \in ToSet(e.wb32) THEN p :> value[1]
       ELSE (p :> value[1]) @@ (p + 4 :> value[2])

\* A value that a handler leaves in a local of its caller.
HandlerValue == IF Is64 THEN <<77, 78>> ELSE <<77, 0>>

WriteBackAll(e, chosen) ==
    FoldLeft(LAMBDA acc, w : WriteBack(e, w, IF w \in chosen THEN HandlerValue
                                             ELSE read_guest_ptr(SourceValue(e, w[1]))) @@ acc,
             words, e.wb \o e.wb32)

\* The C code has run: its result is stored, its scratch registers are junk.
Dispatched(result) ==
    /\ guest_regs' = [guest_regs EXCEPT !.result = result]
    /\ cpu' = Update(cpu, [r \in SysvClobbered |-> IF r = ResultRegister THEN result ELSE Junk])
    /\ dpc' = "restore"

\* dispatcher_core: no such case, a bad pointer, or the handler
c_dispatch_syscall ==
    /\ dpc = "c"
    /\ LET entry == EntryOf(cpu[NumberRegister])
           e == Def[CHOOSE name \in entry : TRUE]
       IN IF entry = {} \/ ~PointersAccepted(e)
          THEN /\ Dispatched(IF entry = {} THEN STATUS_NOT_IMPLEMENTED ELSE STATUS_ACCESS_VIOLATION)
               /\ UNCHANGED <<words, cur>>
          ELSE \E result \in Results, chosen \in SUBSET ToSet(e.wb \o e.wb32) :
                  /\ Dispatched(result)
                  /\ words' = WriteBackAll(e, chosen)
                  /\ cur' = [cur EXCEPT !.entered = TRUE, !.seen = HandlerSees(e), !.wrote = {w[1] : w \in chosen}]
    /\ UNCHANGED <<arch, thunk_blob, thunk_array, stk, calls>>

\* NtTerminateProcess of this process: exit_group, from inside the handler
HandlerExits ==
    /\ dpc = "c" /\ EntryOf(cpu[NumberRegister]) = {"NtTerminateProcess"}
    /\ dpc' = "exited"
    /\ UNCHANGED <<arch, thunk_blob, thunk_array, cpu, stk, words, guest_regs, cur, calls>>

\* The saved stack pointer is reloaded; on i386 the flags are popped before
\* both return to the thunk.
StackRestored ==
    LET s == SubSeq(stk, 1, guest_regs.sp) IN Popped(IF Is64 THEN s ELSE Popped(s))

\* Switch back, restore and return to the thunk.
RestoreGuest ==
    /\ dpc = "restore" /\ dpc' = "return"
    /\ cpu' = [Update(cpu, guest_regs.regs) EXCEPT ![ResultRegister] = guest_regs.result]
    /\ stk' = StackRestored
    /\ UNCHANGED <<arch, thunk_blob, thunk_array, words, guest_regs, cur, calls>>

\* The thunk pops what it takes for the saved register and returns to the guest.
ReturnToGuest ==
    /\ dpc = "return" /\ dpc' = "check"
    /\ cpu' = [cpu EXCEPT ![ThunkPops] = Top]
    /\ stk' = Popped(Popped(stk))
    /\ cur' = [cur EXCEPT !.status = cpu[ResultRegister]]
    /\ UNCHANGED <<arch, thunk_blob, thunk_array, words, guest_regs, calls>>

\* The guest drops its arguments and goes on.
Continue ==
    /\ dpc = "check" /\ dpc' = "guest"
    /\ stk' = << >> /\ cur' = NoCall
    /\ UNCHANGED <<arch, thunk_blob, thunk_array, cpu, words, guest_regs, calls>>

-----------------------------------------------------------------------------

DispInit ==
    /\ arch \in Archs
    /\ thunk_blob = "none" /\ thunk_array = << >>
    /\ dpc = "guest" /\ stk = << >> /\ cur = NoCall /\ calls = 0
    /\ \E p \in Pointers :
          cpu = [r \in Registers |-> IF r \in {"r15", "ebp"} THEN p
                                    ELSE 600 + CHOOSE i \in DOMAIN RegisterList : RegisterList[i] = r]
    /\ words = (8 :> 1) @@ (12 :> 2) @@ (16 :> 3)
    /\ guest_regs = [regs |-> << >>, sp |-> 0, ret |-> 0, result |-> 0]

DispNext ==
    \/ generate_all_thunks \/ cleanup_thunk_pages
    \/ \E name \in Syscalls : \E args \in Arguments(Def[name]) : CallThunk(name, args)
    \/ RunThunk \/ __wine_dispatcher \/ c_dispatch_syscall \/ HandlerExits
    \/ RestoreGuest \/ ReturnToGuest \/ Continue

-----------------------------------------------------------------------------
Called == Def[cur.name]

\* The handler of the call the guest made gets the guest's first four
\* arguments, a pointer's as what it pointed to, on both architectures: from
\* the saved registers, or from the stack past the flags, the thunk's frame
\* and the return address.
FirstFourArguments ==
    cur.entered =>
        \A i \in DOMAIN cur.seen \cap 1 .. 4 :
            LET w == {x \in ToSet(Called.wb \o Called.wb32) : x[2] = Called.call[i]}
                p == cur.given[i]
            IN cur.seen[i] = IF w = {} THEN p
                             ELSE IF p = 0 THEN <<0, 0>> ELSE <<GuestWord(cur.words, p), GuestWord(cur.words, p + 4)>>

\* A system call ends where it began: back in the guest with the stack as at
\* the call and the callee-saved registers intact - rdi apart, which the 64-bit
\* thunk reloads from r15's slot - and the result register set.
GuestResumes ==
    dpc = "check" =>
        /\ Len(stk) = cur.depth - 1
        /\ \A r \in CalleeSaved \ {"rdi"} : cpu[r] = cur.before[r]
        /\ cur.status \in Results \cup {STATUS_ACCESS_VIOLATION}

RegisterPointers == {i \in PointerPositions(Called) : i <= 4}
Misaligned(p) == p # 0 /\ (p % WordSize # 0 \/ p > GuestLimit)

\* A pointer that is misaligned for the architecture is refused: the handler is
\* not entered, the guest's memory is untouched and the status says so.
BadPointersRefused ==
    (cur # NoCall /\ \E i \in RegisterPointers : Misaligned(cur.given[i])) =>
        /\ ~cur.entered /\ words = cur.words
        /\ dpc = "check" => cur.status = STATUS_ACCESS_VIOLATION

\* When all of a call's pointers are in its first four arguments, memory changes
\* only where they point to, by the width of a pointer (of 32 bits for a wb32), and
\* what the handler left there is what the guest finds.  One word more may change on
\* i386: the generated code writes 64 bits there too, and not with writeback_ptr,
\* whose width is the native one, so that the word after a 32-bit result is cleared.
WritesWhereAsked ==
    (cur.entered /\ RegisterPointers = PointerPositions(Called) /\ Called.stack = << >>) =>
        LET at(w) == cur.given[CHOOSE i \in DOMAIN Called.call : Called.call[i] = w[2]]
            wide(w) == at(w) # 0 /\ w \in ToSet(Called.wb)
            asked(w) == (IF at(w) = 0 THEN {} ELSE {at(w)}) \cup (IF wide(w) /\ Is64 THEN {at(w) + 4} ELSE {})
            outs == ToSet(Called.wb \o Called.wb32)
        IN /\ \A a \in DOMAIN words : GuestWord(words, a) # GuestWord(cur.words, a) =>
                 \E w \in outs : \/ a \in asked(w)
                                 \/ ~Is64 /\ wide(w) /\ a = at(w) + 4 /\ w[1] \in cur.wrote
           /\ \A w \in outs : (w[1] \in cur.wrote /\ Cardinality(outs) = 1 /\ at(w) # 0)
                                 => words[at(w)] = HandlerValue[1]

\* What thunk_gen.c and docs/architecture/syscall.md say of rdi: the thunk saves it
\* and restores it, so that a system call leaves every callee-saved register as it was.
CalleeSavedKept == dpc = "check" => \A r \in CalleeSaved : cpu[r] = cur.before[r]

\* What docs/architecture/syscall.md says of arguments five and up: STACK(n)
\* reads them, on x86 with the offset of the thunk's frame added.
StackArguments ==
    cur.entered =>
        \A i \in DOMAIN cur.seen : (i > 4 /\ i \notin PointerPositions(Called)) => cur.seen[i] = cur.given[i]

\* A system call is a call: arguments arrive, bad pointers are refused, results
\* land where they were asked for, and the guest resumes as it was, but for rdi and
\* for the word after a result on i386.
CallRoundTrip == FirstFourArguments /\ BadPointersRefused /\ WritesWhereAsked /\ GuestResumes
=============================================================================
