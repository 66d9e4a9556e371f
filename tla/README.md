# Verification of the Virtual Processing Unit

The Virtual Processing Unit (VPU) runs programs of a small instruction set. A
program is written in SVASM or VASM, or assembled to a VEXE file; it becomes one
*process* with registers and a memory of its own, and an engine steps all
processes of a shell in one thread, round by round. This directory holds TLA+
models of the parts that carry the program's own logic, the TLC runs that check
them, and the theorems TLAPS proves about them.

    tlc -config MCVpuMemory_frame.cfg MCVpuMemory     one run
    tlapm VpuMemoryProofs.tla                         one module of proofs

`PROJECT.json` lists components, runs, the source lines each definition stands
for, the hazards of the code and the properties that cover them.

## Inventory

**Virtual memory and stack** (`Memory/`). State: one block of
`sdzsize + _memlen` bytes; the static data zone (SDZ) at its start with its top
`sdztop`; the registers RBP, RSP and the hidden RSEND, RSBGN. Operations:
`_SDZS` and `_SDZRSZ` while a script is built, `_MRSZ` for `[MRES]` and VEXE
headers, `push`, `pop`, `_MS`, `_MG` and the instructions on top of them.
Hard: RSP and RBP are ordinary registers a program may set to anything; all
comparisons are on wrapping `size_t`; the operands of instructions themselves
live in the SDZ and are re-read at each execution, while the block is
reallocated under them; the stack is placed before or after the block grows,
depending on the loader. Correct when: no access leaves the block, stack
instructions stay in the stack, static data keep their bytes, and the stack is a
last-in first-out store.

**Process and engine** (`Actions/v_engine`, `threading`, `process_symbols`,
`actions_symbols.h`). State: the vector of processes, the loop index, per process
the step counter, caller address, compare result and stop flag, and one
`calling_tree` for all. Operations: `engine::start` with threading on (a step
each per round) or off (one process to its end, then the next), `execute1`, the
jumps, compares, calls and `hlt`. Hard: ended processes are erased from the
vector while it is walked; one vector serves the nested calls of all processes;
step counters wrap. Correct when: no process is lost, starved or run twice in a
round; `start` returns when and only when all have ended; calls return to their
callers; a jump consumes its own compare.

**Interactive shell** (`VPU_main.cpp`). State: status 0, 1, 2 and the parallel
vectors of scripts, registers, memories, engines and processes. Operations: load,
build, start, exit, and the single-script mode. Hard: return codes double as
statuses (an unknown command after build returns the code of exit), `clearMemory`
walks vectors of different lengths, and five vectors that agree by position only
are filled by different commands. Correct when: `start` runs every loaded script
once on the memory allocated for it, an exit frees everything, and no sequence of
commands crashes a program that has built something.

**Networking** (`Networking/`). State per stream: two headers shared by the
thread of the VM, a network loop thread and a receive thread (a one-slot message
code, a transfer pointer, five flags, five mutexes), the queue of received
datagrams, the endpoints. Operations: open, close, get, send, has-received,
create and select endpoint; the loop's dispatch; receiving. Hard: requests are
overwritten, answers are awaited for a fixed time, buffers are freed under a late
loop, the receive thread is detached. Correct when: a request is served once
with its own buffer, datagrams are handed over once and in order, `net_send`
returns, and no thread outlives what it refers to.

**VASM compiler** (`Compiler/`). State: variables, tags and include tables, some
of them static for the whole program. Operations: reading a script and its
includes, laying out constants in the SDZ, resolving tags, converting operands.
Hard: instructions and tags are laid out by two separate walks of the include
files; statics survive from one script to the next. Correct when: every
instruction of every file is there once and in order, an operand is the value its
symbol was declared with, and a jump to a tag reaches the instruction after it.

**VAS assembler and VEXE runner** (`VirtualAssembler/`,
`VirtualExecutableRunner/`, `utility.h`). A length-prefixed code with leading
zeros removed. Correct when: decoding gives back the operand, and a VEXE program
runs like the script it came from.

**SVASM assembler** (`SVASM/Assembler/`). State: the actions emitted so far, the
label table, the safe or unsafe mode. Tokenizer, parser, selection of VASM
instructions, labels turned into action numbers, `call` expanded to
`svcall; call; rscall`. Hard: one instruction becomes up to a dozen that borrow
registers, stack and memory of the program. Correct when: the emitted program
does what its source says, and labels survive the expansion.

**Registers, integer and binary instructions** (`Registers/`). Partial registers
alias their full register; arithmetic wraps at the width of the destination;
two-operand logic takes its left operand from the stack.

**Interrupts** dispatch to display and conversion helpers that take the top of the
stack and change a few bytes of memory at most.
**Files, console wrapper, debug helpers** keep no state of their own beyond the
process (or none at all) and are not modelled.

How they interact: the shell allocates registers, memory, engine and process for
each script; the process constructor places the stack; the compiler (or the VEXE
decoder) fills the SDZ and the list of actions; the engine executes actions,
which read their operands from the SDZ through `_MG`, use the stack through `push`
and `pop`, and reach the network through the memory's `netman`.

## Modules

| Module | Models |
| --- | --- |
| `VpuMemory` | class `memory`, the memory instructions, the two loaders as far as they shape the memory |
| `BoundedStack` | abstract: the stack a disciplined program relies on |
| `VpuEngine` | `engine::start`, one step of a process, every instruction that moves the step counter |
| `CallStacks` | abstract: the private stack of saved callers that svcall and rscall promise |
| `NetStream` | one network stream: the VM's network instructions, the network loop, the receive thread |
| `DatagramQueue` | abstract: datagrams are handed over once and in order |
| `VpuShell` | the commands of `VPU_main.cpp` and the vectors they fill and free |
| `VasmLinker` | `src/Compiler`: one script and its includes become a list of actions |
| `VasmBuild` | the composition: `VpuShell`'s build step runs `VasmLinker` on a file system |
| `RegisterFile` | the registers and their parts |
| `VasmMachine` | a process: every instruction on registers, stack, memory and devices |
| `SvasmCompiler` | the VASM instructions chosen for each SVASM instruction |
| `VexeFormat` | the bytes of a VEXE file: both assemblers and the decoder |
| `SvasmSource` | abstract: what an SVASM program means, line by line |
| `SvasmExec` | the composition: compile, resolve labels, write, decode and execute a program |
| `VpuMemoryProofs`, `VpuEngineProofs`, `CallStacksProofs`, `VasmBuildProofs`, `NetStreamProofs`, `VasmMachineProofs`, `VexeFormatProofs`, `SvasmExecProofs` | the theorems |
| `MCVpuMemory`, `MCVpuEngine`, `MCNetStream`, `MCVasmBuild`, `MCSvasmExec` | values for TLC |

`SvasmExec` extends `VexeFormat` and `VasmMachine`; `VexeFormat` extends
`SvasmCompiler` for the actions it encodes; all of them share the registers of
`RegisterFile`. `VasmBuild` extends `VpuShell` and `VasmLinker`. `VpuEngine` runs
the shape of the calls `SvasmCompiler` emits, and `VpuMemory` checks for any RSP
and RBP the accesses `VasmMachine` performs for valid ones.

### VpuMemory

`mem` is `_memory`; `memlen`, `sdzsize`, `sdztop` are the fields of the same
names; `stage` and `loader` say whether the script is being built by the shell
("vasm": the stack was placed by the constructor before the script is built) or
decoded from a VEXE file ("vexe": placed after decoding, before the resize).
`SDZS`, `MRES`, `StartScript` and `executeFile` build; then `pushMem`,
`PushCopied` (`pushMemCR`, `pushMemFPR`), `PopInstr`, `movsm`, `movgm`, `StoreInstr`,
`WriteRBP` and `WriteRSP` run any program. `isvalidpush` and `isvalidpop` are the checks of the code on wrapping
values (`SizeT`), `PushAddrs`, `PopAddrs` and `AccessAddrs` the addresses their
loops visit. What the code leaves uninitialised is any value: the end of a block
grown by `_SDZRSZ`, and the buffer of a pop that failed.

Bytes change their order several times on the way through the stack, and the model
does each change: `push` reverses the operand (`swap_endian`) and lays it down from RSP
downwards, `pop` fills its buffer from the end (`Taken`) and reverses it (`Popped`);
`pushMem` forbids the first swap and writes the most significant byte first itself. So
an operand lies at RSP + 1 in the host's order, and comes back in it. The host is
little-endian: on another, `swap_endian` does nothing while `pushMem` and `popMem` still
take values apart and put them together, and that case is not modelled. The history variable
`statics` remembers constants the program has not stored over itself. Bytes are
abstract values; registers other than the four above, and the conversion of a
register to bytes, are left out. The mutants (`...NoBase`, `...NoEnd`, ...) are
used by no action: each stands for a plausible bug that its property refuses.

### VpuEngine

`processes` is the vector, `i` the loop index. `ThreadedTurn` is one body of the
`for` (a step, or the erasure of a process that has ended followed by
`continue`), `RoundEnd` the test of the `while`. `SequentialStep` and
`SequentialEnd` are the branch without threading. `execute` dispatches on the
operation; instructions without effect on control are the one operation `other`,
and a compare finds any outcome on the stack. `exec_level` is never assigned in
the code, so its tests are always passed and left out. `calling_tree` entries
carry their owner, which the code does not store: no guard reads it, only the
refinement mapping to `CallStacks`. `ran`, `missed`, `undecided` and `callers`
are history.

### NetStream

Three threads share `running_hdr`, which is the record `hdr`. `vm.at` is `idle`,
between the write of `transferBuffer` and the mutex (`post`), asleep or polling (`wait`), or
in `net_stream::destroy` (`join`, `linger`). The network loop is at `start`, asleep, holding `recv_mtx` (`serve`),
leaving (`ending`, `teardown`) or `off`. `rcv` is the receive thread. The critical
sections of the other mutexes hold one access each and are one step. `Serve` joins the
release of `recv_mtx` with the test of `stopRequested`: only a VM between two
requests sets that flag, so the other order only costs the loop one more sleep.

A request names its buffer by its number: `hdr.transferBuffer = vm.request` says that
the pointer is the one of the pending instruction. Time passes in units of 50 ms
(`Tick`), and only when every thread sleeps or waits; a sleep lasts what it asks
for and up to `Jitter` units more. Where a thread uses memory that was freed,
deleted, is being changed under it or was lent for another request, `stray` records
which, and the model stops there: C++ promises nothing after it. (The one exception is the request
of a `net_crtep` that has returned, served on the buffer a second one has lent and
not yet posted: that endpoint would be added twice.)
`EndpointDone` is the end of `net_crtep`: it puts back the pointer it found, which may be
one a finished `net_get` left, whether or not its request was served;
`hist.unserved` remembers that it was not. `treatRcvMsg` reads the first datagram of
`receivedBytes`; a datagram without bytes is 0 and ends the receive thread. The
socket is outside: `Arrive` puts datagrams in its buffer while it is bound, or
while a `recv` called before it was closed still waits. `hist` is history.

### VpuShell, VasmLinker and VasmBuild

`scripts`, `registers`, `memory_table`, `processes_mem`, `a_engines` and
`processes` are the vectors of `VPU_main.cpp`; an element says whether it is still
allocated, an engine which memory it was constructed with, a process which
scripts were built into it. `status` is the variable of the prompt; `phase` says
what `main` is doing: at the prompt, in the loop of build (`turn` is its index),
running, or how it ended (`exit` after `clearMemory`, `left` by an unknown
command, `refused` by `std::exit`, `usage`, `crashed` where the code reads
`processes[i]` of a shorter vector). Commands the status refuses print and
change nothing. `UnknownCommand` is the line that returns `status` as if it were
a result.

`VasmLinker` is pure: `build_process(fs, f, st)` is the function of that name over
a file system `fs`, with the file-scope variables of `action_parser.cpp` as a
record `st` that one build hands to the next. A file is a sequence of lines of
the kinds the parsers tell apart; the contents of a line are values, not text.
`parseCodeLines` calls itself for the files it includes; here its calls are the steps
of their stack. `Enter` is a call up to its loop over `toInclude`, `pending` holds,
innermost call first, what each open call still has to include, and `IncludeNext` is
one turn of the innermost loop. A file is taken up once and returned from once for
each line that includes, which bounds the turns (`IncludeLines`).
`VasmBuild` runs it in the step `BuildScript` (or `BuildRefused`) of `VpuShell` and keeps the
actions and the requests made of `_MRSZ` in `images`. Its properties read the files
without the compiler: which files a script reaches, where the instructions of a
file stand in the image, how many of them precede a tag.

They hold under named conditions, each of which the code needs:

* `Fresh`: no header of the script was reached by an earlier script of the
  shell; such a header is skipped (`included_headers`) and its instructions are
  missing.
* `Orderly`: the script does not start with a tag (a tag before every
  instruction ends the numbering of all later ones); for a header's tags, no
  header includes another, none is named twice and no earlier script
  included any (headers are laid out depth first but numbered in the order of
  `global_include_list`, which is never cleared).
* a memory is resized once unless an earlier script asked (`is_mem_resized`).

`CompleteWhenFresh` needs only the first: includes may repeat, cross, come back to
the script or name a file that does not exist.

### SvasmCompiler, VexeFormat, VasmMachine and SvasmExec

`SvasmCompiler!preprocInst` gives the actions for the tokens of one line, with the
registers each expansion borrows; a refusal (`assert_err...`) is the action
`refused`. `VexeFormat` turns actions into the bytes of a file (`compileAll`, and
`as` for the VAS assembler), and back (`decodeByteArray`), with the operand codec
`COMPBA` and `EXTDBA`. `VasmMachine!execute1` runs one action on a machine: the
register file, the stack, the memory with the operands at its front, the compare
result, the calls and the sequence of requests made of devices. A byte has
`ByteBits` bits, so that a register of 8 bytes has few values; a stack operand
keeps its bytes. `ok` becomes false where the code's behaviour is undefined, and
the run stops there: a division by zero, a move between floating-point registers of two
formats, a castreg to a register that holds no whole number, an interrupt without a
handler, a text of no bytes. `Machine` is the type of all of it. A floating-point register holds a small number, rounded to
the size of the register.

`SvasmExec` takes a program from its tokens to its end: `DefineLabel`,
`SafetyControl`, `PreprocInst`, `ResolveLabels` (`preprocTokenized`), `CompileAction`
and `Link` (`compileAll`, `main`), `DecodeAction` and `StartProcess`
(`runner_main.cpp`), `ExecuteStep`. `snap` is the machine at the last boundary
between two source lines, and the refinement mapping of `ImplementsSource` reads
only that: inside a line the borrowed registers may differ. `SvasmSource` gives
each instruction its meaning with no scratch registers and no action numbers;
below `DataBase` memory is the assembler's. A line in unsafe mode may change
registers it does not name (`SameBut`).

Kept out of `svasm_translation`, because the emitted code does not do what the
source says, or refuses what it means to accept:

* a number combined into `ax` or `eax` (maths, logic, pow, compare and loads):
  `svasm_scratch` shows the first;
* `cmp` of a register with a number, and of CR with a register, which push in the
  order opposite to `cmp` of two registers; `cmp` of a floating-point register
  with a number, which pushes RAX a second time where it should pop it;
* `CRToNum`, which puts CR at the last of eight bytes read little-endian, over the
  operands of the first instructions: `svasm_operands`;
* `jne`, which the dispatch of `preprocInst` does not know;
* in safe mode, `push` of a number or a double and `push`/`pop` of a sized memory
  operand, which move RSP with an operand the instruction set refuses, and `pow` with
  a double, which names the register `rpfr3`;
* `pop` with a size to a memory operand held in a register, which stores eight
  bytes; `pow` of a floating-point register, which also uses itself;
* whatever goes through interrupts 10 and 11, for which the machine has no handler:
  `str` of a floating-point register, `cmp` between a whole-number register and a
  floating-point value, `pow` of a whole-number register with one;
* `#resmem`, which is read and not used.

`sti`, `cli`, `gca` and `hlt` have no SVASM instruction, so the interrupt flag stays
set and `pass` does not test it here.

## Runs

| Run | Shows | Bounds |
| --- | --- | --- |
| `memory_frame` | under any program, whatever it puts in RSP, RBP and addresses: no access leaves the block (`InBounds`), stack instructions and movgm stay in the stack (`StackConfined`), constants keep their bytes (`StaticIntact`), the stack lies between statics and end (`StackPlaced`) | 4-bit `size_t`, memory of 4 or 5 bytes plus zones of 2, stack of 3, operands of 1 and 2 bytes, 3 bytes of statics |
| `memory_stack` | the stack of a program that leaves RSP and RBP alone implements `BoundedStack` | operands told apart by bytes and order |
| `memory_long_static` | violation: a constant longer than a frame overruns the zone and is partly zeroed | constants of 1 and 5 bytes, frame of 2 |
| `engine_schedule` | no process is lost, doubled or starved; ended ones leave; start returns; compares are spent once | 3 processes, 7 programs, with and without threading |
| `engine_calls` | `calling_tree` implements private stacks, and calls return to callers, while one process of a round saves calls or threading is off | 3 processes, calls nested twice, repeated |
| `engine_shared_tree` | violation: two processes that save calls restore each other's | 2 processes |
| `net_requests` | a fetch is answered before it reads (`ServedInTime`) in order and once (`Handover`), the loop uses the buffer of the request it serves while its instruction waits, except for a `net_crtep` that has returned (`OwnBuffers`), `net_hrecv` announces nothing that is not there (`PolledGetFinds`), `net_send` returns (`SendReturns`) after exactly one sendto (`SentBeforeReturn`), the headers outlive the sleep of the receive thread (`ReceiverLeavesFirst`) | 3 opens or requests, 2 datagrams, sleeps up to 50 ms late |
| `svasm_translation` | a compiled program implements its source (`ImplementsSource`), is decoded to the actions that were emitted (`RoundTrip`), leaves its operands alone (`OperandsIntact`) and ends or is refused (`Finishes`) | 237 programs of one instruction in every sound form, or of up to nine lines with jumps, nested calls, loops, stack and memory; two initial machines; bytes of one bit |
| `svasm_scratch` | violation: `add eax, 3` leaves EAX as it was | one program |
| `svasm_operands` | violation: comparing CR in a loop overwrites an operand | one program |
| `shell_build` | `start` runs what was loaded (`RunsWhatWasLoaded`), `exit` frees it (`ExitFreesAll`), nothing crashes once something is built (`BuiltNeverCrashes`); a script has all lines of its files (`CompleteWhenFresh`), its symbols and tags are what the files say (`OperandsPointRight`), its memory is resized once (`ResizedOnce`) | 2 scripts loaded up to twice, 3 headers, 2160 file systems |
| `net_endpoint` | violation: `net_crtep` returns before its endpoint exists | no lateness, no datagram |

Why the bounds are enough. The memory runs reach two growths of the static zone,
a resize in either order, all four checks of `isvalidpush` and `isvalidpop` passing
and failing, and wrapping in both directions, since `RegValues` holds the largest
`size_t`. Addresses only matter by their order relative to the four limits. The
engine runs hold every order of three erasures, an erasure at the first, middle
and last index, empty programs, and programs that never end beside ones that do.
Three opens or requests reach a stream that is opened, reopened and used, and
two requests in a row on one stream; two datagrams reach a queue of two, and one
arriving during a fetch, a close or after it. `Jitter = 1` is what the waits of the
code bear: with sleeps 100 ms late the loop (up to 200 ms) may miss the 200 ms of
`net_get`, so `ServedInTime` and `OwnBuffers` rest on that bound.
The 2160 file systems of `shell_build` hold a header included twice, in either
order, through a diamond and a cycle, one that includes the script, one that does
not exist, a leading tag and a script the compiler refuses; two scripts are enough
for the statics of one to reach the other. In `svasm_translation` a byte has one
bit: what depends on width (a part of a register, a carry into the next byte, an
operand without its leading zeros) then happens with registers of 8 bits, and 0, 1
and 255 are its boundaries. `Garbage` holds two values for what lies behind a
narrow buffer. The programs are chosen by form: every destination whose
expansion differs (RAX and its parts, another register, the floating-point scratch
register) with every kind of operand.

`Modulus` is the scaled 2^64: large enough for every program, small enough that
backward jumps wrap, as they do in the code.

`Threadings` holds both values `setThreading` gets (the shell and the
single-script mode). The sharing of `calling_tree` is stated by
`SoleCallerSpec`: it is the assumption under which the promise of the comment
holds, and `engine_shared_tree` shows it is needed.

### Fairness

`FairSpec` adds `WF_vars(Next)`: the one thread that runs `engine::start` keeps
running. Nothing is assumed about which process gets its turn; that is decided by
the loop itself. All instructions modelled return; `net_send` and console input
may block in the code and are not part of this module.

`NetStream!FairSpec` gives each of the three threads weak fairness for the steps
that are not a choice of the program or the network, and weak fairness to `Tick`:
the operating system runs threads that can run, and sleeps end. The program
need not execute another instruction, no datagram need arrive, and `recv` need
not fail.

`SvasmExec!Spec` is `WF_vars(Next)`: assembler, runner and process are one thread
that waits for nothing; `Finishes` is claimed for programs without endless loops,
and the run has no other. `VasmBuild` needs no fairness: a user may stop typing.

## Proofs

`VpuMemoryProofs` proves, for any sizes, widths, operands and register values
that satisfy `SizesAssumption` and `DataAssumption` (no size sums to 2^64):

* `TypeCorrect`, `MemorySafe` (`InBounds`) and `StackWritesConfined`
  (`StackConfined`). `TypeOK` is not inductive, and does not give `InBounds`:
  that needs `Layout`, which says that the memory and the static zone never get
  smaller than they started, that the zone never outgrows the statics by more
  than a frame (so no sum of sizes wraps), and that RSBGN lies in the block.
  `InBounds` then follows by arithmetic on the wrapping sums, one lemma per
  check.
* `StaticDataIntact` and `StackAboveStatics`, from two further assumptions that
  the code does not enforce: `ShortData` (no constant exceeds a frame) and
  `StaticFits` (the statics end below the stack). The inductive strengthening is
  `Apart`: recorded statics lie below `sdztop`, `sdztop` lies within the zone and
  below the stack. `memory_long_static` shows that the first is needed.

`VpuEngineProofs` proves, for any number of processes, any programs and any
width, `EngineTypeCorrect`, `NobodyLost` (`NoneLost`), `FairTurns`
(`FewMissedTurns`), `OneTurn` (`OneTurnARound`) and `ComparesSpentOnce`
(`SpentOnce`). The invariant is `EngineInv`: `TypeOK`; `Distinct`, no process
stands twice in the vector; `Round`, the vector holds who has not terminated, those
at or behind the index have not run in this round, and whoever stands before it
without having run got there by an erasure of this round; and `Ending`, a
terminated process asked to stop or is past its program. An erasure moves one live
process from behind the index to before it, which is why a missed turn can be
charged to a process that ended in the same round.

`CallStacksProofs` proves that `VpuEngine` implements `CallStacks`, for any number
of processes and any programs of which one saves calls: `CallsStayPrivate`
(`SoleCaller /\ Spec => PrivateStacks`). The invariant `AloneInv` adds to `TypeOK`
that whoever owns an entry of the vector runs a program that saves calls. So the
part of that process is the whole vector, in order, and the part of anybody else
is empty (`SavedByOwner`, `OnlyOwner`); `StepMoves` shows that a step appends one
entry, drops the last or leaves the vector alone, and `StepImplements` maps it to a
call, a save or a restore of one private stack, or to a stutter. Without
`SoleCaller` the theorem is false: that is what `engine_shared_tree` shows.

`VasmBuildProofs` has two parts. The first is about the shell: for any scripts and any
number of loads, `TypeCorrect`, `RunsLoaded` (`RunsWhatWasLoaded`), `NothingLeft`
(`ExitFreesAll`) and `NoCrashOnceBuilt` (`BuiltNeverCrashes`). None of them is
inductive: what a run finds depends on all the commands before it. The invariant
`IInv` adds `Parallel` (the vectors that load fills have one length, and those that
build fills), `Progress` (how many scripts are built in each phase and status),
`AllLive` (nothing is deleted before the end), `Matched` (the k-th process holds the
k-th script once, and the k-th memory) and `Started`. Building is abstract there: the
theorems hold for whatever the compiler makes of a script, refusals included.

The second part is about the linker in the shell's build step, for any file systems
of finitely many files, each a finite sequence of lines (`FileSystemsAssumption`):

* `BuildRunsShell`: `BuildSpec => Spec`. Each step of the composition is a step of
  `VpuShell` or a stutter, so the first part holds of it.
* `LinksComplete` (`CompleteWhenFresh`) and `ResizesOnce` (`ResizedOnce`). The files may
  include each other in any way, themselves too, and may be missing; nothing bounds
  their number, their length or the number of scripts.

The argument has three levels. A line does to an accumulator what `ReadOne` says
(`LineStep`), and so a file, by induction over its lines (`FileRead`): its
instructions follow those read before in one piece, it asks for a resize if none was
made, and the files it puts on its list were no headers when their line was read.

A turn of the loops over `toInclude` keeps `Linked` (`IncludeStep`): for the set `P`
of the files read so far, the parsed instructions are those of `P`, each file once
(`CodeRead`), a resize was requested if a file of `P` asks for one (`Resizes`), and
`PendingRight`: `P` is what the headers gained, whatever a file in `P` includes is a
header by now or waits, and a waiting file that was read after its line is marked as
included or its call is still open. That last part is why no file is laid out twice,
although `included_headers` is looked at when a line is read and `global_toInclude`
when its turn comes. Each turn makes `Left` smaller: the pending files, the including
lines of files not yet read and the names not yet read, at most twice the including
lines to begin with. So nothing is pending at the end (`Linking`), `P` is closed under
include but for headers of earlier builds, and since all of it can be reached it is
`Reached`, the least such set (`ReachedLeast`), if the script shares no header with them.

From one build to the next, `BuildIInv` adds to `IInv` that the statics hold headers
only of scripts built before, and a resize only if one of those asked
(`StaticsRight`), and that each process has its image (`ImagesRight`). This is what
makes `Fresh` enough.

`VpuMemoryProofs` also proves that `VpuMemory` implements `BoundedStack` for a program that
leaves RSP and RBP to the stack instructions and stores outside of the stack
(`StackKeepsPromise`: `DisciplinedSpec => StackPromise`), for any sizes, operands
and either loader. The invariant is `TypeOK`, `Layout` and `Framed`: once a loader
has placed the stack RBP and RSEND stand a `StackSize` apart, RSP lies between them,
and nothing is on it before the program runs. The content lemmas say what a write
into the block makes of the bytes between RSP and RBP; every step is then a push, a
pop, a pop of fewer bytes than were asked for, or a stutter. An operand comes back
byte for byte because the swap of `push` (or the order `pushMem` builds) undoes the
descent from RSP, and the swap of `pop` the filling of its buffer from the end
(`PayloadPushed`, `SwapFacts`, `PopType`).

`CallStacksProofs` proves two more theorems, for any number of processes, either
scheduling, calls nested to any depth and any programs: `CallsReturn`
(`ReturnsToCaller`) and `CallersStayPrivate` (`PrivateStacks`, for any number of
callers that run one after the other too, where `CallsStayPrivate` has one). Their
hypotheses:

* `SoleCallerSpec`: in a threaded run at most one process saves calls.
* `WellFormed`: a program that saves calls has the shape the SVASM assembler gives
  it: a call is the three actions svcall, call and rscall
  (`SVASM/Assembler/compiler.cpp:1339-1349`), and no label lies inside of one.
* `[]Balanced`: ret is executed inside of a call only, as the words of
  `process_symbols.cpp:176` ask ("should only be used with p_call"), and a program
  without svcall does not nest calls. A ret outside of a call goes to the second
  action of the program, and no code prevents it.

The programs of `engine_calls` satisfy all three. The invariant `CallInv` ties the
three places an address can be in to each other: the newest entries of the vector
are what the process saved at its open calls, each the address of the call before
it (`Saved`); the address register holds the newest (`NestedFrames`); between
svcall and call, and between ret and rscall, one entry more is saved than calls are
open (`Depth`). Processes that run one after the other may leave entries when they
stop within a call, so only the newest entries are spoken of; `NumberedParts` adds
that the entries of each process are ranked without a gap, which makes its part of the
vector a stack.

`NetStreamProofs` proves, for any number of requests and datagrams, any endpoints
and any lateness `Jitter` of the threads, `TypeCorrect` and `SentOnce`
(`SentBeforeReturn`): net_send does poll for its answer. The other requests wait a
fixed time, so the other theorems need `Punctual`: no sleep ends so late that the
wait of net_get ends before that of the loop, or that of destroy before that of
the receive thread, which with the waits of the code scaled to 4 and 2 units allows
a lateness of one unit, the bound of `net_requests`. With two, the loop may still
be asleep when net_get looks. Under it:
`BuffersOwned` (`OwnBuffers`), `AnsweredInTime` (`ServedInTime`), `AnnouncedFound`
(`PolledGetFinds`), `ReceiverGone` (`ReceiverLeavesFirst`) and `HandedOverInOrder`
(`Handover`, the refinement of `DatagramQueue`). The invariant `IInv` has one part per
promise: `Sends` (a posted send has not been sent, and the answer is for who polls it),
`Lent` (the buffer lent last is the request's), `Endpoints` (a
request for an endpoint in the slot is of the `net_crtep` that waits, or of one that has
returned unserved), `Periods` and `Fetches` (a posted
fetch is unanswered and the loop wakes before its wait is over), `Down` (a stream
that is gone has no loop and no queue), `Kept` (for each announced datagram, whether
in an answer of net_hrecv, in `hasReceived`, on its way there in the receive thread
or being fetched, one is in the queue) and `Leaving` (destroy lingers longer than
the receive thread sleeps).

`VexeFormatProofs` proves about the codec, for all opcodes, operands and places:

* `DecodesWhatIsCompiled`: where a file holds the bytes `compileInst` wrote for an
  action, `decodeByteArray` reads that action with its register and operand and goes
  on behind its last byte. This is the step of `RoundTrip`: a VEXE file has no
  marks between actions, so all that follows depends on every length. It rests on
  `OneClass` (no opcode is in two operand classes, and each is in one),
  `Shortened` (a number without its leading zeros is extended to the same eight
  bytes) and `NumberHeld` (it is found by its own first byte).
* `AssemblersAgree`: the VAS assembler writes the bytes of `compileInst` for every
  action, from the operand in its static data zone, when the number of a register
  is one byte (`RegisterIsByte`; an opcode of either assembler has no other). A
  register is converted to a number and back there, which rests on `NumberOfDigits`.
* the lemmas about whole files: `CompiledHolds` (the bytes of a prefix of the
  actions stand at the front of the code), `LinksTheCode` and `FindsTheCode` (header,
  memory size and code length are found where `linkedFile` put them) and
  `AssembledFile`. What the folds over a program compute is proved by unfolding them
  one action at a time (`FlattenMore`).

`VasmMachineProofs` proves, for any width of a byte and any size of the memory:

* `NumberOfDigits`: the digits of a number, for any count of at most 16 bytes that can
  hold it, make that number again. The folds `Power` and `Number` are unfolded by
  `PowerFacts` and `FromTheRight`; the induction runs over the set of the numbers for
  which the claim holds (`SetInduction`), because the library's induction theorems take
  an operator.
* `InstructionsKeepMachine`: each instruction leaves a `Machine`, whatever registers,
  stack and memory hold and whatever register its operand names, and it leaves the
  memory as it was, but for the four that store (`Stores`), which leave what lies below
  their `Destination`. The one hypothesis is `Fits`: the operand's address and the 16
  bytes behind it, as many as an operand can have, lie in the memory. One lemma per family
  of instructions (`StepSet` to `StepInt`) rests on one per primitive: what
  `WriteReg` makes of the parts of a register, what a push, a pop, `_MS` and `_MG` make
  of bytes, that a logic instruction stays in a word.

`SvasmExecProofs` proves `RoundTripHolds` (`Spec /\ []ShortFile => []RoundTrip`): for
every program and every machine, once the runner has loaded a file its actions are
those the code generator emitted, each with its operand whole in the static data zone,
and the VAS assembler would write the same file for them. The hypotheses:

* `ProgramsAssumption`: a program is a sequence of lines of tokens and a `Machine` to
  start on; the number of a register token is one byte, and so is a character. Nothing
  is assumed of the mnemonics, the number or the kinds of the operands, so refused and
  senseless programs are included.
* `GarbageAssumption`: what lies behind a narrow buffer is some eight bytes.
* `DefaultMemAssumption`: the memory's size is a natural number.
* `ShortFile`: the length of the file fits in the eight bytes it has for it (2^64
  bytes in the code). It is an invariant of the states of `svasm_translation`.

`RoundTrip` speaks of the end only. The invariant `SvasmInv` says how far the two
programs are: while the assembler writes, the file is the code of the actions compiled
so far (`Codes`); while the runner loads, it has read the first `k` actions, for some
`k`, its cursor is behind the last byte of the `k`-th, and each operand stands in the
zone where its action says (`Reads`). That an action compiles at all needs a fact about
the code generator, proved for each handler of `compiler.cpp`: `EmitsInst`, an action
it emits has an operand type the file can tell, an option only where the instruction
has one, and registers of one byte. `ReadsMore` is then the step of the reader,
from `DecodesWhatIsCompiled`, and `AssemblesAgain` the last conjunct, from
`AssemblersAgree`. Labels are resolved in between (`ResolveStep`), which leaves every
action one that compiles.

It also proves two theorems about the machine that executes what was loaded:

* `MachineTypeCorrect` (`TypeOK`), which adds the hypothesis `ZoneFits`: the operands and
  the 16 bytes behind them lie below the length that `_MG` accepts. An operand beyond it is
  not read, and the register it names is what the buffer held. The header of a file asks
  for a megabyte (`compiler.cpp:2019`), so only a program with some hundred thousand operands
  fails it; it is an invariant of the states of `svasm_translation`. `TypeOK` is inductive together with
  `SvasmInv` only: an instruction reads its operand at an address the runner wrote, so
  `Reads` says that each address lies in the zone and that the zone is made of bytes
  (`OperandBytes`). The step is then `InstructionsKeepMachine`.
* `OperandsStay` (`OperandsIntact`), which adds `StoresAbove`: no store of the program
  starts below the end of the zone. That is what the code leaves to its programs, and
  what it breaks itself: `CRToNum` emits a store to an address within the zone
  (`svasm_operands`). `StoresAbove` is an invariant of the states of
  `svasm_translation`. The theorem says that stores are the only danger: the stack
  instructions, the string and register conversions and the interrupts leave the
  operands alone, in any program.

Only model-checked:

* the liveness properties (`EndedLeaves`, `KeepsRunning`, `SendReturns`,
  `Completion`, `Finishes`), which need fairness and ENABLED;
* of the compiled program as it runs, `ImplementsSource`, which would need the effect
  of every expansion as a lemma about sequences of steps, and the values of conversions
  and floating point;
* `OperandsPointRight` of the linker. The place of a file in an image is found by
  comparing instructions, and files that look alike have several, so that the order of
  the layout would have to be part of `CodeRead`; and the numbers of the tags are a
  fold over a second walk of the files.

## Not modelled

See the components in `PROJECT.json`. Text: the tokenizer and parser of SVASM,
the splitting of VASM lines, paths, and the digits of conversions; the models
start from tokens and lines, and every line is well formed: one that makes the code
throw (one without an argument, or a size that is no number) ends the program in a way
no model has. Numerics of floating point and logarithms, which are
library calls. File instructions and the console, whose state is outside the
program. `winnet.cpp`, which repeats `unixnet.cpp` for Windows. Of the machine, the interrupts that read the console or parse and format text
leave it unchanged. Of networking, `NetStream` leaves out several streams at
once (they share no state), the contents of datagrams and addresses, and a receive
thread still blocked in `recv` after its stream was freed; it stops where the
unlocked queue of received datagrams is used by two threads at once. `net_send` on
a stream that failed to start never returns in the code; `SendReturns` is stated
for streams that started.

Two more places where code and words differ, and which no run is about: the
stack is placed from the memory's size when the process is constructed, so it is not
the last bytes of a memory that grew afterwards (`SVASM/README.md:29`,
`v_engine.cpp:15`; `StackPlaced` states what does hold), and `variables.cpp:242`
announces that a tag named like a register is not compiled, while
`finalizeTags` compiles it.

## What could follow

`ImplementsSource` as a theorem, one expansion of `SvasmCompiler` at a time:
`InstructionsKeepMachine` and `OperandsStay` give the types and the operands that each of
these lemmas would start from. `OperandsPointRight`, from a `CodeRead` that says in which
order the files were laid out and a lemma about `finalizeTags` like `FileRead`. A
machine with more than one process for compiled programs, which the shared calling tree
makes wrong as soon as both nest calls.
