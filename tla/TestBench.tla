------------------------------ MODULE TestBench -------------------------------
(***************************************************************************)
(* `cargo xtask test`: the runner of xtask/src (main.rs, runner.rs,        *)
(* corrupt.rs, qemu.rs) that runs the programs of testsuite/examples on an *)
(* emulated Board and compares what they print.  QEMU, cargo and the       *)
(* decoder are external; every run of QEMU exits with success.             *)
(*                                                                         *)
(* A program is the sequence of its calls; the texts it logs are strings,  *)
(* and its loops are shorter than the real ones (Lines, Rounds, Period).   *)
(* The tasks of async_test are run by WaitForData; here they are the order *)
(* in which block_on and join poll them.                                   *)
(*                                                                         *)
(* With command "none" there is no runner, and the board is free.          *)
(***************************************************************************)
EXTENDS Board

CONSTANTS BenchCapacity,        \* the ring of the test firmware
          Lines,                \* messages that basic and persist_test log
          Rounds, Period        \* messages of wraparound_test, one drain per Period

ASSUME BenchAssumption ==
    /\ BenchCapacity \in Capacities /\ Callers # {}
    /\ Lines \in 1 .. 6 /\ Rounds \in 1 .. 10 /\ Period \in Nat \ {0}

VARIABLES
    command,            \* "test", "bless" (test --bless) or "none"
    expected,           \* the files of testsuite/expected: test -> output
    queue,              \* the tests still to be run, the current one first
    runs,               \* QemuOutput of the current test's finished runs
    running,            \* QEMU runs
    program,            \* the calls the program has yet to make
    said,               \* the text of each message
    uart1,              \* the dumps of the persist region
    passed, failed      \* tests

bench == <<command, expected, queue, runs, running, program, said, uart1, passed, failed>>

-----------------------------------------------------------------------------
(* The test firmware *)

Log(t) == <<"log", t>>
boot  == <<"init">>
drain == <<"drain">>
dump  == <<"dump">>

\* The messages of basic and persist_test, and of wraparound_test, by number.
Line == <<"println", "error", "warn", "info", "debug", "trace">>
Number == <<"0", "1", "2", "3", "4", "5", "6", "7", "8", "9">>

LogLines == [i \in 1 .. Lines |-> Log(Line[i])]

\* main of each example, and what its panic handler does: `fresh` is what
\* Consumer::is_empty tells it after init.
AsyncTest == <<Log("1"), drain, Log("2"), drain, Log("3"), drain>>

Basic == LogLines \o <<drain>>

CorruptTest(fresh) == IF fresh THEN <<Log("fresh"), dump, drain>> ELSE <<drain>>

PanicTest(fresh) ==
    IF fresh THEN <<Log("before"), drain, Log("late"), Log("panic"), dump>>
    ELSE <<Log("second"), drain>>

PersistTest(fresh) ==
    IF fresh THEN LogLines \o <<dump, Log("first"), drain>>
    ELSE <<Log("second"), drain>>

\* Message i - 1, and a drain after each that is a multiple of Period.
WraparoundTest ==
    LET calls[i \in 0 .. Rounds] ==
            IF i = 0 THEN <<>>
            ELSE calls[i - 1] \o <<Log(Number[i])>>
                     \o (IF (i - 1) % Period = 0 THEN <<drain>> ELSE <<>>)
    IN calls[Rounds] \o <<drain>>

Program(test, fresh) ==
    CASE test = "async_test" -> AsyncTest
      [] test = "basic" -> Basic
      [] test = "corrupt_test" -> CorruptTest(fresh)
      [] test = "panic_test" -> PanicTest(fresh)
      [] test = "persist_test" -> PersistTest(fresh)
      [] test = "wraparound_test" -> WraparoundTest

\* discover_examples, sorted.
Examples == <<"async_test", "basic", "corrupt_test", "panic_test", "persist_test", "wraparound_test">>

\* The files of testsuite/expected: what each example is to print.
LinesText == SubSeq(Line, 1, Lines)
Files ==
    [test \in {Examples[i] : i \in DOMAIN Examples} \ {"corrupt_test"} |->
        CASE test = "async_test" -> <<"1", "2", "3">>
          [] test = "basic" -> LinesText
          [] test = "panic_test" -> << <<"before">>, <<"late", "panic", "second">> >>
          [] test = "persist_test" ->
                 <<Append(LinesText, "first"), Append(LinesText, "second")>>
          [] test = "wraparound_test" -> SubSeq(Number, 1, Rounds)]

Main == CHOOSE c \in Callers : TRUE

\* The run and validate markers of the examples.
RunMode(test) == IF test \in {"persist_test", "panic_test"} THEN "persist" ELSE "single"
Validates(test) == IF test = "corrupt_test" THEN "corrupt" ELSE "expected"

BenchInit ==
    /\ Init
    /\ command \in {"none", "test", "bless"}
    /\ IF command = "none" THEN capacity # BenchCapacity
       ELSE /\ oneCore /\ region = "ok" /\ capacity = BenchCapacity
            /\ ring = <<>> /\ damage = {"header"}
    /\ expected = IF command = "bless" THEN <<>> ELSE Files
    /\ queue = IF command = "none" THEN <<>> ELSE Examples
    /\ runs = <<>> /\ running = FALSE /\ program = <<>>
    /\ said = <<>> /\ uart1 = <<>> /\ passed = 0 /\ failed = 0

\* `call` is what the program does next.
Calls(call) == running /\ frame = <<>> /\ program # <<>> /\ Head(program) = call

Returns == program' = Tail(program)

\* init, and the branch main takes after it.
CallsInit ==
    /\ Calls(boot)
    /\ IF result[Main] = "ok"
       THEN /\ program' = Program(Head(queue), ring = <<>>)
            /\ UNCHANGED vars
       ELSE CallInit(Main) /\ UNCHANGED program
    /\ UNCHANGED <<command, expected, queue, runs, running, said, uart1, passed, failed>>

CallsLog ==
    \E t \in {Number[i] : i \in DOMAIN Number} \cup {Line[i] : i \in DOMAIN Line}
             \cup {"fresh", "before", "late", "panic", "first", "second"} :
        /\ Calls(Log(t))
        /\ StartFrame
        /\ said' = Append(said, t)
        /\ Returns
        /\ UNCHANGED <<command, expected, queue, runs, running, uart1, passed, failed>>

Logs == running /\ WriteAll /\ UNCHANGED bench

\* drain_to_uart: read, send both slices, release_all, until is_empty.
CallsDrain ==
    /\ Calls(drain)
    /\ IF ring = <<>> THEN Returns /\ UNCHANGED vars
       ELSE Drain(Len(ring)) /\ UNCHANGED program
    /\ UNCHANGED <<command, expected, queue, runs, running, said, uart1, passed, failed>>

\* dump_persist_region sends the region as it is.
CallsDump ==
    /\ Calls(dump)
    /\ uart1' = Append(uart1, ring)
    /\ Returns
    /\ UNCHANGED <<vars, command, expected, queue, runs, running, said, passed, failed>>

-----------------------------------------------------------------------------
(* run_qemu *)

Malformed == <<"malformed">>

\* decode_output: the texts of the frames, but for an unfinished last one.
Decode(stream) ==
    LET frames == 1 .. Len(stream) \div Size
        Nth(k) == SubSeq(stream, (k - 1) * Size + 1, k * Size)
    IN IF \A k \in frames : Nth(k) = Frame(Nth(k)[1][1])
       THEN [k \in frames |-> said[Nth(k)[1][1]]]
       ELSE Malformed

\* The program exits, and QEMU with it.
QemuExits ==
    /\ running /\ frame = <<>> /\ program = <<>>
    /\ running' = FALSE
    /\ runs' = Append(runs,
           [semihosting |-> Decode(stdout),
            uart0 |-> Decode(SubSeq(drained, mark + 1, Len(drained))),
            uart1 |-> uart1])
    /\ UNCHANGED <<vars, command, expected, queue, program, said, uart1, passed, failed>>

\* A machine whose memory is zero, but for a snapshot that is loaded.
RunQemu(snapshot, invalid) ==
    /\ Restart
    /\ ring' = snapshot /\ damage' = invalid
    /\ cut' = cut \cup (Messages(ring) \ (IF invalid = {} THEN Messages(snapshot) ELSE {}))
    /\ running' = TRUE /\ program' = <<boot>> /\ uart1' = <<>>
    /\ UNCHANGED <<command, expected, queue, runs, said, passed, failed>>

-----------------------------------------------------------------------------
(* The runner *)

Test == Head(queue)

\* CorruptFlags::all_combinations
Scenarios ==
    << {}, {"header"}, {"read"}, {"write"}, {"header", "read"}, {"header", "write"},
       {"read", "write"}, {"header", "read", "write"} >>

\* How often run_single, run_persist and run_corrupt start QEMU, unless the
\* first run of the latter two dumps nothing.
RunsOf(test) ==
    IF Validates(test) = "corrupt" THEN 1 + Len(Scenarios)
    ELSE IF RunMode(test) = "persist" THEN 2 ELSE 1

Judged ==
    \/ Len(runs) = RunsOf(Test)
    \/ Len(runs) = 1 /\ RunsOf(Test) > 1 /\ runs[1].uart1 = <<>>

FirstRun ==
    /\ queue # <<>> /\ ~running /\ runs = <<>>
    /\ RunQemu(<<>>, {"header"})

\* The persist region of the first run is loaded, by run_corrupt after
\* apply_corruption, which clears the magic or puts indices out of range.
NextRun ==
    /\ queue # <<>> /\ ~running /\ runs # <<>> /\ ~Judged
    /\ RunQemu(runs[1].uart1[1],
               IF Validates(Test) = "corrupt" THEN Scenarios[Len(runs)] ELSE {})

\* run_corrupt's criteria for a scenario: any corruption takes the program
\* down its fresh path, none down the other.
ScenarioPasses(i) ==
    LET result_i == runs[i + 1]
    IN IF Scenarios[i] # {}
       THEN result_i.semihosting # <<>> /\ result_i.uart0 = runs[1].uart0
       ELSE result_i.semihosting = <<>> /\ result_i.uart0 # <<>>

\* compare_expected, which with --bless writes the file instead.
CompareExpected(output) ==
    IF command = "bless" THEN TRUE
    ELSE Test \in DOMAIN expected /\ output = expected[Test]

Output == IF RunMode(Test) = "persist" THEN <<runs[1].uart0, runs[2].uart0>>
          ELSE runs[1].semihosting

\* The output of semihosting is decoded by run_single, and by run_corrupt for
\* its scenarios.
DecodesSemihosting(i) ==
    IF Validates(Test) = "corrupt" THEN i > 1 ELSE RunMode(Test) = "single"

\* run_single, run_persist, run_corrupt.  What cannot be decoded is an error.
Passes ==
    /\ Len(runs) = RunsOf(Test)
    /\ \A i \in DOMAIN runs :
          /\ runs[i].uart0 # Malformed
          /\ DecodesSemihosting(i) => runs[i].semihosting # Malformed
    /\ IF Validates(Test) = "corrupt" THEN \A i \in DOMAIN Scenarios : ScenarioPasses(i)
       ELSE /\ RunMode(Test) = "single" => runs[1].semihosting = runs[1].uart0
            /\ CompareExpected(Output)

Judge ==
    /\ queue # <<>> /\ ~running /\ runs # <<>> /\ Judged
    /\ IF Passes THEN passed' = passed + 1 /\ UNCHANGED failed
       ELSE failed' = failed + 1 /\ UNCHANGED passed
    /\ expected' = IF command = "bless" /\ Validates(Test) = "expected" /\ Passes
                   THEN [t \in DOMAIN expected \cup {Test} |->
                            IF t = Test THEN Output ELSE expected[t]]
                   ELSE expected
    /\ queue' = Tail(queue) /\ runs' = <<>>
    /\ UNCHANGED <<vars, command, running, program, said, uart1>>

BenchNext ==
    \/ command = "none" /\ Next /\ UNCHANGED bench
    \/ CallsInit \/ CallsLog \/ Logs \/ CallsDrain \/ CallsDump
    \/ QemuExits
    \/ FirstRun \/ NextRun \/ Judge

benchVars == <<vars, bench>>

BenchSpec == BenchInit /\ [][BenchNext]_benchVars

-----------------------------------------------------------------------------
(* Properties *)

\* `cargo xtask test` passes whatever the pieces in which the encoder hands
\* over its frames, and test --bless writes the files that are there.
TestsPass ==
    /\ failed = 0
    /\ \A test \in DOMAIN expected : expected[test] = Files[test]
=============================================================================
