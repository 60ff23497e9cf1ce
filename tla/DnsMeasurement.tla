--------------------------- MODULE DnsMeasurement ---------------------------
(***************************************************************************)
(* The measurement of DNS resolvers (dns_measurement/dns_test.py, called   *)
(* from dns_measure.py for one name server after the other): a thread runs *)
(* the tests while another writes what the interface sees to a trace, and  *)
(* a global flag tells the second when the first is done.  A test may      *)
(* raise, and the programs it started may outlive it.                      *)
(***************************************************************************)
EXTENDS Naturals

CONSTANTS
    Runs,      \* how many name servers are measured
    Tests      \* how many tests each is given, at least one

Packets == (1 .. Runs) \X (1 .. Tests)   \* what a test makes the interface see

VARIABLES
    run,       \* the name server being measured, 0 before the first
    main,      \* "between", "testing" joins load_test, "ending" joins capture_packets
    running,   \* the global flag
    load,      \* load_test: "off", "test" or "sleep"
    test,      \* the test it is at, 0 before the first
    sent,      \* the packets so far
    raised,    \* history: what the tests that raised send, and sent
    capture,   \* of each run: "off", "opening", "loop", "reading", "ended" or "failed"
    buffered,  \* packets each capture has not read yet
    trace,     \* packets in each trace.pcap
    early      \* packets sent before the capture of their run was open

vars == <<run, main, running, load, test, sent, raised, capture, buffered, trace, early>>

RunOf(p) == p[1]
Current == <<run, test>>

TypeOK ==
    /\ run \in 0 .. Runs
    /\ main \in {"between", "testing", "ending"}
    /\ running \in BOOLEAN
    /\ load \in {"off", "test", "sleep"}
    /\ test \in 0 .. Tests
    /\ sent \subseteq Packets /\ early \subseteq Packets /\ raised \subseteq Packets
    /\ capture \in [1 .. Runs -> {"off", "opening", "loop", "reading", "ended", "failed"}]
    /\ buffered \in [1 .. Runs -> SUBSET Packets]
    /\ trace \in [1 .. Runs -> SUBSET Packets]

Init ==
    /\ run = 0 /\ main = "between" /\ running = TRUE /\ load = "off"
    /\ test = 0 /\ sent = {} /\ early = {} /\ raised = {}
    /\ capture = [r \in 1 .. Runs |-> "off"]
    /\ buffered = [r \in 1 .. Runs |-> {}]
    /\ trace = [r \in 1 .. Runs |-> {}]

Open(r) == capture[r] \in {"loop", "reading"}

-----------------------------------------------------------------------------
(* run_testNoReset, SleptNot and CaptureJoinedAtOnce are faulty variants   *)
(* that break the property below.                                          *)

run_testNoReset ==
    /\ main = "between" /\ run < Runs
    /\ run' = run + 1 /\ main' = "testing"
    /\ load' = "test" /\ test' = 1
    /\ capture' = [capture EXCEPT ![run + 1] = "opening"]
    /\ UNCHANGED <<running, sent, raised, buffered, trace, early>>

\* run_test starts both threads; the tests do not wait for the capture.
run_test ==
    /\ main = "between" /\ run < Runs
    /\ run' = run + 1 /\ main' = "testing"
    /\ running' = TRUE
    /\ load' = "test" /\ test' = 1
    /\ capture' = [capture EXCEPT ![run + 1] = "opening"]
    /\ UNCHANGED <<sent, raised, buffered, trace, early>>

\* A packet passes the interface, and every capture that is open has it to read.
Send(p) ==
    /\ sent' = sent \cup {p}
    /\ buffered' = [r \in 1 .. Runs |-> IF Open(r) THEN buffered[r] \cup {p} ELSE buffered[r]]

\* load_test: the module's run_test sends.
Test ==
    /\ load = "test" /\ Current \notin sent
    /\ Send(Current)
    /\ early' = IF Open(run) THEN early ELSE early \cup {Current}
    /\ UNCHANGED <<run, main, running, load, test, raised, capture, trace>>

TestReturns ==
    /\ load = "test"
    /\ load' = "sleep"
    /\ UNCHANGED <<run, main, running, test, sent, raised, capture, buffered, trace, early>>

SleptNot ==
    /\ load = "sleep"
    /\ IF test < Tests THEN test' = test + 1 /\ load' = "test"
       ELSE load' = "off" /\ UNCHANGED test
    /\ UNCHANGED <<run, main, running, sent, raised, capture, buffered, trace, early>>

\* A sleep of ten seconds, which are enough to open the capture and for it to
\* read what the test sent.
Slept ==
    /\ load = "sleep"
    /\ capture[run] # "opening" /\ (Open(run) => Current \notin buffered[run])
    /\ IF test < Tests THEN test' = test + 1 /\ load' = "test"
       ELSE load' = "off" /\ UNCHANGED test
    /\ UNCHANGED <<run, main, running, sent, raised, capture, buffered, trace, early>>

\* A test that raises, before or after it sent, ends its thread without the
\* sleep, and with it the tests after it.
TestRaises ==
    /\ load = "test"
    /\ load' = "off"
    /\ raised' = raised \cup {Current}
    /\ UNCHANGED <<run, main, running, test, sent, capture, buffered, trace, early>>

\* The tunnel that a test started before it raised is not killed, and goes on
\* sending while other name servers are measured.
Straggle(p) ==
    /\ p \in raised \cap sent
    /\ Send(p)
    /\ UNCHANGED <<run, main, running, load, test, raised, capture, trace, early>>

TestsEnd ==
    /\ main = "testing" /\ load = "off"
    /\ main' = "ending" /\ running' = FALSE
    /\ UNCHANGED <<run, load, test, sent, raised, capture, buffered, trace, early>>

CaptureJoinedAtOnce ==
    /\ main = "ending"
    /\ main' = "between"
    /\ UNCHANGED <<run, running, load, test, sent, raised, capture, buffered, trace, early>>

CaptureJoined ==
    /\ main = "ending" /\ capture[run] \in {"ended", "failed"}
    /\ main' = "between"
    /\ UNCHANGED <<run, running, load, test, sent, raised, capture, buffered, trace, early>>

\* capture_packets up to its loop.
OpenCapture(r) ==
    /\ capture[r] = "opening"
    /\ capture' = [capture EXCEPT ![r] = "loop"]
    /\ UNCHANGED <<run, main, running, load, test, sent, raised, buffered, trace, early>>

\* The test of the loop.
CheckRunning(r) ==
    /\ capture[r] = "loop"
    /\ capture' = [capture EXCEPT ![r] = IF running THEN "reading" ELSE "ended"]
    /\ UNCHANGED <<run, main, running, load, test, sent, raised, buffered, trace, early>>

\* A read returns a packet, or times out.
Read(r) ==
    /\ capture[r] = "reading"
    /\ capture' = [capture EXCEPT ![r] = "loop"]
    /\ IF buffered[r] = {} THEN UNCHANGED <<buffered, trace>>
       ELSE \E p \in buffered[r] :
                /\ buffered' = [buffered EXCEPT ![r] = @ \ {p}]
                /\ trace' = [trace EXCEPT ![r] = @ \cup {p}]
    /\ UNCHANGED <<run, main, running, load, test, sent, raised, early>>

\* Anything but socket.timeout ends the thread: pcapy not allowed to open the
\* interface, or raising an error of its own.
CaptureFails(r) ==
    /\ capture[r] \in {"opening", "reading"}
    /\ capture' = [capture EXCEPT ![r] = "failed"]
    /\ UNCHANGED <<run, main, running, load, test, sent, raised, buffered, trace, early>>

Capture(r) == OpenCapture(r) \/ CheckRunning(r) \/ Read(r)

Main == run_test \/ Test \/ TestReturns \/ Slept \/ TestsEnd \/ CaptureJoined

Next ==
    \/ Main \/ TestRaises
    \/ \E p \in Packets : Straggle(p)
    \/ \E r \in 1 .. Runs : Capture(r) \/ CaptureFails(r)

Spec == Init /\ [][Next]_vars

-----------------------------------------------------------------------------
(* Properties.                                                             *)

\* Once a name server was measured its trace has the packets of its tests, but
\* those sent before its capture was open, those of the test that raised, and all
\* that a capture did not read before it failed. No test's packets are lost because
\* a later one raised. It has packets of another name server only from a test that
\* raised while that one was measured: a capture has ended before the next run
\* sets the flag it reads.
TraceExact ==
    /\ \A r \in 1 .. Runs : \A p \in trace[r] :
           RunOf(p) = r \/ (RunOf(p) < r /\ p \in raised)
    /\ \A p \in sent : (RunOf(p) < run \/ main = "between") =>
           \/ p \in trace[RunOf(p)] \/ p \in early \/ p \in raised
           \/ capture[RunOf(p)] = "failed"
=============================================================================
