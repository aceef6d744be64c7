----------------------------- MODULE TimedWait -----------------------------
(***************************************************************************)
(* The relative timeout of NtWaitForSingleObject                           *)
(* (src/msvcrt/ntdll_synchronization.c): a loop that looks at the event,   *)
(* sleeps for a slice and adds the slice to the time elapsed.  KernelObjects*)
(* leaves the length of the wait open; here it is counted.                 *)
(*                                                                         *)
(* The unit of time is the 100 ns of the caller.  nanosleep takes whole    *)
(* microseconds.                                                           *)
(***************************************************************************)
EXTENDS Naturals

CONSTANTS Delays,        \* the timeouts asked for, in units of 100 ns
          MAX_SLEEP_US,  \* longest slice in microseconds: 100000 in the source
          Interrupts     \* whether a signal may cut a nanosleep short

ASSUME WaitAssumption ==
    /\ Delays \subseteq Nat \ {0}
    /\ MAX_SLEEP_US \in Nat \ {0}
    /\ Interrupts \in BOOLEAN

UnitsPerUs == 10

VARIABLES delay, event_set, wpc, elapsed, sleep_us, wait_status,
          real,     \* history: the time really spent asleep
          cut       \* history: whether a signal cut a slice short
waitVars == <<delay, event_set, wpc, elapsed, sleep_us, wait_status, real, cut>>

WaitInit ==
    /\ delay \in Delays
    /\ event_set \in {0, 1}
    /\ wpc = "loop" /\ elapsed = 0 /\ sleep_us = 0
    /\ wait_status = "none" /\ real = 0 /\ cut = FALSE

\* Another thread sets the event
Set ==
    /\ event_set = 0 /\ wpc # "done"
    /\ event_set' = 1
    /\ UNCHANGED <<delay, wpc, elapsed, sleep_us, wait_status, real, cut>>

Answer(result) == wpc' = "done" /\ wait_status' = result

Slice(remaining) ==
    LET us == remaining \div UnitsPerUs IN
    IF us > MAX_SLEEP_US THEN MAX_SLEEP_US ELSE us

Loop ==
    /\ wpc = "loop"
    /\ IF elapsed < delay
       THEN IF event_set = 1
            THEN Answer("SUCCESS") /\ UNCHANGED sleep_us
            ELSE /\ sleep_us' = Slice(delay - elapsed)
                 /\ wpc' = "sleep" /\ UNCHANGED wait_status
       ELSE wpc' = "last_look" /\ UNCHANGED <<sleep_us, wait_status>>
    /\ UNCHANGED <<delay, event_set, elapsed, real, cut>>

\* Mutants: the slice is counted twice; it is not counted
SleepDouble ==
    /\ wpc = "sleep"
    /\ elapsed' = elapsed + 2 * sleep_us * UnitsPerUs
    /\ real' = real + sleep_us * UnitsPerUs
    /\ wpc' = "loop" /\ sleep_us' = 0
    /\ UNCHANGED <<delay, event_set, wait_status, cut>>
SleepUncounted ==
    /\ wpc = "sleep"
    /\ wpc' = "loop" /\ sleep_us' = 0
    /\ UNCHANGED <<delay, event_set, elapsed, real, wait_status, cut>>

\* nanosleep returns 0
Sleep ==
    /\ wpc = "sleep"
    /\ elapsed' = elapsed + sleep_us * UnitsPerUs
    /\ real' = real + sleep_us * UnitsPerUs
    /\ wpc' = "loop" /\ sleep_us' = 0
    /\ UNCHANGED <<delay, event_set, wait_status, cut>>

\* nanosleep fails and reports the time that was left; the code counts that
Interrupted ==
    /\ wpc = "sleep" /\ Interrupts
    /\ \E rem \in 0 .. sleep_us * UnitsPerUs :
          /\ elapsed' = elapsed + rem
          /\ real' = real + (sleep_us * UnitsPerUs - rem)
          /\ real' <= 2 * delay     \* bound: signals are finitely many
    /\ wpc' = "loop" /\ sleep_us' = 0 /\ cut' = TRUE
    /\ UNCHANGED <<delay, event_set, wait_status>>

LastLook ==
    /\ wpc = "last_look"
    /\ Answer(IF event_set = 1 THEN "SUCCESS" ELSE "TIMEOUT")
    /\ UNCHANGED <<delay, event_set, elapsed, sleep_us, real, cut>>

WaitNext == Set \/ Loop \/ Sleep \/ Interrupted \/ LastLook
WaitSpec == WaitInit /\ [][WaitNext]_waitVars

-----------------------------------------------------------------------------
(* Properties *)

\* Without signals the slices add up: a wait that times out has slept for
\* exactly the time asked for, and one that succeeds for no more than that.
\* And even when signals cut slices short, what the loop counts as elapsed never
\* passes the timeout, so the unsigned remainder delay_ns - elapsed cannot wrap.
SlicesAddUp ==
    /\ elapsed <= delay
    /\ ~cut => /\ wpc \in {"loop", "last_look", "done"} => real <= delay
               /\ wait_status = "TIMEOUT" => real = delay

\* A wait for whole microseconds that has begun to sleep returns, whether or not
\* the event is ever set, unless a signal cuts one of its slices.
UncutWaitReturns == wpc = "sleep" ~> (wpc = "done" \/ cut)
=============================================================================
