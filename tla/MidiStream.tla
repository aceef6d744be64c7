----------------------------- MODULE MidiStream -----------------------------
(***************************************************************************)
(* The MIDI stream of src/msvcrt/winmm_doom95.c: the guest queues events   *)
(* and controls playback while a worker thread takes them one at a time,   *)
(* waits out their delta and hands them to FluidSynth                      *)
(* (winmm_doom95_midi_backend.c).  A step of the worker or of the guest is *)
(* one atomic access, or one critical section of midi_lock.  A delta is 0  *)
(* or a wait of any length; tempo and volume are small values, 1 being the *)
(* value of a fresh stream.                                                *)
(***************************************************************************)
EXTENDS Integers, Sequences, FiniteSets, Functions

CONSTANTS
    Buffers,      \* MIDIHDR contents the guest may submit: sequences of [kind, delta]
    Volumes,      \* values of dwVolume
    StreamSlots,  \* free entries of the handle table
    MaxEvents,    \* bound on events ever queued
    MaxCalls      \* bound on resets, opens, closes and changes of the tempo

ASSUME MidiAssumption ==
    /\ \A b \in Buffers : b \in Seq([kind : {"short", "tempo", "sysex", "comment", "nop", "cut"},
                                     delta : Nat])
    /\ StreamSlots \subseteq Nat \ {0}
    /\ MaxEvents \in Nat /\ MaxCalls \in Nat

VARIABLES
    midi,     \* g_midi_stream without its worker and its backend
    backend,  \* g_midi_stream.backend
    worker,   \* the worker thread: pc, event in hand, generation read, volume read
    guest,    \* the call the guest is in
    streams,  \* live handles of type HMIDI_STREAM
    host,     \* what FluidSynth finds on this host
    log       \* history

mvars == <<midi, backend, worker, guest, streams, host, log>>

-----------------------------------------------------------------------------
(* State.                                                                  *)

Kinds == {"short", "tempo", "sysex"}
None == [no |-> 0, kind |-> "none", delta |-> 0, era |-> 0]
Fresh(handle, stop, generation) ==
    [time_div |-> 1, tempo |-> 1, volume |-> 1, app_active |-> TRUE, playing |-> FALSE,
     queue |-> <<>>, stream_handle |-> handle, active |-> FALSE, stop |-> stop,
     generation |-> generation]
Closed == [ready |-> FALSE, gain |-> 0]
Idle == [pc |-> "idle", todo |-> <<>>, vol |-> 0, then |-> "idle", handle |-> 0]

\* "ok": a sound font and a driver; "fails": no readable sound font, or the one
\* driver that MY_WINE_FLUID_DRIVER names does not start; "nodriver": a sound font,
\* no such name, and no driver starts.
MidiInit ==
    /\ midi = Fresh(0, FALSE, 1)
    /\ backend = Closed
    /\ worker = [pc |-> "none", ev |-> None, generation |-> 0, vol |-> 0, tries |-> 0]
    /\ guest = Idle
    /\ streams = {}
    /\ host \in {"ok", "fails", "nodriver"}
    /\ log = [queued |-> 0, played |-> <<>>, dropped |-> {}, resets |-> 0, stale |-> 0,
              late |-> 0, calls |-> 0, raced |-> FALSE]

\* Events freed without being played.
Drop(l, events) == [l EXCEPT !.dropped = @ \cup {e.no : e \in events}]

-----------------------------------------------------------------------------
(* midiStreamOut.                                                          *)

\* What an entry adds to what the entries before it yielded.  NOP and callback
\* entries pass their delta on to the next event; a comment or version entry, being
\* long, loses it; a long entry that does not fit in the buffer ends the parse.
\* The deltas of a buffer add up to less than 2^32, so pending_delta does not wrap.
ParseEntry(a, e) ==
    IF a.cut \/ e.kind = "cut" THEN [a EXCEPT !.cut = TRUE]
    ELSE IF e.kind \in Kinds
    THEN [a EXCEPT !.out = Append(@, [kind |-> e.kind, delta |-> a.pending + e.delta]),
                   !.pending = 0]
    ELSE [a EXCEPT !.pending = IF e.kind = "comment" THEN 0 ELSE @ + e.delta]

\* What a buffer has yielded after each of its entries, and in all.
Parse(buffer) ==
    LET parse[i \in 0..Len(buffer)] ==
          IF i = 0 THEN [out |-> <<>>, pending |-> 0, cut |-> FALSE]
          ELSE ParseEntry(parse[i - 1], buffer[i])
    IN parse
midi_stream_append_buffer(buffer) == Parse(buffer)[Len(buffer)].out

midiStreamOut(buffer) ==
    /\ guest.pc = "idle"
    /\ log.queued + Len(midi_stream_append_buffer(buffer)) <= MaxEvents
    /\ guest' = [Idle EXCEPT !.pc = "out", !.todo = midi_stream_append_buffer(buffer)]
    /\ UNCHANGED <<midi, backend, worker, streams, host, log>>

\* One event is allocated and linked in at a time; the first allocation that
\* fails ends the call, and the guest is told that the buffer is done.
midi_queue_push_event(ok) ==
    /\ guest.pc = "out"
    /\ IF guest.todo = <<>> \/ ~ok
       THEN guest' = Idle /\ UNCHANGED <<midi, log>>
       ELSE /\ midi' = [midi EXCEPT !.queue = Append(@, [no |-> log.queued + 1, era |-> log.resets,
                            kind |-> Head(guest.todo).kind, delta |-> Head(guest.todo).delta])]
            /\ guest' = [guest EXCEPT !.todo = Tail(@)]
            /\ log' = [log EXCEPT !.queued = @ + 1]
    /\ UNCHANGED <<backend, worker, streams, host>>

-----------------------------------------------------------------------------
(* The guest's other calls.                                                *)

midiStreamPause ==
    /\ guest.pc = "idle"
    /\ midi' = [midi EXCEPT !.playing = FALSE]
    /\ log' = [log EXCEPT !.late = 0]
    /\ UNCHANGED <<backend, worker, guest, streams, host>>

\* ok: pthread_create succeeds.  playing is set once the worker runs.
midiStreamRestart(ok) ==
    /\ guest.pc = "idle"
    /\ IF midi.active
       THEN guest' = [Idle EXCEPT !.pc = "restart"] /\ UNCHANGED <<midi, worker>>
       ELSE IF ok
       THEN /\ midi' = [midi EXCEPT !.active = TRUE, !.stop = FALSE]
            /\ worker' = [pc |-> "loop", ev |-> None, generation |-> 0, vol |-> 0, tries |-> 0]
            /\ guest' = [Idle EXCEPT !.pc = "restart"]
       ELSE UNCHANGED <<midi, worker, guest>>
    /\ UNCHANGED <<backend, streams, host, log>>

RestartPlays ==
    /\ guest.pc = "restart"
    /\ midi' = [midi EXCEPT !.playing = TRUE]
    /\ guest' = Idle
    /\ log' = [log EXCEPT !.late = 0]
    /\ UNCHANGED <<backend, worker, streams, host>>

midiStreamProperty(field, value) ==
    /\ guest.pc = "idle" /\ log.calls < MaxCalls
    /\ midi' = [midi EXCEPT ![field] = value]
    /\ guest' = Idle
    /\ log' = [log EXCEPT !.calls = @ + 1]
    /\ UNCHANGED <<backend, worker, streams, host>>

\* Called on focus changes; only a gain is acted on.
winmm_doom95_set_application_active(active) ==
    /\ guest.pc = "idle"
    /\ midi' = [midi EXCEPT !.app_active = @ \/ active]
    /\ UNCHANGED <<backend, worker, guest, streams, host, log>>

\* raced: the worker holds the volume that this call replaces, and may make it
\* the gain after this call is over.
midiOutSetVolume(v) ==
    /\ guest.pc = "idle"
    /\ midi' = [midi EXCEPT !.volume = v]
    /\ guest' = [Idle EXCEPT !.pc = "volume"]
    /\ log' = [log EXCEPT !.raced = worker.pc = "gain"]
    /\ UNCHANGED <<backend, worker, streams, host>>

\* The volume is read, then made the gain: two steps, here of the guest.
GuestReadsVolume ==
    /\ guest.pc = "volume"
    /\ guest' = IF backend.ready THEN [guest EXCEPT !.pc = "gain", !.vol = midi.volume] ELSE Idle
    /\ UNCHANGED <<midi, backend, worker, streams, host, log>>
GuestSetsGain ==
    /\ guest.pc = "gain"
    /\ backend' = [backend EXCEPT !.gain = guest.vol]
    /\ guest' = Idle
    /\ UNCHANGED <<midi, worker, streams, host, log>>

midiOutReset ==
    /\ guest.pc = "idle" /\ log.calls < MaxCalls
    /\ midi' = [midi EXCEPT !.generation = @ + 1]
    /\ guest' = [Idle EXCEPT !.pc = "reset"]
    /\ log' = [log EXCEPT !.calls = @ + 1]
    /\ UNCHANGED <<backend, worker, streams, host>>
ResetPauses ==
    /\ guest.pc = "reset"
    /\ midi' = [midi EXCEPT !.playing = FALSE]
    /\ guest' = [Idle EXCEPT !.pc = "clear"]
    /\ UNCHANGED <<backend, worker, streams, host, log>>

midi_queue_clear_local ==
    /\ guest.pc = "clear"
    /\ midi' = [midi EXCEPT !.queue = <<>>]
    /\ guest' = [Idle EXCEPT !.pc = "volume"]
    /\ log' = [Drop(log, Range(midi.queue)) EXCEPT !.resets = @ + 1, !.stale = 0, !.late = 0]
    /\ UNCHANGED <<backend, worker, streams, host>>

-----------------------------------------------------------------------------
(* Opening and closing: the worker is stopped and joined first, so nothing *)
(* runs beside the rest of the call.                                       *)

midi_stream_stop_worker_host_call(then, handle) ==
    /\ guest.pc = "idle" /\ log.calls < MaxCalls
    /\ guest' = [Idle EXCEPT !.pc = "join", !.then = then, !.handle = handle]
    /\ midi' = [midi EXCEPT !.stop = @ \/ midi.active]
    /\ log' = [log EXCEPT !.calls = @ + 1]
    /\ UNCHANGED <<backend, worker, streams, host>>

\* midiStreamOpen resets twice, to the same effect.
midi_stream_reset_state == Fresh(midi.stream_handle, midi.stop, midi.generation + 1)

\* A handle is allocated, NULL when the table is full; the one of a stream that
\* was open is not freed.
midiStreamOpen ==
    /\ guest.pc = "join" /\ guest.then = "open"
    /\ midi.active => worker.pc = "done"
    /\ LET free == StreamSlots \ streams
           h == IF free = {} THEN 0 ELSE CHOOSE s \in free : \A t \in free : s <= t
       IN /\ midi' = [midi_stream_reset_state EXCEPT !.stream_handle = h]
          /\ streams' = streams \cup ({h} \ {0})
    /\ guest' = [Idle EXCEPT !.then = "opened"]
    /\ log' = [Drop(log, Range(midi.queue)) EXCEPT !.resets = @ + 1, !.stale = 0, !.late = 0]
    /\ UNCHANGED <<backend, worker, host>>

\* Any handle closes the stream; the handle given is the one freed.
midiStreamClose ==
    /\ guest.pc = "join" /\ guest.then = "close"
    /\ midi.active => worker.pc = "done"
    /\ midi' = midi_stream_reset_state
    /\ streams' = streams \ {guest.handle}
    /\ guest' = Idle
    /\ log' = [Drop(log, Range(midi.queue)) EXCEPT !.resets = @ + 1, !.stale = 0, !.late = 0]
    /\ UNCHANGED <<backend, worker, host>>

-----------------------------------------------------------------------------
(* The worker thread.                                                      *)

Worker(from, to) == worker.pc = from /\ worker' = [worker EXCEPT !.pc = to]

WorkerTestsStop ==
    /\ Worker("loop", IF midi.stop THEN "exit" ELSE "test")
    /\ UNCHANGED <<midi, backend, guest, streams, host, log>>

\* The volume for a backend to be opened is read here.
WorkerTestsPlaying ==
    /\ worker.pc = "test"
    /\ IF ~midi.app_active \/ ~midi.playing THEN worker' = [worker EXCEPT !.pc = "loop"]
       ELSE IF backend.ready THEN worker' = [worker EXCEPT !.pc = "pop"]
       ELSE worker' = [worker EXCEPT !.pc = "open", !.vol = midi.volume]
    /\ UNCHANGED <<midi, backend, guest, streams, host, log>>

\* Drivers 1 to 3 are the candidates; after them the default driver is tried
\* again and again, tries staying at 4.
winmm_doom95_midi_backend_open ==
    /\ worker.pc = "open"
    /\ CASE host = "ok" ->
             /\ worker' = [worker EXCEPT !.pc = "apply", !.tries = 0]
             /\ backend' = [ready |-> TRUE, gain |-> worker.vol]
          [] host = "fails" ->
             worker' = [worker EXCEPT !.pc = "loop"] /\ UNCHANGED backend
          [] host = "nodriver" ->
             worker' = [worker EXCEPT !.tries = IF @ < 4 THEN @ + 1 ELSE 4] /\ UNCHANGED backend
    /\ UNCHANGED <<midi, guest, streams, host, log>>

winmm_doom95_midi_backend_apply_volume ==
    /\ worker.pc = "apply"
    /\ worker' = [worker EXCEPT !.pc = "gain", !.vol = midi.volume]
    /\ UNCHANGED <<midi, backend, guest, streams, host, log>>
WorkerSetsGain ==
    /\ Worker("gain", "pop")
    /\ backend' = [backend EXCEPT !.gain = worker.vol]
    /\ UNCHANGED <<midi, guest, streams, host, log>>

\* The head of the queue and the generation are read in one critical section.
WorkerTakesEvent ==
    /\ worker.pc = "pop"
    /\ IF midi.queue = <<>>
       THEN worker' = [worker EXCEPT !.pc = "loop"] /\ UNCHANGED midi
       ELSE /\ worker' = [worker EXCEPT !.ev = Head(midi.queue), !.generation = midi.generation,
                             !.pc = IF Head(midi.queue).delta = 0 THEN "stop" ELSE "wait"]
            /\ midi' = [midi EXCEPT !.queue = Tail(@)]
    /\ UNCHANGED <<backend, guest, streams, host, log>>

\* Mutant: a paused worker does not look at stop
WaitIgnoresStop ==
    /\ worker.pc = "wait"
    /\ midi.generation # worker.generation \/ (midi.app_active /\ midi.playing)
    /\ worker' = [worker EXCEPT !.pc = "stop"]
    /\ UNCHANGED <<midi, backend, guest, streams, host, log>>

\* The wait ends when its time has passed while playing, or early on a reset or a stop.
WorkerWaits ==
    /\ worker.pc = "wait"
    /\ \/ midi.stop
       \/ midi.generation # worker.generation
       \/ midi.app_active /\ midi.playing
    /\ worker' = [worker EXCEPT !.pc = "stop"]
    /\ UNCHANGED <<midi, backend, guest, streams, host, log>>

WorkerTestsStopAgain ==
    /\ worker.pc = "stop"
    /\ IF midi.stop
       THEN worker' = [worker EXCEPT !.pc = "exit", !.ev = None] /\ log' = Drop(log, {worker.ev})
       ELSE worker' = [worker EXCEPT !.pc = "generation"] /\ UNCHANGED log
    /\ UNCHANGED <<midi, backend, guest, streams, host>>

\* Mutant: the event of an old generation is freed and sent
GenerationFreed ==
    /\ worker.pc = "generation"
    /\ worker' = [worker EXCEPT !.pc = "send"]
    /\ log' = IF midi.generation # worker.generation THEN Drop(log, {worker.ev}) ELSE log
    /\ UNCHANGED <<midi, backend, guest, streams, host>>

WorkerTestsGeneration ==
    /\ worker.pc = "generation"
    /\ IF midi.generation # worker.generation
       THEN worker' = [worker EXCEPT !.pc = "loop", !.ev = None] /\ log' = Drop(log, {worker.ev})
       ELSE worker' = [worker EXCEPT !.pc = "send"] /\ UNCHANGED log
    /\ UNCHANGED <<midi, backend, guest, streams, host>>

\* A tempo event sets the tempo; the others go to FluidSynth.
WorkerSends ==
    /\ worker.pc = "send"
    /\ midi' = IF worker.ev.kind = "tempo" THEN [midi EXCEPT !.tempo = 2] ELSE midi
    /\ worker' = [worker EXCEPT !.pc = "loop", !.ev = None]
    /\ log' = [log EXCEPT !.played = Append(@, worker.ev.no),
                          !.stale = IF worker.ev.era < log.resets THEN @ + 1 ELSE @,
                          !.late = IF midi.playing THEN 0 ELSE @ + 1]
    /\ UNCHANGED <<backend, guest, streams, host>>

winmm_doom95_midi_backend_close ==
    /\ Worker("exit", "done")
    /\ backend' = Closed
    /\ UNCHANGED <<midi, guest, streams, host, log>>

WorkerNext ==
    \/ WorkerTestsStop \/ WorkerTestsPlaying \/ winmm_doom95_midi_backend_open
    \/ winmm_doom95_midi_backend_apply_volume \/ WorkerSetsGain \/ WorkerTakesEvent
    \/ WorkerWaits \/ WorkerTestsStopAgain \/ WorkerTestsGeneration \/ WorkerSends
    \/ winmm_doom95_midi_backend_close
GuestNext ==
    \/ \E b \in Buffers : midiStreamOut(b)
    \/ \E ok \in BOOLEAN : midi_queue_push_event(ok) \/ midiStreamRestart(ok)
    \/ midiStreamPause \/ RestartPlays \/ midiOutReset \/ ResetPauses \/ midi_queue_clear_local
    \/ \E v \in Volumes : midiOutSetVolume(v)
    \/ midiStreamProperty("tempo", 2)
    \/ \E a \in BOOLEAN : winmm_doom95_set_application_active(a)
    \/ GuestReadsVolume \/ GuestSetsGain
    \/ midi_stream_stop_worker_host_call("open", 0)
    \/ \E h \in StreamSlots : midi_stream_stop_worker_host_call("close", h)
    \/ midiStreamOpen \/ midiStreamClose
MidiNext == WorkerNext \/ GuestNext

\* The worker is a thread, and a call the guest has begun goes on; a guest need
\* not make another call.
MidiFairness ==
    /\ WF_mvars(WorkerNext)
    /\ WF_mvars(guest.pc # "idle" /\ GuestNext)
MidiSpec == MidiInit /\ [][MidiNext]_mvars /\ MidiFairness

-----------------------------------------------------------------------------
(* Properties.                                                             *)

MidiTypeOK ==
    /\ midi.playing \in BOOLEAN /\ midi.active \in BOOLEAN /\ midi.stop \in BOOLEAN
    /\ midi.tempo \in {1, 2} /\ midi.volume \in Volumes \cup {1} /\ streams \subseteq StreamSlots
    /\ \A i \in DOMAIN midi.queue : midi.queue[i].no \in 1..MaxEvents
    /\ worker.pc \in {"none", "loop", "test", "open", "apply", "gain", "pop", "wait", "stop",
                      "generation", "send", "exit", "done"}
    /\ guest.pc \in {"idle", "out", "restart", "volume", "gain", "reset", "clear", "join"}

\* Every event the guest queued is, at any moment, in exactly one place: in the
\* queue, in the worker's hand, played, or freed; and it is played at most once.
\* So neither thread frees or sends an event of the other's.
EventsInOnePlace ==
    LET queue == {e.no : e \in Range(midi.queue)}
        hand == {worker.ev.no} \ {0}
        played == Range(log.played)
    IN /\ queue \cup hand \cup played \cup log.dropped = 1..log.queued
       /\ Cardinality(queue) + Cardinality(hand) + Len(log.played) + Cardinality(log.dropped)
            = log.queued

\* Events are played in the order in which they were queued, whatever resets and
\* restarts of the worker come between.
PlayedInOrder == \A i, j \in DOMAIN log.played : i < j => log.played[i] < log.played[j]

\* Once midiOutReset, midiStreamOpen or midiStreamClose is over, at most one event
\* queued before it is played: the one the worker took between the new generation
\* and the clearing of the queue.
OneStaleEvent == log.stale <= 1

\* After midiStreamPause at most one event is played before midiStreamRestart:
\* the worker does not test playing again between the wait and the send.
OneLateEvent == log.late <= 1

\* When midiStreamOpen returns, nothing of the stream before is left: no worker,
\* no synthesizer, no event, and tempo and volume as at the start.  It stays so
\* until the guest makes another call.
OpensFresh ==
    guest.then = "opened" =>
        /\ worker.pc \in {"none", "done"} /\ worker.ev = None /\ ~backend.ready
        /\ midi.queue = <<>> /\ midi.tempo = 1 /\ midi.volume = 1 /\ ~midi.playing

\* The gain of the synthesizer is the volume the guest asked for once neither
\* thread is setting it, although a volume may be set while the worker opens the
\* synthesizer.  Excepted is a volume set while the worker holds the one before.
VolumeApplied ==
    backend.ready /\ guest.pc \notin {"volume", "gain"} /\ worker.pc \notin {"apply", "gain"}
        /\ ~log.raced => backend.gain = midi.volume

\* The deltas of the first n entries of a buffer, or events, together.
Ticks(s, n) ==
    LET ticks[i \in 0..Len(s)] == IF i = 0 THEN 0 ELSE ticks[i - 1] + s[i].delta IN ticks[n]

\* An event starts as many ticks into its buffer as the deltas up to it say,
\* unless a comment entry stands before it: when its entry has been parsed it is
\* the last of the events so far, which stay the first ones, and their deltas add
\* up to those of the entries.
DeltasKept ==
    \A buffer \in Buffers : \A i \in 1..Len(buffer) :
        /\ buffer[i].kind \in Kinds
        /\ \A j \in 1..i : buffer[j].kind \notin {"comment", "cut"}
        => LET out == Parse(buffer)[i].out
               all == midi_stream_append_buffer(buffer)
           IN /\ out # <<>> /\ out[Len(out)].kind = buffer[i].kind
              /\ Ticks(out, Len(out)) = Ticks(buffer, i)
              /\ Len(out) <= Len(all) /\ SubSeq(all, 1, Len(out)) = out

\* midiStreamOpen and midiStreamClose return: the worker ends when it is told to,
\* also in the middle of a wait and while paused.  Excepted is a host on which
\* winmm_doom95_midi_backend_open never gives up.
JoinReturns == (guest.pc = "join" /\ host # "nodriver") ~> guest.pc # "join"

\* While the stream plays, the events queued are played or freed in the end.
QueueDrains ==
    (host = "ok" /\ (midi.queue # <<>> \/ worker.ev # None))
        ~> ((midi.queue = <<>> /\ worker.ev = None) \/ ~midi.playing)

\* The events of a MIDI stream between the guest's thread and the worker: each in
\* one place, in order and on time, at most one after a reset or a pause, and a
\* fresh stream when one is opened.
EventsHandedOver ==
    /\ MidiTypeOK /\ EventsInOnePlace /\ PlayedInOrder /\ OneStaleEvent /\ OneLateEvent
    /\ OpensFresh /\ VolumeApplied /\ DeltasKept

\* The worker answers the guest: it ends when told to, and plays what is queued.
WorkerAnswers == JoinReturns /\ QueueDrains
=============================================================================
