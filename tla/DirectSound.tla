---------------------------- MODULE DirectSound ----------------------------
(***************************************************************************)
(* DirectSound objects and buffers (src/msvcrt/dsound_*.c) over the mixer  *)
(* of the backend (src/backend/sdl2/rb_audio.c, rb_audio_mix.c).  The      *)
(* guest calls; SDL calls rb_audio_callback on a thread of its own, under  *)
(* the device lock that every access of the guest to a mixer buffer takes  *)
(* too, so the callback is one step.  Samples are left out: a buffer has a *)
(* number of frames and a cursor of 1/FP frames (2^RB_AUDIO_CURSOR_SHIFT). *)
(***************************************************************************)
EXTENDS SequencesExt, FiniteSetsExt, Integers

CONSTANTS
    DSObjects,    \* addresses of DirectSound objects
    SoundBuffers, \* addresses of buffers
    Rates,        \* sample rates and frequencies; 1 is the default rate
    Levels,       \* volumes and pans; 0 is the default
    Frames,       \* frames of a secondary buffer
    FP,           \* cursor units of a frame
    OutFrames,    \* frames SDL asks for in a callback
    MaxOps        \* bound on calls that create, or set a control, a position or a format

VARIABLES
    ds,       \* my_ds_t by address, for the live ones
    dsb,      \* my_ds_buffer_t by address, for the live ones
    audio,    \* g_audio: opened, sample_rate, list; failed: history, the last open failed
    rb,       \* rb_audio_buf by the address of its DirectSound buffer, while allocated
    freeing,  \* the buffer whose rb_audio_buf is off the list and not yet freed, or 0
    shutdown, \* rb_runtime_shutdown_requested()
    used      \* history: calls counted against the bounds, references the guest holds

svars == <<ds, dsb, audio, rb, freeing, shutdown, used>>

SoundInit ==
    /\ ds = <<>> /\ dsb = <<>> /\ rb = <<>> /\ freeing = 0 /\ shutdown = FALSE
    /\ audio = [opened |-> FALSE, sample_rate |-> 1, list |-> <<>>, failed |-> FALSE]
    /\ used = [ops |-> 0, refs |-> [d \in DSObjects |-> 0]]

End == Frames * FP
Remove1(f, x) == [y \in DOMAIN f \ {x} |-> f[y]]
Put(f, x, v) == [y \in DOMAIN f \cup {x} |-> IF y = x THEN v ELSE f[y]]
\* The allocator gives out the lowest address that is free.
Unused(addresses, live) ==
    LET free == addresses \ DOMAIN live IN IF free = {} THEN {} ELSE {Min(free)}
Calling == freeing = 0
Sets == used.ops < MaxOps /\ used' = [used EXCEPT !.ops = @ + 1]
Secondary(b) == b \in DOMAIN dsb /\ ~dsb[b].is_primary

-----------------------------------------------------------------------------
(* The mixer.                                                              *)

rb_audio_step_fp(b) == (b.frequency * FP) \div audio.sample_rate

\* Mutant: a buffer at its end is not marked as stopped
MixNeverStops(b) ==
    IF ~b.playing THEN b
    ELSE FoldLeft(LAMBDA x, i :
            IF x.cursor >= End /\ ~x.loop THEN [x EXCEPT !.cursor = End]
            ELSE [x EXCEPT !.cursor = (@ % End) + rb_audio_step_fp(b)],
            b, [i \in 1..OutFrames |-> i])

\* One callback's worth of a buffer: the source frame of each output frame is
\* the cursor, wrapped when the buffer loops; past the end the buffer stops.
rb_audio_mix_buffer(b) ==
    IF ~b.playing THEN b
    ELSE IF rb_audio_step_fp(b) = 0 THEN [b EXCEPT !.playing = FALSE]
    ELSE FoldLeft(LAMBDA x, i :
            IF ~x.playing THEN x
            ELSE IF x.cursor >= End /\ ~x.loop THEN [x EXCEPT !.cursor = End, !.playing = FALSE]
            ELSE [x EXCEPT !.cursor = (@ % End) + rb_audio_step_fp(b)],
            b, [i \in 1..OutFrames |-> i])

rb_audio_stop_all_locked == [b \in DOMAIN rb |->
    IF b \in ToSet(audio.list) THEN [rb[b] EXCEPT !.playing = FALSE] ELSE rb[b]]

rb_audio_callback ==
    /\ audio.opened
    /\ rb' = IF shutdown THEN rb_audio_stop_all_locked
             ELSE [b \in DOMAIN rb |-> IF b \in ToSet(audio.list) THEN rb_audio_mix_buffer(rb[b])
                                       ELSE rb[b]]
    /\ UNCHANGED <<ds, dsb, audio, freeing, shutdown, used>>

rb_audio_buffer_play(x, loop) ==
    [x EXCEPT !.cursor = IF ~x.playing /\ @ >= End THEN 0 ELSE @, !.playing = TRUE, !.loop = loop]
rb_audio_buffer_stop(x) == [x EXCEPT !.playing = FALSE]

\* A buffer at its end is noted as stopped.
rb_audio_buffer_is_playing(x) ==
    IF x.playing /\ ~x.loop /\ x.cursor >= End THEN rb_audio_buffer_stop(x) ELSE x

\* A position is cut to the buffer, so the end itself can be set.
rb_audio_buffer_set_position(x, frame) == [x EXCEPT !.cursor = Min({frame, Frames}) * FP]

\* The length of the part at offset that is given out, cut at the end of the buffer.
rb_audio_buffer_lock(offset, bytes, size) == [at |-> offset, len |-> Min({bytes, size - offset})]

\* The buffers after the device is closed.
rb_audio_close == IF audio.opened THEN rb_audio_stop_all_locked ELSE rb

\* An open device is closed first, which stops every buffer, whoever plays it.
\* ok: SDL opens the device, at the rate asked for or at another that it prefers.
\* When it does not, there is no device any more.
rb_audio_open(ok) ==
    /\ \E have \in IF ok THEN Rates ELSE {audio.sample_rate} :
          audio' = [audio EXCEPT !.opened = ok, !.sample_rate = have, !.failed = ~ok]
    /\ rb' = rb_audio_close

rb_audio_buffer_create(b, rate) ==
    /\ rb' = Put(rb, b, [playing |-> FALSE, loop |-> FALSE, cursor |-> 0, frequency |-> rate,
                         volume |-> 0, pan |-> 0])
    /\ audio' = [audio EXCEPT !.list = <<b>> \o @]

-----------------------------------------------------------------------------
(* DirectSound objects.                                                    *)

DirectSoundCreate(d) ==
    /\ Calling /\ used.ops < MaxOps /\ d \in Unused(DSObjects, ds)
    /\ ds' = Put(ds, d, [ref_count |-> 1, backend_ready |-> FALSE, primary_format |-> 1,
                         buffer_list |-> <<>>])
    /\ used' = [used EXCEPT !.ops = @ + 1, !.refs[d] = 1]
    /\ UNCHANGED <<dsb, audio, rb, freeing, shutdown>>

dsound_AddRef(d) ==
    /\ Calling /\ d \in DOMAIN ds /\ used.refs[d] = 1
    /\ ds' = [ds EXCEPT ![d].ref_count = @ + 1]
    /\ used' = [used EXCEPT !.refs[d] = @ + 1]
    /\ UNCHANGED <<dsb, audio, rb, freeing, shutdown>>

dsound_ds_release(d) ==
    IF ds[d].ref_count = 1 THEN Remove1(ds, d) ELSE [ds EXCEPT ![d].ref_count = @ - 1]

\* The guest releases only a reference it holds.
dsound_Release(d) ==
    /\ Calling /\ d \in DOMAIN ds /\ used.refs[d] > 0
    /\ ds' = dsound_ds_release(d)
    /\ used' = [used EXCEPT !.refs[d] = @ - 1]
    /\ UNCHANGED <<dsb, audio, rb, freeing, shutdown>>

-----------------------------------------------------------------------------
(* Buffers.                                                                *)

dsound_apply_format(x, rate) == [x EXCEPT !.format = rate, !.frequency = rate]

dsound_init_buffer_defaults(d, primary) ==
    [ref_count |-> 1, owner |-> d, is_primary |-> primary, format |-> 1, frequency |-> 1,
     volume |-> 0, pan |-> 0, looping |-> FALSE, refused |-> FALSE]

\* init, ok: rb_init() and SDL_OpenAudioDevice succeed.
dsound_ensure_backend(d, init, ok) ==
    IF ds[d].backend_ready \/ ~init
    THEN UNCHANGED <<ds, audio, rb>>
    ELSE rb_audio_open(ok) /\ ds' = [ds EXCEPT ![d].backend_ready = ok]

\* The backend must be ready; the first buffer of an object makes it so.
EnsureBackend(d, init, ok) ==
    /\ Calling /\ d \in DOMAIN ds /\ ~ds[d].backend_ready
    /\ dsound_ensure_backend(d, init, ok)
    /\ UNCHANGED <<dsb, freeing, shutdown, used>>

\* Mutant: the buffer holds no reference to its object
CreateUncounted(d, b, primary, rate) ==
    /\ Calling /\ used.ops < MaxOps
    /\ d \in DOMAIN ds /\ ds[d].backend_ready /\ b \in Unused(SoundBuffers, dsb)
    /\ dsb' = Put(dsb, b, dsound_apply_format(dsound_init_buffer_defaults(d, primary), rate))
    /\ ds' = [ds EXCEPT ![d].buffer_list = <<b>> \o @]
    /\ IF primary THEN UNCHANGED <<audio, rb>> ELSE rb_audio_buffer_create(b, rate)
    /\ used' = [used EXCEPT !.ops = @ + 1]
    /\ UNCHANGED <<freeing, shutdown>>

\* A primary buffer is a format; a secondary one gets a buffer of the mixer.
\* An allocation that fails frees what was made before it and changes nothing.
dsound_buffer_create(d, b, primary, rate) ==
    /\ Calling /\ used.ops < MaxOps
    /\ d \in DOMAIN ds /\ ds[d].backend_ready /\ b \in Unused(SoundBuffers, dsb)
    /\ dsb' = Put(dsb, b, dsound_apply_format(dsound_init_buffer_defaults(d, primary), rate))
    /\ ds' = [ds EXCEPT ![d].ref_count = @ + 1, ![d].buffer_list = <<b>> \o @]
    /\ IF primary THEN UNCHANGED <<audio, rb>> ELSE rb_audio_buffer_create(b, rate)
    /\ used' = [used EXCEPT !.ops = @ + 1]
    /\ UNCHANGED <<freeing, shutdown>>

dsound_unlink_buffer(b) ==
    ds' = [ds EXCEPT ![dsb[b].owner].buffer_list = SelectSeq(@, LAMBDA x : x # b)]

\* Under the device lock.
rb_audio_buffer_destroy(b) ==
    /\ rb' = [rb EXCEPT ![b].playing = FALSE]
    /\ audio' = [audio EXCEPT !.list = SelectSeq(@, LAMBDA x : x # b)]

\* AddRef, and QueryInterface for an interface that the buffer has.
dsound_buffer_AddRef(b) ==
    /\ Calling /\ b \in DOMAIN dsb /\ dsb[b].ref_count = 1
    /\ dsb' = [dsb EXCEPT ![b].ref_count = @ + 1]
    /\ UNCHANGED <<ds, audio, rb, freeing, shutdown, used>>

\* With the last reference the buffer leaves its object's list and, under the device
\* lock, the mixer's.
dsound_buffer_Release(b) ==
    /\ Calling /\ b \in DOMAIN dsb
    /\ dsb' = [dsb EXCEPT ![b].ref_count = @ - 1]
    /\ IF dsb[b].ref_count > 1 THEN UNCHANGED <<ds, rb, audio, freeing>>
       ELSE /\ dsound_unlink_buffer(b)
            /\ IF b \in DOMAIN rb THEN rb_audio_buffer_destroy(b) ELSE UNCHANGED <<rb, audio>>
            /\ freeing' = b
    /\ UNCHANGED <<shutdown, used>>

\* Then both structures are freed and the object loses a reference.
dsound_destroy_buffer ==
    /\ freeing # 0
    /\ rb' = Remove1(rb, freeing)
    /\ ds' = dsound_ds_release(dsb[freeing].owner)
    /\ dsb' = Remove1(dsb, freeing)
    /\ freeing' = 0
    /\ UNCHANGED <<audio, shutdown, used>>

-----------------------------------------------------------------------------
(* Playback and controls.                                                  *)

dsound_buffer_Play(b, loop) ==
    /\ Calling /\ Secondary(b)
    /\ dsb' = [dsb EXCEPT ![b].looping = loop]
    /\ rb' = [rb EXCEPT ![b] = rb_audio_buffer_play(@, loop)]
    /\ UNCHANGED <<ds, audio, freeing, shutdown, used>>

dsound_buffer_Stop(b) ==
    /\ Calling /\ Secondary(b)
    /\ dsb' = [dsb EXCEPT ![b].looping = FALSE]
    /\ rb' = [rb EXCEPT ![b] = rb_audio_buffer_stop(@)]
    /\ UNCHANGED <<ds, audio, freeing, shutdown, used>>

dsound_buffer_GetStatus(b) ==
    /\ Calling /\ Secondary(b) /\ ~shutdown
    /\ rb' = [rb EXCEPT ![b] = rb_audio_buffer_is_playing(@)]
    /\ UNCHANGED <<ds, dsb, audio, freeing, shutdown, used>>

dsound_buffer_SetCurrentPosition(b, frame) ==
    /\ Calling /\ Secondary(b) /\ Sets
    /\ rb' = [rb EXCEPT ![b] = rb_audio_buffer_set_position(@, frame)]
    /\ UNCHANGED <<ds, dsb, audio, freeing, shutdown>>

SetControl(b, control, value) ==
    /\ Calling /\ b \in DOMAIN dsb /\ Sets
    /\ dsb' = [dsb EXCEPT ![b][control] = value, ![b].refused = @ /\ control # "frequency"]
    /\ rb' = IF Secondary(b) THEN [rb EXCEPT ![b][control] = value] ELSE rb
    /\ UNCHANGED <<ds, audio, freeing, shutdown>>
dsound_buffer_SetVolume(b, v) == SetControl(b, "volume", v)
dsound_buffer_SetPan(b, p) == SetControl(b, "pan", p)

\* 0 is DSBFREQUENCY_ORIGINAL.
dsound_resolve_frequency(b, f) == IF f = 0 THEN dsb[b].format ELSE f
dsound_buffer_SetFrequency(b, f) ==
    b \in DOMAIN dsb /\ SetControl(b, "frequency", dsound_resolve_frequency(b, f))

\* On a primary buffer the device is opened anew; on a secondary one only the
\* rate may change (fits).  A refused format is put back, and with it the
\* frequency of that format, whatever SetFrequency had set (refused).
dsound_buffer_SetFormat(b, rate, fits, ok) ==
    /\ Calling /\ b \in DOMAIN dsb /\ Sets
    /\ IF dsb[b].is_primary
       THEN /\ rb_audio_open(ok)
            /\ dsb' = [dsb EXCEPT ![b] = dsound_apply_format(@, IF ok THEN rate ELSE @.format)]
            /\ ds' = IF ok THEN [ds EXCEPT ![dsb[b].owner].primary_format = rate] ELSE ds
       ELSE /\ IF fits
               THEN /\ dsb' = [dsb EXCEPT ![b] = [dsound_apply_format(@, rate) EXCEPT !.refused = FALSE]]
                    /\ rb' = [rb EXCEPT ![b].frequency = rate]
               ELSE /\ dsb' = [dsb EXCEPT ![b].frequency = dsb[b].format, ![b].refused = TRUE]
                    /\ UNCHANGED rb
            /\ UNCHANGED <<ds, audio>>
    /\ UNCHANGED <<freeing, shutdown>>

\* The parts of a buffer of size bytes that Lock gives out; the sum is a DWORD,
\* below width.
dsound_buffer_Lock(cursor, bytes, size, width) ==
    LET off == cursor % size IN
    IF (off + bytes) % width <= size THEN <<rb_audio_buffer_lock(off, bytes, size)>>
    ELSE <<rb_audio_buffer_lock(off, size - off, size),
           rb_audio_buffer_lock(0, bytes - (size - off), size)>>

\* SIGINT or SIGTERM.
RequestShutdown == ~shutdown /\ shutdown' = TRUE /\ UNCHANGED <<ds, dsb, audio, rb, freeing, used>>

SoundNext ==
    \/ rb_audio_callback
    \/ \E d \in DSObjects :
         \/ DirectSoundCreate(d) \/ dsound_AddRef(d) \/ dsound_Release(d)
         \/ \E init, ok \in BOOLEAN : EnsureBackend(d, init, ok)
         \/ \E b \in SoundBuffers, primary \in BOOLEAN, r \in Rates :
              dsound_buffer_create(d, b, primary, r)
    \/ \E b \in SoundBuffers :
         \/ dsound_buffer_AddRef(b) \/ dsound_buffer_Release(b) \/ dsound_buffer_Stop(b) \/ dsound_buffer_GetStatus(b)
         \/ \E loop \in BOOLEAN : dsound_buffer_Play(b, loop)
         \/ \E f \in 0..Frames + 1 : dsound_buffer_SetCurrentPosition(b, f)
         \/ \E v \in Levels : dsound_buffer_SetVolume(b, v) \/ dsound_buffer_SetPan(b, v)
         \/ \E f \in Rates \cup {0} : dsound_buffer_SetFrequency(b, f)
         \/ \E r \in Rates, fits, ok \in BOOLEAN : dsound_buffer_SetFormat(b, r, fits, ok)
    \/ dsound_destroy_buffer \/ RequestShutdown

\* SDL keeps calling back while the device is open.
SoundFairness == WF_svars(rb_audio_callback)
SoundSpec == SoundInit /\ [][SoundNext]_svars /\ SoundFairness

-----------------------------------------------------------------------------
(* Properties.                                                             *)

SoundTypeOK ==
    /\ DOMAIN ds \subseteq DSObjects /\ DOMAIN dsb \subseteq SoundBuffers
    /\ audio.opened \in BOOLEAN /\ audio.sample_rate \in Rates
    /\ \A b \in DOMAIN rb : rb[b].frequency \in Rates /\ rb[b].cursor \in Nat
    /\ \A b \in DOMAIN dsb : dsb[b].frequency \in Rates /\ dsb[b].format \in Rates

\* The object a buffer belongs to outlives it: an object counts a reference for
\* each of its buffers and each the guest holds, and is freed with the last.
OwnersOutlive ==
    /\ \A b \in DOMAIN dsb : dsb[b].owner \in DOMAIN ds
    /\ \A d \in DOMAIN ds :
         ds[d].ref_count = used.refs[d] + Cardinality({b \in DOMAIN dsb : dsb[b].owner = d})
    /\ \A d \in DOMAIN ds : ToSet(ds[d].buffer_list) =
         {b \in DOMAIN dsb : dsb[b].owner = d} \ {freeing}

\* The mixer's list holds each allocated buffer once and no freed one, at every
\* moment at which the callback can run; a buffer being freed is already off it.
ListedAlive ==
    /\ ToSet(audio.list) = DOMAIN rb \ {freeing}
    /\ \A b \in DOMAIN dsb : dsb[b].ref_count = 0 <=> b = freeing
    /\ Len(audio.list) = Cardinality(ToSet(audio.list))
    /\ DOMAIN rb = {b \in DOMAIN dsb : ~dsb[b].is_primary}

\* What the Get calls of a buffer answer is what the mixer uses: volume, pan,
\* frequency, and looping while it plays.  Excepted is the frequency after
\* SetFormat has refused a format.
ControlsAgree ==
    \A b \in DOMAIN rb \ {freeing} :
        /\ rb[b].volume = dsb[b].volume /\ rb[b].pan = dsb[b].pan
        /\ dsb[b].refused \/ rb[b].frequency = dsb[b].frequency
        /\ rb[b].playing => rb[b].loop = dsb[b].looping

\* The callback moves a looping buffer by exactly the frames it gives out, also
\* across the end, and never moves one that does not loop past the end by more
\* than the step it had begun.
CursorMoves ==
    [][rb_audio_callback =>
        \A b \in {x \in DOMAIN rb : rb[x].playing /\ ~shutdown} :
            LET step == rb_audio_step_fp(rb[b]) IN
            IF rb[b].loop
            THEN rb'[b].playing /\ rb'[b].cursor % End = (rb[b].cursor + OutFrames * step) % End
            ELSE rb'[b].cursor = End \/ rb'[b].cursor = rb[b].cursor + OutFrames * step
      ]_svars

\* No cursor, however positions, frequencies and devices change, is further past
\* the end of its buffer than one step of the fastest frequency.
CursorBounded == \A b \in DOMAIN rb : rb[b].cursor < End + FP * Max(Rates)

\* An object that believes the backend ready finds the device open, unless the
\* last attempt to open it, by this object or by another, failed.
ReadyMeansOpen == (\E d \in DOMAIN ds : ds[d].backend_ready) => audio.opened \/ audio.failed

\* The parts of a Lock lie inside the buffer, and together have the length asked
\* for when that is no more than the buffer's.
LockInside ==
    \A size \in 1..4, cursor, bytes \in 0..7 : bytes > 0 =>
        LET parts == dsound_buffer_Lock(cursor, bytes, size, 8) IN
        /\ \A i \in DOMAIN parts : parts[i].at + parts[i].len <= size
        /\ bytes <= size => FoldLeft(LAMBDA a, p : a + p.len, 0, parts) = bytes
        /\ bytes <= size /\ Len(parts) = 2 => parts[2].len <= parts[1].at

\* A call of Play starts a playback that the next callback gives frames of, unless
\* the buffer was playing and has reached its end: until a callback or GetStatus has
\* noticed that, Play leaves the cursor there, and the next callback stops the buffer
\* without a frame.
PlayStarts ==
    [][\A b \in SoundBuffers, loop \in BOOLEAN :
        dsound_buffer_Play(b, loop) =>
            rb'[b].playing /\ (loop \/ rb'[b].cursor < End \/ (rb[b].playing /\ rb[b].cursor >= End))]_svars

\* A buffer that does not loop stops in the end, while there is a device.
StopsInTheEnd ==
    \A b \in SoundBuffers :
        (b \in DOMAIN rb /\ audio.opened /\ (b \in DOMAIN rb => rb[b].playing /\ ~rb[b].loop))
            ~> (b \in DOMAIN rb => ~rb[b].playing \/ rb[b].loop \/ ~audio.opened)

\* DirectSound objects, their buffers and the mixer's, between any calls of the
\* guest and any callback of the device: owners outlive their buffers, the list
\* the callback walks holds living ones, both sides agree on the controls, and no
\* position or locked part lies outside a buffer.
SoundConsistent ==
    /\ SoundTypeOK /\ OwnersOutlive /\ ListedAlive /\ ControlsAgree
    /\ CursorBounded /\ ReadyMeansOpen /\ LockInside

\* Playing: a buffer that is started gives frames (but for one that is played again
\* before its end was noticed), is moved by what it gives, and stops at its end when
\* it does not loop (rb_audio_buffer_play, rb_audio_mix_buffer).
PlaybackEnds == PlayStarts /\ CursorMoves /\ StopsInTheEnd
=============================================================================
