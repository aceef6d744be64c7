------------------------------- MODULE MCMedia -------------------------------
(***************************************************************************)
(* Model-checking instance for sound, music and pictures: DirectSound, the *)
(* MIDI stream and DirectDraw.  They share no state, so each behaviour     *)
(* follows one of them, which `half` names.  DirectDraw is explored twice: *)
(* all of its calls, up to ObjectCalls of them, and the calls that make,   *)
(* draw on and flip a chain, up to MaxDraw.                                *)
(***************************************************************************)
EXTENDS DirectSound, MidiStream, DirectDraw

CONSTANT ObjectCalls

Entry(k, d) == [kind |-> k, delta |-> d]
MCBuffers == {<<Entry("short", 0), Entry("comment", 0), Entry("short", 0)>>,
              <<Entry("nop", 1), Entry("tempo", 0), Entry("cut", 0)>>}

\* A plain surface takes a buffer before the chain, or a handle after it.
Drawing ==
    \/ \E d \in DDs :
          \/ DirectDrawCreate(d) \/ ddraw_Release(d) \/ ddraw_SetCooperativeLevel(d, "window")
          \/ \E kind \in {"flip1", "plain"} : ddraw_CreateSurface(d, kind, 0, TRUE)
    \/ \E s \in Surfaces :
          \/ surface_Release(s) \/ surface_Lock(s) \/ surface_Unlock(s) \/ surface_GetAttachedSurface(s)
          \/ \E shown \in BOOLEAN : surface_Flip(s, shown)
          \/ \E colour \in Ink : GuestWrites(s, colour) \/ surface_Blt(s, 0, colour)
          \/ \E t \in Surfaces : surface_Blt(s, t, 0)
    \/ DestroyWindow

VARIABLE half

MCInit ==
    /\ half \in {"sound", "midi", "objects", "drawing"}
    /\ SoundInit /\ MidiInit /\ DrawInit /\ (half # "midi" => host = "ok")
MCNext ==
    \/ half = "sound" /\ SoundNext /\ UNCHANGED <<half, mvars, dvars>>
    \/ half = "midi" /\ MidiNext /\ UNCHANGED <<half, svars, dvars>>
    \/ half = "objects" /\ DrawNext /\ client'.ops <= ObjectCalls /\ UNCHANGED <<half, svars, mvars>>
    \/ half = "drawing" /\ Drawing /\ UNCHANGED <<half, svars, mvars>>
MCSpec == MCInit /\ [][MCNext]_<<half, svars, mvars, dvars>> /\ SoundFairness /\ MidiFairness
==============================================================================
