--------------------------------- MODULE Media ---------------------------------
(***************************************************************************)
(* What the scripts present through the resource manager - images drawn,   *)
(* sounds played (extensions/image.rs, audio.rs, scene.rs) - and the       *)
(* checkpoints of it (Runtime::save_checkpoint, load_checkpoint).          *)
(*                                                                         *)
(* Everything runs on the host's thread and a host call is one step.  A    *)
(* script may pass any handle, and any number for one.  The audio backend  *)
(* is behind a trait: play, pause, seek and volume may fail; stop, release *)
(* and clear do not fail in the backends there are.                        *)
(***************************************************************************)
EXTENDS Resources

CONSTANTS
    Slot,       \* bound of the model: checkpoint slots
    Programs    \* sets of the groups of calls that some program makes

ASSUME ProgramsAssumption ==
    Programs \subseteq SUBSET {"image", "audio", "archive", "retain"}

VARIABLES
    calls,        \* the groups of calls this program and its host make
    draws,        \* image_draws; their order and geometry left out
    audio,        \* audio_states: handle -> resource and playing
    sessions,     \* handles the backend plays
    scriptHeld,   \* handles the scripts were given, with their resources
    checkpoints   \* slot -> checkpoint

mediaVars == <<draws, audio, sessions>>
heldVars  == <<calls, scriptHeld>>
vars      == <<resourceVars, mediaVars, heldVars, checkpoints>>

NoResource == 0     \* of a default AudioPlaybackState

Put(f, k, v) == [x \in DOMAIN f \cup {k} |-> IF x = k THEN v ELSE f[x]]
Drop(f, k)   == [x \in DOMAIN f \ {k} |-> f[x]]

MediaInit ==
    /\ ResourcesInit
    /\ calls \in Programs
    /\ "archive" \notin calls => catalog = {}
    /\ draws = {} /\ audio = [h \in {} |-> [resource |-> NoResource, playing |-> FALSE]]
    /\ sessions = {} /\ scriptHeld = {}
    /\ checkpoints = [s \in {} |-> {}]

\* The handle a load of r returns.
Given(r) == {<<Allocated(handles), r>>}

(***************************************************************************)
(* The host.                                                               *)
(***************************************************************************)

HostRegister(r) == RegisterReady(r) /\ UNCHANGED <<mediaVars, heldVars, checkpoints>>

HostComplete(q) == CompleteRequest(q) /\ UNCHANGED <<mediaVars, heldVars, checkpoints>>

HostRetain(h) ==
    /\ "retain" \in calls
    /\ Retain(h)
    /\ UNCHANGED <<mediaVars, heldVars, checkpoints>>

(***************************************************************************)
(* ext.image and ext.scene.                                                *)
(***************************************************************************)

\* image.load, and the load of the others where it has to wait; of an unknown
\* id, an error and no step.
Load(r) ==
    /\ \/ LoadReady(r) /\ scriptHeld' = scriptHeld \cup Given(r)
       \/ LoadPending(r) /\ UNCHANGED scriptHeld
    /\ UNCHANGED <<calls, mediaVars, checkpoints>>

ImageDraw(h) ==
    /\ "image" \in calls
    /\ Resolves(handles, h)
    /\ draws' = draws \cup {[handle |-> h, resource |-> handles[h].resource, back |-> FALSE]}
    /\ UNCHANGED <<resourceVars, audio, sessions, heldVars, checkpoints>>

\* scene.background: a load and a draw that replaces the background.  The
\* handle is given to nobody, and none of the earlier ones is released.
Background(r) ==
    /\ "image" \in calls
    /\ LoadReady(r)
    /\ draws' = {d \in draws : ~d.back}
                    \cup {[handle |-> Allocated(handles), resource |-> r, back |-> TRUE]}
    /\ UNCHANGED <<audio, sessions, heldVars, checkpoints>>

\* Forgets the draws of the handle before it finds out whether it resolves.
ImageRelease(h) ==
    /\ draws' = {d \in draws : d.handle # h}
    /\ Release(h)
    /\ UNCHANGED <<audio, sessions, heldVars, checkpoints>>

(***************************************************************************)
(* ext.audio.                                                              *)
(***************************************************************************)

Stopped(r) == [resource |-> r, playing |-> FALSE]

AudioLoad(r) ==
    /\ "audio" \in calls
    /\ LoadReady(r)
    /\ audio' = Put(audio, Allocated(handles), Stopped(r))
    /\ scriptHeld' = scriptHeld \cup Given(r)
    /\ UNCHANGED <<calls, draws, sessions, checkpoints>>

\* Play and playback.  The payload is looked up by the handle; a backend that
\* fails leaves the state that was created for it, and may end the session.
AudioPlay(h) ==
    /\ "audio" \in calls
    /\ Resolves(handles, h)
    /\ LET r == handles[h].resource IN
       /\ entries[r] = "Ready"
       /\ \/ /\ audio' = Put(audio, h, [resource |-> r, playing |-> TRUE])
             /\ sessions' = sessions \cup {h}
          \/ /\ audio' = IF h \in DOMAIN audio THEN audio ELSE Put(audio, h, Stopped(r))
             /\ sessions' \in {sessions, sessions \ {h}}
    /\ UNCHANGED <<resourceVars, draws, heldVars, checkpoints>>

\* Pause, where it does not fail, and stop.
AudioPause(h) ==
    /\ "audio" \in calls
    /\ audio' = IF h \in DOMAIN audio THEN [audio EXCEPT ![h].playing = FALSE] ELSE audio
    /\ sessions' = sessions \ {h}
    /\ UNCHANGED <<resourceVars, draws, heldVars, checkpoints>>

\* Seek and volume, which create a default state for whatever handle.
AudioAdjust(h) ==
    /\ "audio" \in calls
    /\ audio' = IF h \in DOMAIN audio THEN audio ELSE Put(audio, h, Stopped(NoResource))
    /\ UNCHANGED <<resourceVars, draws, sessions, heldVars, checkpoints>>

AudioRelease(h) ==
    /\ "audio" \in calls
    /\ sessions' = sessions \ {h}
    /\ audio' = Drop(audio, h)
    /\ Release(h)
    /\ UNCHANGED <<draws, heldVars, checkpoints>>

\* A sound comes to its end, or its player dies: nobody tells the runtime.
SoundEnds(h) ==
    /\ h \in sessions
    /\ sessions' = sessions \ {h}
    /\ UNCHANGED <<resourceVars, draws, audio, heldVars, checkpoints>>

(***************************************************************************)
(* Checkpoints.  The scripts' handles are in the scheduler's snapshot.     *)
(***************************************************************************)

Checkpoint == [catalog |-> catalog, entries |-> entries, requests |-> requests,
               handles |-> handles, draws |-> draws, audio |-> audio,
               scriptHeld |-> scriptHeld]

SaveCheckpoint(s) ==
    /\ checkpoints' = Put(checkpoints, s, Checkpoint)
    /\ UNCHANGED <<resourceVars, mediaVars, heldVars>>

Playing(states) == {h \in DOMAIN states : states[h].playing}

\* The scheduler, and with it what the scripts hold, is not restored.
Restore__KeepsScripts(c) ==
    /\ catalog' = c.catalog /\ entries' = c.entries
    /\ requests' = c.requests /\ handles' = c.handles
    /\ draws' = c.draws /\ audio' = c.audio
    /\ UNCHANGED scriptHeld

\* The draws are not restored.
Restore__KeepsDraws(c) ==
    /\ catalog' = c.catalog /\ entries' = c.entries
    /\ requests' = c.requests /\ handles' = c.handles
    /\ audio' = c.audio /\ scriptHeld' = c.scriptHeld
    /\ UNCHANGED draws

\* The audio states are not restored.
Restore__KeepsAudio(c) ==
    /\ catalog' = c.catalog /\ entries' = c.entries
    /\ requests' = c.requests /\ handles' = c.handles
    /\ draws' = c.draws /\ scriptHeld' = c.scriptHeld
    /\ UNCHANGED audio

Restore(c) ==
    /\ catalog' = c.catalog /\ entries' = c.entries
    /\ requests' = c.requests /\ handles' = c.handles
    /\ draws' = c.draws /\ audio' = c.audio
    /\ scriptHeld' = c.scriptHeld

\* Replays what was playing without silencing what plays.
Replay__NoClear(states) ==
    \E n \in 0..MaxHandles :
        sessions' = sessions \cup {h \in Playing(states) : h <= n}

\* The backend is cleared and what was playing is replayed in handle order; a
\* play that fails ends the replay, with everything else restored.
Replay(states) ==
    \E n \in 0..MaxHandles : sessions' = {h \in Playing(states) : h <= n}

LoadCheckpoint(s) ==
    /\ s \in DOMAIN checkpoints
    /\ Restore(checkpoints[s])
    /\ Replay(checkpoints[s].audio)
    /\ UNCHANGED <<calls, checkpoints>>

\* Runtime::shutdown silences the backend; the states stay.
Shutdown ==
    /\ sessions' = {}
    /\ UNCHANGED <<resourceVars, draws, audio, heldVars, checkpoints>>

----------------------------------------------------------------------------

MediaNext ==
    \/ \E r \in ResourceId : HostRegister(r)
    \/ \E q \in 1..MaxRequests : HostComplete(q)
    \/ \E h \in HandleId : HostRetain(h)
    \/ \E r \in ResourceId : Load(r) \/ Background(r) \/ AudioLoad(r)
    \/ \E h \in HandleId : ImageDraw(h) \/ ImageRelease(h)
    \/ \E h \in HandleId : AudioPlay(h) \/ AudioPause(h) \/ AudioAdjust(h) \/ AudioRelease(h)
    \/ \E h \in HandleId : SoundEnds(h)
    \/ \E s \in Slot : SaveCheckpoint(s) \/ LoadCheckpoint(s)
    \/ Shutdown

MediaSpec == MediaInit /\ [][MediaNext]_vars

Held(table, held) ==
    \A p \in held : Resolves(table, p[1]) => table[p[1]].resource = p[2]

\* A raw handle in a script's variables names the resource it was given for,
\* or no resource any more, and a draw shows the resource its handle was issued
\* for: never another one - not after releases, and not after a checkpoint
\* took the table back and the index was issued again.
RawHandlesSafe ==
    /\ Held(handles, scriptHeld)
    /\ \A d \in draws : d.handle \in 1..Len(handles) /\ handles[d.handle].resource = d.resource

Playable(states, es) ==
    \A h \in Playing(states) :
        states[h].resource \in ResourceId /\ es[states[h].resource] = "Ready"

\* What is marked as playing has its payload, now and in every checkpoint: the
\* replay of a checkpoint never misses one.
PlayingHasPayload ==
    /\ Playable(audio, entries)
    /\ \A s \in DOMAIN checkpoints : Playable(checkpoints[s].audio, checkpoints[s].entries)

\* The backend never plays what the runtime does not know to be playing - a
\* sound that no script could stop by looking at its state.
NoOrphanSound == sessions \subseteq Playing(audio)

=============================================================================
