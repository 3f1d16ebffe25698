------------------------------ MODULE MediaProofs ------------------------------
(***************************************************************************)
(* What the safety of handles, sounds and load requests rests on, for any  *)
(* resources, any number of handles, requests and checkpoints, and any     *)
(* program.                                                                *)
(*                                                                         *)
(* A checkpoint may be taken and restored at any moment, so what holds of  *)
(* the live state has to hold of every checkpoint too: the inductive       *)
(* invariant says one thing, Consistent, of both.                          *)
(***************************************************************************)
EXTENDS Media, SequenceTheorems, TLAPS

EntryState == {"Unloaded", "Loading", "Ready"}
Request    == [resource : ResourceId, done : BOOLEAN, handle : Nat]
Handle     == [resource : ResourceId, generation : Nat, refs : Int, alive : BOOLEAN]
PlayState  == [resource : ResourceId \cup {NoResource}, playing : BOOLEAN]

\* A resource that is loading has an open request.
Requested(es, rs) ==
    \A r \in ResourceId : es[r] = "Loading" =>
        \E q \in 1..Len(rs) : rs[q].resource = r /\ ~rs[q].done

ManagerOK(es, rs, hs) ==
    /\ es \in [ResourceId -> EntryState]
    /\ rs \in Seq(Request) /\ hs \in Seq(Handle)
    /\ Requested(es, rs)

\* A handle once issued keeps its resource, dead or alive.
Issued(hs, h, r) == h \in 1..Len(hs) /\ hs[h].resource = r

HeldOK(hs, held) == \A p \in held : Issued(hs, p[1], p[2])
DrawsOK(hs, ds)  == \A d \in ds : Issued(hs, d.handle, d.resource)

\* What is marked as playing has a handle the table issued, and its payload.
AudioOK(hs, es, au) ==
    /\ au \in [DOMAIN au -> PlayState]
    /\ Playing(au) \subseteq 1..Len(hs)
    /\ Playable(au, es)

Consistent(es, rs, hs, ds, au, held) ==
    /\ ManagerOK(es, rs, hs)
    /\ HeldOK(hs, held) /\ DrawsOK(hs, ds)
    /\ AudioOK(hs, es, au)

Live == Consistent(entries, requests, handles, draws, audio, scriptHeld)

Saved(c) == Consistent(c.entries, c.requests, c.handles, c.draws, c.audio,
                       c.scriptHeld)

MediaInv ==
    /\ Live
    /\ \A s \in DOMAIN checkpoints : Saved(checkpoints[s])
    /\ NoOrphanSound

(***************************************************************************)
(* The table of handles.                                                   *)
(***************************************************************************)

\* ks has the handles of hs, with their resources, and perhaps more.
Grows(hs, ks) ==
    /\ ks \in Seq(Handle)
    /\ Len(hs) <= Len(ks)
    /\ \A i \in 1..Len(hs) : ks[i].resource = hs[i].resource

LEMMA AllocateGrows ==
    ASSUME handles \in Seq(Handle), NEW r \in ResourceId, Allocate(r)
    PROVE  /\ Grows(handles, handles')
           /\ Issued(handles', Allocated(handles), r)
<1> DEFINE n == Len(handles)
<1>1. n \in Nat /\ 1..n \cup {n + 1} = 1..(n + 1)
  OBVIOUS
<1>2. handles' = [i \in 1..(n + 1) |-> IF i = n + 1 THEN NewHandle(r) ELSE handles[i]]
  BY <1>1 DEF Allocate, Allocated
<1>3. NewHandle(r) \in Handle /\ NewHandle(r).resource = r
  BY DEF NewHandle, Handle
<1>4. \A i \in 1..(n + 1) : i # n + 1 => handles[i] \in Handle
  OBVIOUS
<1>5. handles' \in Seq(Handle) /\ Len(handles') = n + 1
  <2>1. handles' \in [1..(n + 1) -> Handle]
    BY <1>2, <1>3, <1>4
  <2>2. n + 1 \in Nat
    BY <1>1
  <2>3. QED BY <2>1, <2>2
<1>6. \A i \in 1..n : handles'[i] = handles[i]
  BY <1>1, <1>2
<1>7. handles'[n + 1].resource = r
  BY <1>1, <1>2, <1>3
<1>8. QED BY <1>1, <1>5, <1>6, <1>7 DEF Grows, Issued, Allocated

LEMMA ReplaceGrows ==
    ASSUME NEW hs \in Seq(Handle), NEW h \in 1..Len(hs),
           NEW k \in Handle, k.resource = hs[h].resource
    PROVE  Grows(hs, [hs EXCEPT ![h] = k])
BY ExceptSeq DEF Grows

\* Handles whose references, life or generation change.
LEMMA RefsField ==
    ASSUME NEW x \in Handle, NEW n \in Int
    PROVE  [x EXCEPT !.refs = n] \in Handle /\ [x EXCEPT !.refs = n].resource = x.resource
BY DEF Handle

LEMMA AliveField ==
    ASSUME NEW x \in Handle, NEW b \in BOOLEAN
    PROVE  [x EXCEPT !.alive = b] \in Handle /\ [x EXCEPT !.alive = b].resource = x.resource
BY DEF Handle

LEMMA GenerationField ==
    ASSUME NEW x \in Handle, NEW g \in Nat
    PROVE  /\ [x EXCEPT !.generation = g] \in Handle
           /\ [x EXCEPT !.generation = g].resource = x.resource
BY DEF Handle

LEMMA ThreeFields ==
    ASSUME NEW x, NEW n, NEW b, NEW g
    PROVE  [x EXCEPT !.refs = n, !.alive = b, !.generation = g]
             = [[[x EXCEPT !.refs = n] EXCEPT !.alive = b] EXCEPT !.generation = g]
OBVIOUS

LEMMA DeadHandle ==
    ASSUME NEW x \in Handle, NEW g \in Nat
    PROVE  /\ [x EXCEPT !.refs = 0, !.alive = FALSE, !.generation = g] \in Handle
           /\ [x EXCEPT !.refs = 0, !.alive = FALSE,
                        !.generation = g].resource = x.resource
<1> DEFINE y == [x EXCEPT !.refs = 0]
           z == [y EXCEPT !.alive = FALSE]
<1>1. y \in Handle /\ y.resource = x.resource
  BY RefsField
<1>2. z \in Handle /\ z.resource = x.resource
  <2> HIDE DEF y
  <2>1. QED BY <1>1, AliveField
<1>3. [x EXCEPT !.refs = 0, !.alive = FALSE, !.generation = g]
        = [z EXCEPT !.generation = g]
  BY ThreeFields
<1>4. QED
  <2> HIDE DEF z
  <2>1. QED BY <1>2, <1>3, GenerationField

LEMMA RetainGrows ==
    ASSUME handles \in Seq(Handle), NEW h, Retain(h)
    PROVE  Grows(handles, handles')
<1> DEFINE k == [handles[h] EXCEPT !.refs = @ + 1]
<1>1. h \in 1..Len(handles) /\ handles' = [handles EXCEPT ![h] = k]
  BY DEF Retain, Resolves
<1>2. handles[h] \in Handle
  BY <1>1
<1>3. k \in Handle /\ k.resource = handles[h].resource
  <2>1. handles[h].refs + 1 \in Int
    BY <1>2 DEF Handle
  <2>2. QED BY <1>2, <2>1, RefsField
<1> HIDE DEF k
<1>4. QED BY <1>1, <1>3, ReplaceGrows

LEMMA ReleaseGrows ==
    ASSUME handles \in Seq(Handle), NEW h, Release(h)
    PROVE  Grows(handles, handles')
<1>1. CASE ~Resolves(handles, h)
  BY <1>1 DEF Release, Grows
<1>2. CASE Resolves(handles, h)
  <2> DEFINE dead == [handles[h] EXCEPT !.refs = 0, !.alive = FALSE,
                                        !.generation = @ + 1]
             less == [handles[h] EXCEPT !.refs = @ - 1]
  <2>1. h \in 1..Len(handles) /\ handles[h] \in Handle
    BY <1>2 DEF Resolves
  <2>2. \/ handles' = [handles EXCEPT ![h] = dead]
        \/ handles' = [handles EXCEPT ![h] = less]
    BY <1>2, <2>1 DEF Release, Released
  <2>3. dead \in Handle /\ dead.resource = handles[h].resource
    <3>1. handles[h].generation + 1 \in Nat
      BY <2>1 DEF Handle
    <3>2. QED BY <2>1, <3>1, DeadHandle
  <2>4. less \in Handle /\ less.resource = handles[h].resource
    <3>1. handles[h].refs - 1 \in Int
      BY <2>1 DEF Handle
    <3>2. QED BY <2>1, <3>1, RefsField
  <2> HIDE DEF dead, less
  <2>5. QED BY <2>1, <2>2, <2>3, <2>4, ReplaceGrows
<1>3. QED BY <1>1, <1>2

\* What the scripts hold and the screen shows stays valid when the table grows.
LEMMA StillIssued ==
    ASSUME NEW hs \in Seq(Handle), NEW ks, Grows(hs, ks)
    PROVE  /\ \A h, r : Issued(hs, h, r) => Issued(ks, h, r)
           /\ \A held : HeldOK(hs, held) => HeldOK(ks, held)
           /\ \A ds : DrawsOK(hs, ds) => DrawsOK(ks, ds)
           /\ \A es, au : AudioOK(hs, es, au) => AudioOK(ks, es, au)
<1>1. \A h \in 1..Len(hs) : h \in 1..Len(ks) /\ ks[h].resource = hs[h].resource
  BY DEF Grows
<1>2. \A h, r : Issued(hs, h, r) => Issued(ks, h, r)
  BY <1>1 DEF Issued
<1>3. QED BY <1>1, <1>2 DEF HeldOK, DrawsOK, AudioOK

(***************************************************************************)
(* The manager.                                                            *)
(***************************************************************************)

\* Only LoadPending takes a resource away from what is ready, and it does so to
\* none that was.
KeepsReady == \A r \in ResourceId : entries[r] = "Ready" => entries'[r] = "Ready"

LEMMA ReadyManager ==
    ASSUME ManagerOK(entries, requests, handles), NEW r \in ResourceId,
           RegisterReady(r) \/ LoadReady(r)
    PROVE  /\ ManagerOK(entries', requests', handles') /\ KeepsReady
           /\ Grows(handles, handles') /\ Issued(handles', Allocated(handles), r)
<1>1. Allocate(r) /\ requests' = requests
  BY DEF RegisterReady, LoadReady
<1>2. Grows(handles, handles') /\ Issued(handles', Allocated(handles), r)
  BY <1>1, AllocateGrows DEF ManagerOK
<1>3. /\ entries' \in [ResourceId -> EntryState] /\ KeepsReady
      /\ \A x \in ResourceId : entries'[x] = "Loading" => entries[x] = "Loading"
  BY DEF RegisterReady, LoadReady, ManagerOK, EntryState, KeepsReady
<1>4. QED BY <1>1, <1>2, <1>3 DEF ManagerOK, Requested, Grows

LEMMA PendingManager ==
    ASSUME ManagerOK(entries, requests, handles), NEW r \in ResourceId,
           LoadPending(r)
    PROVE  /\ ManagerOK(entries', requests', handles') /\ KeepsReady
           /\ handles' = handles
<1> DEFINE q == [resource |-> r, done |-> FALSE, handle |-> NoHandle]
<1>1. /\ requests' = Append(requests, q)
      /\ entries' = [entries EXCEPT ![r] = "Loading"] /\ handles' = handles
      /\ entries[r] # "Ready"
  BY DEF LoadPending
<1>2. q \in Request /\ q.resource = r /\ ~q.done
  BY DEF Request, NoHandle
<1>3. /\ entries' \in [ResourceId -> EntryState] /\ KeepsReady
      /\ \A x \in ResourceId : x # r => entries'[x] = entries[x]
  BY <1>1 DEF ManagerOK, EntryState, KeepsReady
<1> HIDE DEF q
<1>4. /\ requests' \in Seq(Request) /\ Len(requests') = Len(requests) + 1
      /\ requests'[Len(requests) + 1] = q
      /\ \A i \in 1..Len(requests) : requests'[i] = requests[i]
      /\ Len(requests) \in Nat
  BY <1>1, <1>2, AppendProperties DEF ManagerOK
<1>5. ASSUME NEW x \in ResourceId, entries'[x] = "Loading"
      PROVE  \E i \in 1..Len(requests') : requests'[i].resource = x /\ ~requests'[i].done
  <2>1. CASE x = r
    <3>1. Len(requests) + 1 \in 1..Len(requests')
      BY <1>4
    <3>2. QED BY <1>2, <1>4, <2>1, <3>1
  <2>2. CASE x # r
    <3>1. PICK i \in 1..Len(requests) : requests[i].resource = x /\ ~requests[i].done
      BY <1>3, <1>5, <2>2 DEF ManagerOK, Requested
    <3>2. i \in 1..Len(requests')
      BY <1>4
    <3>3. QED BY <1>4, <3>1, <3>2
  <2>3. QED BY <2>1, <2>2
<1>6. QED BY <1>1, <1>3, <1>4, <1>5 DEF ManagerOK, Requested

\* A completion ends the wait of its resource, whatever else was asked for it.
LEMMA CompleteManager ==
    ASSUME ManagerOK(entries, requests, handles), NEW q, CompleteRequest(q)
    PROVE  /\ ManagerOK(entries', requests', handles') /\ KeepsReady
           /\ Grows(handles, handles')
<1> DEFINE d == [requests[q] EXCEPT !.done = TRUE, !.handle = Allocated(handles)]
           r == requests[q].resource
<1>1. /\ q \in 1..Len(requests) /\ requests' = [requests EXCEPT ![q] = d]
      /\ entries' = [entries EXCEPT ![r] = "Ready"] /\ Allocate(r)
  BY DEF CompleteRequest
<1>2. requests \in Seq(Request) /\ requests[q] \in Request /\ r \in ResourceId
  <2>1. requests \in Seq(Request) /\ requests[q] \in Request
    BY <1>1, ElementOfSeq DEF ManagerOK
  <2>2. QED BY <2>1 DEF Request
<1>3. Grows(handles, handles')
  BY <1>1, <1>2, AllocateGrows DEF ManagerOK
<1>4. d \in Request /\ d.resource = r
  <2>1. Allocated(handles) \in Nat
    BY DEF ManagerOK, Allocated
  <2>2. QED BY <1>2, <2>1 DEF Request
<1>5. /\ entries' \in [ResourceId -> EntryState] /\ KeepsReady
      /\ entries'[r] = "Ready"
      /\ \A x \in ResourceId : x # r => entries'[x] = entries[x]
  BY <1>1, <1>2 DEF ManagerOK, EntryState, KeepsReady
<1> HIDE DEF d
<1>6. /\ requests' \in Seq(Request) /\ Len(requests') = Len(requests)
      /\ \A i \in 1..Len(requests) : i # q => requests'[i] = requests[i]
  BY <1>1, <1>2, <1>4, ExceptSeq
<1>7. ASSUME NEW x \in ResourceId, entries'[x] = "Loading"
      PROVE  \E i \in 1..Len(requests') : requests'[i].resource = x /\ ~requests'[i].done
  <2>1. x # r
    BY <1>5, <1>7
  <2>2. PICK i \in 1..Len(requests) : requests[i].resource = x /\ ~requests[i].done
    BY <1>5, <1>7, <2>1 DEF ManagerOK, Requested
  <2>3. QED BY <1>6, <2>1, <2>2
<1>8. QED BY <1>3, <1>5, <1>6, <1>7 DEF ManagerOK, Requested, Grows

(***************************************************************************)
(* The live state.                                                         *)
(***************************************************************************)

\* What a step other than the restoring of a checkpoint has to show: whatever
\* is held, drawn or playing was so before, or rests on a handle of the table.
LEMMA LiveStep ==
    ASSUME Live, ManagerOK(entries', requests', handles'), KeepsReady,
           Grows(handles, handles'),
           \A p \in scriptHeld' : p \in scriptHeld \/ Issued(handles', p[1], p[2]),
           \A d \in draws' : d \in draws \/ Issued(handles', d.handle, d.resource),
           audio' \in [DOMAIN audio' -> PlayState],
           \A h \in Playing(audio') :
              \/ h \in Playing(audio) /\ audio'[h].resource = audio[h].resource
              \/ /\ Issued(handles', h, audio'[h].resource)
                 /\ audio'[h].resource \in ResourceId
                 /\ entries'[audio'[h].resource] = "Ready"
    PROVE  Live'
<1>1. handles \in Seq(Handle)
  BY DEF Live, Consistent, ManagerOK
<1>2. HeldOK(handles', scriptHeld) /\ DrawsOK(handles', draws)
  BY <1>1, StillIssued DEF Live, Consistent
<1>3. HeldOK(handles', scriptHeld') /\ DrawsOK(handles', draws')
  BY <1>2 DEF HeldOK, DrawsOK
<1>4. /\ AudioOK(handles, entries, audio)
      /\ \A h \in 1..Len(handles) : h \in 1..Len(handles')
  BY DEF Live, Consistent, Grows
<1>5. ASSUME NEW h \in Playing(audio')
      PROVE  /\ h \in 1..Len(handles')
             /\ audio'[h].resource \in ResourceId
             /\ entries'[audio'[h].resource] = "Ready"
  BY <1>4 DEF AudioOK, Playable, KeepsReady, Issued
<1>6. AudioOK(handles', entries', audio')
  BY <1>5 DEF AudioOK, Playable
<1>7. QED BY <1>3, <1>6 DEF Live, Consistent

\* The steps that leave the manager, and those that leave the sounds.
LEMMA SameManager ==
    ASSUME Live, UNCHANGED resourceVars
    PROVE  /\ ManagerOK(entries', requests', handles') /\ KeepsReady
           /\ Grows(handles, handles')
BY DEF Live, Consistent, ManagerOK, KeepsReady, Grows, resourceVars

LEMMA SameAudio ==
    ASSUME Live, audio' = audio
    PROVE  /\ audio' \in [DOMAIN audio' -> PlayState]
           /\ \A h \in Playing(audio') :
                 h \in Playing(audio) /\ audio'[h].resource = audio[h].resource
BY DEF Live, Consistent, AudioOK

LEMMA SameRest ==
    ASSUME UNCHANGED <<draws, audio, sessions, scriptHeld>>, Live, NoOrphanSound,
           ManagerOK(entries', requests', handles'), KeepsReady,
           Grows(handles, handles')
    PROVE  Live' /\ NoOrphanSound'
<1>1. Live'
  BY SameAudio, LiveStep
<1>2. NoOrphanSound'
  BY DEF NoOrphanSound, Playing
<1>3. QED BY <1>1, <1>2

\* The host's calls.
LEMMA HostSteps ==
    ASSUME Live, NoOrphanSound,
           \/ \E r \in ResourceId : HostRegister(r)
           \/ \E q \in 1..MaxRequests : HostComplete(q)
           \/ \E h \in HandleId : HostRetain(h)
    PROVE  Live' /\ NoOrphanSound'
<1>1. ManagerOK(entries, requests, handles)
  BY DEF Live, Consistent
<1>2. UNCHANGED <<draws, audio, sessions, scriptHeld>>
  BY DEF HostRegister, HostComplete, HostRetain, mediaVars, heldVars
<1>3. /\ ManagerOK(entries', requests', handles') /\ KeepsReady
      /\ Grows(handles, handles')
  <2>1. ASSUME NEW r \in ResourceId, HostRegister(r)
        PROVE  /\ ManagerOK(entries', requests', handles') /\ KeepsReady
               /\ Grows(handles, handles')
    BY <1>1, <2>1, ReadyManager DEF HostRegister
  <2>2. ASSUME NEW q, HostComplete(q)
        PROVE  /\ ManagerOK(entries', requests', handles') /\ KeepsReady
               /\ Grows(handles, handles')
    BY <1>1, <2>2, CompleteManager DEF HostComplete
  <2>3. ASSUME NEW h, HostRetain(h)
        PROVE  /\ ManagerOK(entries', requests', handles') /\ KeepsReady
               /\ Grows(handles, handles')
    <3>1. Grows(handles, handles')
      BY <1>1, <2>3, RetainGrows DEF HostRetain, ManagerOK
    <3>2. entries' = entries /\ requests' = requests
      BY <2>3 DEF HostRetain, Retain
    <3>3. QED BY <1>1, <3>1, <3>2 DEF ManagerOK, KeepsReady, Grows
  <2>4. QED BY <2>1, <2>2, <2>3
<1>4. QED BY <1>2, <1>3, SameRest

\* The loads: a script is given the handle that was allocated for it.
LEMMA LoadSteps ==
    ASSUME Live, NoOrphanSound, NEW r \in ResourceId, Load(r)
    PROVE  Live' /\ NoOrphanSound'
<1>1. ManagerOK(entries, requests, handles)
  BY DEF Live, Consistent
<1>2. UNCHANGED <<draws, audio, sessions>>
  BY DEF Load, mediaVars
<1>3. CASE LoadReady(r) /\ scriptHeld' = scriptHeld \cup Given(r)
  <2>1. /\ ManagerOK(entries', requests', handles') /\ KeepsReady
        /\ Grows(handles, handles') /\ Issued(handles', Allocated(handles), r)
    BY <1>1, <1>3, ReadyManager
  <2>2. \A p \in scriptHeld' : p \in scriptHeld \/ Issued(handles', p[1], p[2])
    BY <1>3, <2>1 DEF Given
  <2>3. Live'
    BY <1>2, <2>1, <2>2, SameAudio, LiveStep
  <2>4. NoOrphanSound'
    BY <1>2 DEF NoOrphanSound, Playing
  <2>5. QED BY <2>3, <2>4
<1>4. CASE LoadPending(r) /\ scriptHeld' = scriptHeld
  <2>1. /\ ManagerOK(entries', requests', handles') /\ KeepsReady
        /\ Grows(handles, handles')
    BY <1>1, <1>4, PendingManager DEF ManagerOK, Grows
  <2>2. QED BY <1>2, <1>4, <2>1, SameRest
<1>5. QED BY <1>3, <1>4 DEF Load

\* The images: what is drawn has a handle of the table.
LEMMA ImageSteps ==
    ASSUME Live, NoOrphanSound,
           \/ \E h \in HandleId : ImageDraw(h) \/ ImageRelease(h)
           \/ \E r \in ResourceId : Background(r)
    PROVE  Live' /\ NoOrphanSound'
<1>1. ManagerOK(entries, requests, handles)
  BY DEF Live, Consistent
<1>2. UNCHANGED <<audio, sessions, scriptHeld>>
  BY DEF ImageDraw, ImageRelease, Background, heldVars
<1>3. NoOrphanSound'
  BY <1>2 DEF NoOrphanSound, Playing
<1>4. ASSUME NEW h \in HandleId, ImageDraw(h) PROVE Live'
  <2>1. UNCHANGED resourceVars /\ Issued(handles, h, handles[h].resource)
    BY <1>4 DEF ImageDraw, Resolves, Issued
  <2>2. \A d \in draws' : d \in draws \/ Issued(handles', d.handle, d.resource)
    BY <1>4, <2>1 DEF ImageDraw, resourceVars
  <2>3. QED BY <1>2, <2>1, <2>2, SameManager, SameAudio, LiveStep
<1>5. ASSUME NEW h \in HandleId, ImageRelease(h) PROVE Live'
  <2>1. Grows(handles, handles') /\ entries' = entries /\ requests' = requests
    BY <1>1, <1>5, ReleaseGrows DEF ImageRelease, Release, ManagerOK
  <2>2. ManagerOK(entries', requests', handles') /\ KeepsReady
    BY <1>1, <2>1 DEF ManagerOK, KeepsReady, Grows
  <2>3. draws' \subseteq draws
    BY <1>5 DEF ImageRelease
  <2>4. QED BY <1>2, <2>1, <2>2, <2>3, SameAudio, LiveStep
<1>6. ASSUME NEW r \in ResourceId, Background(r) PROVE Live'
  <2>1. /\ ManagerOK(entries', requests', handles') /\ KeepsReady
        /\ Grows(handles, handles') /\ Issued(handles', Allocated(handles), r)
    BY <1>1, <1>6, ReadyManager DEF Background
  <2>2. \A d \in draws' : d \in draws \/ Issued(handles', d.handle, d.resource)
    BY <1>6, <2>1 DEF Background
  <2>3. QED BY <1>2, <2>1, <2>2, SameAudio, LiveStep
<1>7. QED BY <1>3, <1>4, <1>5, <1>6

(***************************************************************************)
(* The sounds.                                                             *)
(***************************************************************************)

\* Putting a state that does not play, and taking one away.
LEMMA PutStopped ==
    ASSUME audio \in [DOMAIN audio -> PlayState],
           NEW h, NEW r \in ResourceId \cup {NoResource},
           audio' = Put(audio, h, Stopped(r))
    PROVE  /\ audio' \in [DOMAIN audio' -> PlayState]
           /\ Playing(audio') = Playing(audio) \ {h}
           /\ \A k \in Playing(audio') : audio'[k] = audio[k]
<1>1. /\ Stopped(r) \in PlayState /\ ~Stopped(r).playing
      /\ DOMAIN audio' = DOMAIN audio \cup {h}
      /\ audio' = [x \in DOMAIN audio \cup {h} |-> IF x = h THEN Stopped(r) ELSE audio[x]]
  BY DEF Put, Stopped, PlayState
<1>2. QED BY <1>1 DEF Playing

LEMMA PutPlaying ==
    ASSUME audio \in [DOMAIN audio -> PlayState], NEW h, NEW r \in ResourceId,
           audio' = Put(audio, h, [resource |-> r, playing |-> TRUE])
    PROVE  /\ audio' \in [DOMAIN audio' -> PlayState]
           /\ Playing(audio') = Playing(audio) \cup {h}
           /\ audio'[h].resource = r
           /\ \A k \in Playing(audio) : k # h => audio'[k] = audio[k]
<1> DEFINE p == [resource |-> r, playing |-> TRUE]
<1>1. /\ p \in PlayState /\ p.playing /\ p.resource = r
      /\ DOMAIN audio' = DOMAIN audio \cup {h}
      /\ audio' = [x \in DOMAIN audio \cup {h} |-> IF x = h THEN p ELSE audio[x]]
  BY DEF Put, PlayState
<1> HIDE DEF p
<1>2. QED BY <1>1 DEF Playing

\* The sounds that a step makes known to the runtime as playing are those it
\* gives to the backend.
LEMMA AudioLoadStep ==
    ASSUME Live, NoOrphanSound, NEW r \in ResourceId, AudioLoad(r)
    PROVE  Live' /\ NoOrphanSound'
<1> DEFINE a == Allocated(handles)
<1>1. /\ ManagerOK(entries', requests', handles') /\ KeepsReady
      /\ Grows(handles, handles') /\ Issued(handles', a, r)
  BY ReadyManager DEF AudioLoad, Live, Consistent
<1>2. /\ audio \in [DOMAIN audio -> PlayState]
      /\ Playing(audio) \subseteq 1..Len(handles)
      /\ Len(handles) \in Nat
  BY DEF Live, Consistent, AudioOK, ManagerOK
<1>3. a \notin Playing(audio)
  BY <1>2 DEF Allocated
<1>4. /\ audio' = Put(audio, a, Stopped(r))
      /\ scriptHeld' = scriptHeld \cup {<<a, r>>}
      /\ draws' = draws /\ sessions' = sessions
  BY DEF AudioLoad, Given
<1> HIDE DEF a
<1>5. /\ audio' \in [DOMAIN audio' -> PlayState]
      /\ Playing(audio') = Playing(audio)
      /\ \A k \in Playing(audio') : audio'[k] = audio[k]
  <2>1. r \in ResourceId \cup {NoResource}
    OBVIOUS
  <2>2. /\ audio' \in [DOMAIN audio' -> PlayState]
        /\ Playing(audio') = Playing(audio) \ {a}
        /\ \A k \in Playing(audio') : audio'[k] = audio[k]
    BY <1>2, <1>4, <2>1, PutStopped
  <2>3. QED BY <1>3, <2>2
<1>6. \A p \in scriptHeld' : p \in scriptHeld \/ Issued(handles', p[1], p[2])
  BY <1>1, <1>4
<1>7. Live'
  BY <1>1, <1>4, <1>5, <1>6, LiveStep
<1>8. NoOrphanSound'
  BY <1>4, <1>5 DEF NoOrphanSound
<1>9. QED BY <1>7, <1>8

LEMMA AudioPlayStep ==
    ASSUME Live, NoOrphanSound, NEW h \in HandleId, AudioPlay(h)
    PROVE  Live' /\ NoOrphanSound'
<1> DEFINE r == handles[h].resource
<1>1. /\ audio \in [DOMAIN audio -> PlayState]
      /\ handles \in Seq(Handle) /\ h \in 1..Len(handles)
  BY DEF Live, Consistent, AudioOK, ManagerOK, AudioPlay, Resolves
<1>2. r \in ResourceId /\ Issued(handles, h, r)
  <2>1. handles[h] \in Handle
    BY <1>1, ElementOfSeq
  <2>2. QED BY <1>1, <2>1 DEF Handle, Issued
<1>3. /\ entries[r] = "Ready"
      /\ UNCHANGED resourceVars /\ draws' = draws /\ scriptHeld' = scriptHeld
  BY DEF AudioPlay, heldVars
<1>4. /\ ManagerOK(entries', requests', handles') /\ KeepsReady
      /\ Grows(handles, handles')
  BY <1>3, SameManager
<1>5. Issued(handles', h, r) /\ entries'[r] = "Ready"
  BY <1>2, <1>3 DEF resourceVars
<1>6. CASE /\ audio' = Put(audio, h, [resource |-> r, playing |-> TRUE])
           /\ sessions' = sessions \cup {h}
  <2> HIDE DEF r
  <2>1. /\ audio' \in [DOMAIN audio' -> PlayState]
        /\ Playing(audio') = Playing(audio) \cup {h}
        /\ audio'[h].resource = r
        /\ \A k \in Playing(audio) : k # h => audio'[k] = audio[k]
    BY <1>1, <1>2, <1>6, PutPlaying
  <2>2. Live'
    BY <1>2, <1>3, <1>4, <1>5, <2>1, LiveStep
  <2>3. NoOrphanSound'
    BY <1>6, <2>1 DEF NoOrphanSound
  <2>4. QED BY <2>2, <2>3
<1>7. CASE /\ audio' = IF h \in DOMAIN audio THEN audio ELSE Put(audio, h, Stopped(r))
           /\ sessions' \in {sessions, sessions \ {h}}
  <2> HIDE DEF r
  <2>1. CASE h \in DOMAIN audio
    <3>1. Live'
      BY <1>3, <1>4, <1>7, <2>1, SameAudio, LiveStep
    <3>2. NoOrphanSound'
      BY <1>7, <2>1 DEF NoOrphanSound, Playing
    <3>3. QED BY <3>1, <3>2
  <2>2. CASE h \notin DOMAIN audio
    <3>1. /\ audio' \in [DOMAIN audio' -> PlayState]
          /\ Playing(audio') = Playing(audio) \ {h}
          /\ \A k \in Playing(audio') : audio'[k] = audio[k]
      BY <1>1, <1>2, <1>7, <2>2, PutStopped
    <3>2. Live'
      BY <1>3, <1>4, <3>1, LiveStep
    <3>3. h \notin Playing(audio)
      BY <2>2 DEF Playing
    <3>4. NoOrphanSound'
      BY <1>7, <3>1, <3>3 DEF NoOrphanSound
    <3>5. QED BY <3>2, <3>4
  <2>3. QED BY <2>1, <2>2
<1>8. QED BY <1>6, <1>7 DEF AudioPlay

\* Pause, stop, release, seek and volume start nothing, and what they silence is
\* not taken for playing any more.
LEMMA AudioStopStep ==
    ASSUME Live, NoOrphanSound, NEW h \in HandleId,
           AudioPause(h) \/ AudioAdjust(h) \/ AudioRelease(h)
    PROVE  Live' /\ NoOrphanSound'
<1>1. /\ audio \in [DOMAIN audio -> PlayState]
      /\ ManagerOK(entries, requests, handles)
      /\ draws' = draws /\ scriptHeld' = scriptHeld
  BY DEF Live, Consistent, AudioOK, AudioPause, AudioAdjust, AudioRelease, heldVars
<1>2. /\ ManagerOK(entries', requests', handles') /\ KeepsReady
      /\ Grows(handles, handles')
  <2>1. CASE UNCHANGED resourceVars
    BY <2>1, SameManager
  <2>2. CASE Release(h)
    <3>1. Grows(handles, handles') /\ entries' = entries /\ requests' = requests
      BY <1>1, <2>2, ReleaseGrows DEF Release, ManagerOK
    <3>2. QED BY <1>1, <3>1 DEF ManagerOK, KeepsReady, Grows
  <2>3. QED BY <2>1, <2>2 DEF AudioPause, AudioAdjust, AudioRelease
<1>3. /\ audio' \in [DOMAIN audio' -> PlayState]
      /\ \A k \in Playing(audio') : k \in Playing(audio) /\ audio'[k] = audio[k]
      /\ sessions' \subseteq Playing(audio')
  <2>1. CASE AudioPause(h)
    <3>1. CASE h \in DOMAIN audio
      <4>1. audio' = [audio EXCEPT ![h].playing = FALSE]
        BY <2>1, <3>1 DEF AudioPause
      <4> DEFINE silent == [audio[h] EXCEPT !.playing = FALSE]
      <4>2. silent \in PlayState /\ ~silent.playing
        <5>1. audio[h] \in PlayState
          BY <1>1, <3>1
        <5>2. QED BY <5>1 DEF PlayState
      <4>3. audio' = [audio EXCEPT ![h] = silent]
        BY <4>1
      <4> HIDE DEF silent
      <4>4. /\ audio' \in [DOMAIN audio' -> PlayState] /\ DOMAIN audio' = DOMAIN audio
            /\ ~audio'[h].playing
            /\ \A k \in DOMAIN audio : k # h => audio'[k] = audio[k]
        BY <1>1, <3>1, <4>2, <4>3
      <4>5. sessions' = sessions \ {h}
        BY <2>1 DEF AudioPause
      <4>6. QED BY <3>1, <4>4, <4>5 DEF NoOrphanSound, Playing
    <3>2. CASE h \notin DOMAIN audio
      BY <1>1, <2>1, <3>2 DEF AudioPause, NoOrphanSound, Playing
    <3>3. QED BY <3>1, <3>2
  <2>2. CASE AudioAdjust(h)
    <3>1. CASE h \in DOMAIN audio
      BY <1>1, <2>2, <3>1 DEF AudioAdjust, NoOrphanSound
    <3>2. CASE h \notin DOMAIN audio
      <4>1. audio' = Put(audio, h, Stopped(NoResource)) /\ sessions' = sessions
        BY <2>2, <3>2 DEF AudioAdjust
      <4>2. NoResource \in ResourceId \cup {NoResource}
        OBVIOUS
      <4>3. /\ audio' \in [DOMAIN audio' -> PlayState]
            /\ Playing(audio') = Playing(audio) \ {h}
            /\ \A k \in Playing(audio') : audio'[k] = audio[k]
        BY <1>1, <4>1, <4>2, PutStopped
      <4>4. h \notin Playing(audio)
        BY <3>2 DEF Playing
      <4>5. QED BY <4>1, <4>3, <4>4 DEF NoOrphanSound
    <3>3. QED BY <3>1, <3>2
  <2>3. CASE AudioRelease(h)
    <3>1. /\ audio' = [x \in DOMAIN audio \ {h} |-> audio[x]]
          /\ sessions' = sessions \ {h}
      BY <2>3 DEF AudioRelease, Drop
    <3>2. QED BY <1>1, <3>1 DEF NoOrphanSound, Playing
  <2>4. QED BY <2>1, <2>2, <2>3
<1>4. Live'
  BY <1>1, <1>2, <1>3, LiveStep
<1>5. QED BY <1>3, <1>4 DEF NoOrphanSound

(***************************************************************************)
(* Checkpoints.                                                            *)
(***************************************************************************)

SavedAll == \A s \in DOMAIN checkpoints : Saved(checkpoints[s])

LEMMA CheckpointSaved ==
    ASSUME MediaInv, NEW s, SaveCheckpoint(s)
    PROVE  MediaInv'
<1>1. Saved(Checkpoint)
  BY DEF MediaInv, Live, Saved, Checkpoint
<1>2. checkpoints' = [x \in DOMAIN checkpoints \cup {s} |->
                         IF x = s THEN Checkpoint ELSE checkpoints[x]]
  BY DEF SaveCheckpoint, Put
<1>3. SavedAll'
  <2>1. SUFFICES ASSUME NEW x \in DOMAIN checkpoints'
                 PROVE  Saved(checkpoints'[x])
    BY DEF SavedAll, Saved
  <2>2. CASE x = s
    BY <1>1, <1>2, <2>2
  <2>3. CASE x # s
    <3>1. x \in DOMAIN checkpoints /\ checkpoints'[x] = checkpoints[x]
      BY <1>2, <2>1, <2>3
    <3>2. QED BY <3>1 DEF MediaInv
  <2>4. QED BY <2>2, <2>3
<1>4. Live' /\ NoOrphanSound'
  BY DEF MediaInv, Live, NoOrphanSound, Playing, SaveCheckpoint, resourceVars,
         mediaVars, heldVars
<1>5. QED BY <1>3, <1>4 DEF MediaInv, SavedAll, Saved

\* What a checkpoint brings back fits together, and the backend plays no more
\* than what it says.
LEMMA CheckpointLoaded ==
    ASSUME MediaInv, NEW s, LoadCheckpoint(s)
    PROVE  MediaInv'
<1> DEFINE c == checkpoints[s]
<1>1. Saved(c) /\ Restore(c) /\ Replay(c.audio) /\ checkpoints' = checkpoints
  BY DEF LoadCheckpoint, MediaInv
<1> HIDE DEF c
<1>2. Live'
  BY <1>1 DEF Saved, Restore, Live
<1>3. NoOrphanSound'
  BY <1>1 DEF Replay, Restore, NoOrphanSound
<1>4. QED BY <1>1, <1>2, <1>3 DEF MediaInv, Saved

(***************************************************************************)
(* The invariant.                                                          *)
(***************************************************************************)

LEMMA MediaStep ==
    ASSUME MediaInv, [MediaNext]_vars
    PROVE  MediaInv'
<1>1. CASE Live' /\ NoOrphanSound' /\ checkpoints' = checkpoints
  BY <1>1 DEF MediaInv, Saved
<1>2. Live /\ NoOrphanSound
  BY DEF MediaInv
<1>3. CASE \/ \E r \in ResourceId : HostRegister(r)
           \/ \E q \in 1..MaxRequests : HostComplete(q)
           \/ \E h \in HandleId : HostRetain(h)
  <2>1. checkpoints' = checkpoints
    BY <1>3 DEF HostRegister, HostComplete, HostRetain
  <2>2. QED BY <1>1, <1>2, <1>3, <2>1, HostSteps
<1>4. ASSUME NEW r \in ResourceId, Load(r) PROVE MediaInv'
  BY <1>1, <1>2, <1>4, LoadSteps DEF Load
<1>5. CASE \/ \E h \in HandleId : ImageDraw(h) \/ ImageRelease(h)
           \/ \E r \in ResourceId : Background(r)
  <2>1. checkpoints' = checkpoints
    BY <1>5 DEF ImageDraw, ImageRelease, Background
  <2>2. QED BY <1>1, <1>2, <1>5, <2>1, ImageSteps
<1>6. ASSUME NEW r \in ResourceId, AudioLoad(r) PROVE MediaInv'
  BY <1>1, <1>2, <1>6, AudioLoadStep DEF AudioLoad
<1>7. ASSUME NEW h \in HandleId, AudioPlay(h) PROVE MediaInv'
  BY <1>1, <1>2, <1>7, AudioPlayStep DEF AudioPlay
<1>8. ASSUME NEW h \in HandleId, AudioPause(h) \/ AudioAdjust(h) \/ AudioRelease(h)
      PROVE  MediaInv'
  <2>1. checkpoints' = checkpoints
    BY <1>8 DEF AudioPause, AudioAdjust, AudioRelease
  <2>2. QED BY <1>1, <1>2, <1>8, <2>1, AudioStopStep
<1>9. CASE (\E h \in HandleId : SoundEnds(h)) \/ Shutdown
  <2>1. UNCHANGED <<resourceVars, draws, audio, scriptHeld, checkpoints>>
    BY <1>9 DEF SoundEnds, Shutdown, heldVars
  <2>2. sessions' \subseteq sessions
    BY <1>9 DEF SoundEnds, Shutdown
  <2>3. Live'
    BY <1>2, <2>1 DEF Live, resourceVars
  <2>4. NoOrphanSound'
    BY <1>2, <2>1, <2>2 DEF NoOrphanSound
  <2>5. QED BY <1>1, <2>1, <2>3, <2>4
<1>10. ASSUME NEW s \in Slot, SaveCheckpoint(s) \/ LoadCheckpoint(s) PROVE MediaInv'
  BY <1>10, CheckpointSaved, CheckpointLoaded
<1>11. CASE UNCHANGED vars
  <2>1. Live' /\ NoOrphanSound' /\ checkpoints' = checkpoints
    BY <1>2, <1>11 DEF vars, resourceVars, mediaVars, heldVars, Live, NoOrphanSound
  <2>2. QED BY <1>1, <2>1
<1>12. QED
  BY <1>3, <1>4, <1>5, <1>6, <1>7, <1>8, <1>9, <1>10, <1>11 DEF MediaNext

LEMMA MediaInvariant == MediaSpec => []MediaInv
<1>1. MediaInit => MediaInv
  <2> SUFFICES ASSUME MediaInit PROVE MediaInv
    OBVIOUS
  <2>1. /\ entries = [r \in ResourceId |-> "Unloaded"]
        /\ requests = <<>> /\ handles = <<>> /\ draws = {} /\ scriptHeld = {}
        /\ sessions = {} /\ DOMAIN audio = {} /\ DOMAIN checkpoints = {}
        /\ audio \in [{} -> PlayState]
    BY DEF MediaInit, ResourcesInit
  <2>2. Live
    BY <2>1 DEF Live, Consistent, ManagerOK, HeldOK, DrawsOK, AudioOK, EntryState,
                Requested, Playing, Playable
  <2>3. QED BY <2>1, <2>2 DEF MediaInv, NoOrphanSound
<1>2. MediaInv /\ [MediaNext]_vars => MediaInv'
  BY MediaStep
<1>3. QED BY <1>1, <1>2, PTL DEF MediaSpec

\* A handle in a script's variables, however old, names the resource it was given
\* for or none any more, and a draw shows the resource its handle was issued for:
\* releases never give an index to another resource, and a checkpoint brings back
\* the table together with the handles and the draws that go with it.
THEOREM RawHandlesAreSafe == MediaSpec => []RawHandlesSafe
<1>1. MediaInv => RawHandlesSafe
  BY DEF MediaInv, Live, Consistent, HeldOK, DrawsOK, Issued, RawHandlesSafe, Held
<1>2. QED BY <1>1, MediaInvariant, PTL

\* What is marked as playing has its payload, in the live state and in every
\* checkpoint: restoring one never misses a sound it has to replay.
THEOREM WhatPlaysHasPayload == MediaSpec => []PlayingHasPayload
<1>1. MediaInv => PlayingHasPayload
  BY DEF MediaInv, Live, Saved, Consistent, AudioOK, PlayingHasPayload
<1>2. QED BY <1>1, MediaInvariant, PTL

\* The backend plays nothing that the runtime does not know to be playing: a
\* load never reuses the handle of a sound that is heard.
THEOREM NoSoundIsOrphan == MediaSpec => []NoOrphanSound
BY MediaInvariant, PTL DEF MediaInv

\* A resource that is loading has an open request, after any requests,
\* registrations, completions and checkpoints: it can still become ready.
THEOREM LoadingHasRequest == MediaSpec => []LoadingIsRequested
<1>1. MediaInv => LoadingIsRequested
  BY DEF MediaInv, Live, Consistent, ManagerOK, Requested, LoadingIsRequested
<1>2. QED BY <1>1, MediaInvariant, PTL

===============================================================================
