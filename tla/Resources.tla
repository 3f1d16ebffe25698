------------------------------- MODULE Resources -------------------------------
(***************************************************************************)
(* ResourceManager (wmresource): the catalog of archived resources, the    *)
(* state of each, the load requests and the table of handles the scripts   *)
(* get.                                                                    *)
(*                                                                         *)
(* An entry is its state: the code sets the payload where it sets Ready    *)
(* and nowhere else, and a missing entry reads as an unloaded one.         *)
(* Entry::ref_count and memory_used are written and never read.            *)
(***************************************************************************)
EXTENDS Integers, Sequences

CONSTANTS
    ResourceId,
    MaxHandles,    \* bound of the model: handles ever allocated
    MaxRequests,   \* bound of the model: requests ever made
    MaxRefs        \* bound of the model: references to one handle

ASSUME ResourceBoundsAssumption ==
    MaxHandles \in Nat /\ MaxRequests \in Nat /\ MaxRefs \in Nat

VARIABLES
    catalog,    \* ids with a location in an archive
    entries,    \* state of every resource: Unloaded, Loading or Ready
    requests,   \* sequence of requests, numbered by position
    handles     \* HandleTable::entries

resourceVars == <<catalog, entries, requests, handles>>

HandleId == 1..MaxHandles
NoHandle == 0

ResourcesInit ==
    /\ catalog \in SUBSET ResourceId
    /\ entries = [r \in ResourceId |-> "Unloaded"]
    /\ requests = <<>> /\ handles = <<>>

(***************************************************************************)
(* HandleTable.  A handle is an index and a generation; all are issued     *)
(* with generation 1, so the index names it.                               *)
(***************************************************************************)

NewHandle(r) == [resource |-> r, generation |-> 1, refs |-> 1, alive |-> TRUE]

Resolves(table, h) ==
    h \in 1..Len(table) /\ table[h].alive /\ table[h].generation = 1

\* Wrong on purpose (as every definition with a `__`): takes the slot of a
\* released handle.
Allocated__Reuses(table) ==
    IF \E i \in 1..Len(table) : ~table[i].alive
    THEN CHOOSE i \in 1..Len(table) : ~table[i].alive
    ELSE Len(table) + 1

\* The handle the table allocates next.
Allocated(table) == Len(table) + 1

Allocate(r) ==
    /\ Allocated(handles) <= MaxHandles
    /\ handles' = [i \in 1..Len(handles) \cup {Allocated(handles)} |->
                      IF i = Allocated(handles) THEN NewHandle(r) ELSE handles[i]]

\* An error, and no change, for a handle that does not resolve: as Release.
Retain(h) ==
    /\ Resolves(handles, h)
    /\ handles[h].refs < MaxRefs
    /\ handles' = [handles EXCEPT ![h].refs = @ + 1]
    /\ UNCHANGED <<catalog, entries, requests>>

\* The table after a release of h, which dies with its last reference.
Released(h) ==
    IF handles[h].refs = 1
    THEN [handles EXCEPT ![h].refs = 0, ![h].alive = FALSE, ![h].generation = @ + 1]
    ELSE [handles EXCEPT ![h].refs = @ - 1]

Release(h) ==
    /\ handles' = IF Resolves(handles, h) THEN Released(h) ELSE handles
    /\ UNCHANGED <<catalog, entries, requests>>

(***************************************************************************)
(* ResourceManager.                                                        *)
(***************************************************************************)

\* Every asset section that ingest_archive reads is registered too, and stays
\* so when a later section fails; nobody looks up the location of a resource
\* that is ready, so its catalog entry is left out.
RegisterReady(r) ==
    /\ entries' = [entries EXCEPT ![r] = "Ready"]
    /\ Allocate(r)
    /\ UNCHANGED <<catalog, requests>>

LoadReady(r) ==
    /\ entries[r] = "Ready"
    /\ Allocate(r)
    /\ UNCHANGED <<catalog, entries, requests>>

\* Loses the request of a resource that waits to be loaded.
LoadPending__Lost(r) ==
    /\ entries[r] # "Ready" /\ r \in catalog
    /\ Len(requests) < MaxRequests
    /\ entries' = [entries EXCEPT ![r] = "Loading"]
    /\ UNCHANGED <<catalog, handles, requests>>

\* Makes a request, also for a resource that has one.
LoadPending(r) ==
    /\ entries[r] # "Ready" /\ r \in catalog
    /\ Len(requests) < MaxRequests
    /\ entries' = [entries EXCEPT ![r] = "Loading"]
    /\ requests' = Append(requests, [resource |-> r, done |-> FALSE, handle |-> NoHandle])
    /\ UNCHANGED <<catalog, handles>>

\* complete_request does not look at the request's state: completing it again
\* allocates another handle.
CompleteRequest(q) ==
    /\ q \in 1..Len(requests)
    /\ entries' = [entries EXCEPT ![requests[q].resource] = "Ready"]
    /\ Allocate(requests[q].resource)
    /\ requests' = [requests EXCEPT ![q].done = TRUE, ![q].handle = Allocated(handles)]
    /\ UNCHANGED catalog

----------------------------------------------------------------------------

\* A resource that is loading has an open request, whose completion makes it
\* ready: neither a second request, a registration nor a checkpoint leaves it
\* stuck (load_resource, complete_request, load_checkpoint).
LoadingIsRequested ==
    \A r \in ResourceId : entries[r] = "Loading" =>
        \E q \in 1..Len(requests) : requests[q].resource = r /\ ~requests[q].done

=============================================================================
