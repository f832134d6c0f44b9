----------------------------- MODULE SpaceViews -----------------------------
(***************************************************************************)
(* Management spaces and their consumption views.                          *)
(*                                                                         *)
(* A management space names its view in metadata.view_id.  Both are files  *)
(* of SemanticSpaceStorage; the routes that touch both write them one      *)
(* after the other.  Routes never suspend, so one request runs at a time,  *)
(* and it decides what to write from what it finds at its start; but the   *)
(* process may stop before, between and inside its writes.  At its next    *)
(* start it loads the example cases and then copies instances from the     *)
(* management spaces to the views that have fewer, before it serves again. *)
(***************************************************************************)
EXTENDS Integers, Sequences, FiniteSets

CONSTANTS
    Spaces,       \* ids of management spaces
    Views,        \* ids of consumption views
    Layers,       \* what the layers L1 to L4 can hold
    NoLayers,     \* ... when they are empty
    Entities,     \* the instances
    Examples,     \* EXAMPLE_CASES: the management spaces loaded at start
    ExampleView,  \* [Examples -> Views]
    MaxRequests,  \* bound: requests served
    MaxStops,     \* bound: requests that a stop of the process interrupts
    NoView,       \* view_id is None
    Absent,       \* no such file
    Torn          \* a file whose writer died: json.load raises on it

Ids == Spaces \cup Views

Status == {"draft", "active", "published", "archived"}

\* versions: the spaces whose snapshot of version 1 the version list has the
\* path of (bound: a list has at most one entry).
SpaceRec == [status : Status, view : Views \cup {NoView}, layers : Layers,
             entities : SUBSET Entities, versions : SUBSET Spaces]

ASSUME ConstantsAssumption ==
    /\ Spaces \cap Views = {}
    /\ NoView \notin Views
    /\ NoLayers \in Layers
    /\ IsFiniteSet(Entities)
    /\ Examples \subseteq Spaces
    /\ ExampleView \in [Examples -> Views]
    /\ MaxRequests \in Nat
    /\ MaxStops \in Nat
    /\ Absent # Torn
    /\ Absent \notin SpaceRec
    /\ Torn \notin SpaceRec

File == SpaceRec \cup {Absent, Torn}

VARIABLES
    file,      \* [Ids -> File], {id}.json
    snap,      \* [Spaces -> File], the snapshot of version 1
    phase,     \* "down", "examples", "sync", "up"
    todo,      \* at start: the spaces still to be loaded, or synced
    job,       \* what runs: its writes to come
    requests,  \* how many were served
    stops      \* how many a stop interrupted

vars == <<file, snap, phase, todo, job, requests, stops>>

Named(f) == {f[s].view : s \in {x \in Spaces : f[x] \in SpaceRec}}

Orphans(f) == {v \in Views : f[v] # Absent /\ v \notin Named(f)}

\* orphans (history): the views without a space when the job began.
Job(op, x, writes) ==
    [op |-> op, id |-> x, writes |-> writes, orphans |-> Orphans(file)]

Idle == [op |-> "idle", id |-> Absent, writes |-> <<>>, orphans |-> {}]

Readable(x) == file[x] \in SpaceRec

Save(x, rec) == [file |-> x, is_snap |-> FALSE, content |-> rec]

SaveSnapshot(x, rec) == [file |-> x, is_snap |-> TRUE, content |-> rec]

Unlink(x) == [file |-> x, is_snap |-> FALSE, content |-> Absent]

UnlinkSnapshot(x) == [file |-> x, is_snap |-> TRUE, content |-> Absent]

Blank(status) == [status |-> status, view |-> NoView, layers |-> NoLayers,
                  entities |-> {}, versions |-> {}]

Init ==
    /\ file = [x \in Ids |-> Absent]
    /\ snap = [s \in Spaces |-> Absent]
    /\ phase = "down"
    /\ todo = {}
    /\ job = Idle
    /\ requests = 0
    /\ stops = 0

-----------------------------------------------------------------------------
\* The requests.

Begin(op, x, writes) ==
    /\ phase = "up"
    /\ job = Idle
    /\ requests < MaxRequests
    /\ requests' = requests + 1
    /\ job' = Job(op, x, writes)
    /\ UNCHANGED <<file, snap, phase, todo, stops>>

\* A new uuid: nothing on disk has it or names it.
IsFresh(v) ==
    /\ file[v] = Absent
    /\ v \notin {ExampleView[s] : s \in Examples}
    /\ \A x \in Ids : Readable(x) => file[x].view # v
    /\ \A s \in Spaces : snap[s] \in SpaceRec => snap[s].view # v

\* create_space, and oe_create_space, which has no default view.
CreateSpace(s) ==
    /\ file[s] = Absent
    /\ s \notin Examples
    /\ LET new == Blank("draft")
       IN  \/ Begin("create", s, <<Save(s, new)>>)
           \/ \E v \in Views :
                 /\ IsFresh(v)
                 /\ Begin("create", s, <<Save(s, new),
                                         Save(v, Blank("draft")),
                                         Save(s, [new EXCEPT !.view = v])>>)

\* load_space_from_json.  The file may be an export of a space that is here,
\* loaded under another id with all it says: its view_id, and the list of its
\* versions with the paths of its snapshots.
LoadFromJson(s, rec) ==
    /\ file[s] = Absent
    /\ IF rec.view # NoView
       THEN Begin("import", s, <<Save(s, rec)>>)
       ELSE \E v \in Views :
               /\ IsFresh(v)
               /\ Begin("import", s, <<Save(s, rec),
                                       Save(s, [rec EXCEPT !.view = v]),
                                       Save(v, Blank("active"))>>)

Exports ==
    [status : {"draft", "active"}, view : {NoView}, layers : Layers \ {NoLayers},
     entities : {Entities}, versions : {{}}]
    \cup {file[x] : x \in {y \in Spaces : Readable(y)}}

\* update_space: any status, for a space or a view.
UpdateSpace(x, status) ==
    /\ Readable(x)
    /\ file[x].status # status
    /\ Begin("update", x, <<Save(x, [file[x] EXCEPT !.status = status])>>)

\* The routes that edit layers and instances.  They do not look at the status.
EditLayers(x, l) ==
    /\ Readable(x)
    /\ file[x].layers # l
    /\ Begin("edit", x, <<Save(x, [file[x] EXCEPT !.layers = l])>>)

EditInstances(x, E) ==
    /\ Readable(x)
    /\ file[x].entities # E
    /\ Begin("edit", x, <<Save(x, [file[x] EXCEPT !.entities = E])>>)

Activated(rec) ==
    [rec EXCEPT !.status = IF @ \in {"draft", "archived"} THEN "active" ELSE @]

\* Mutant of Published: forgets the status of the view.
PublishedContent(view, rec) ==
    [view EXCEPT !.layers = rec.layers, !.entities = rec.entities]

\* The view that an activation saves.
Published(view, rec) ==
    [view EXCEPT !.status = "active",
                 !.layers = rec.layers, !.entities = rec.entities]

\* Mutant of ReplaceView: the space is not saved with its new view.
ReplaceViewUnnamed(x, rec, v) ==
    <<Save(x, rec), Save(v, Blank("active")),
      Save(v, Published(Blank("active"), rec))>>

\* "View was deleted, recreate it".
ReplaceView(x, rec, v) ==
    <<Save(x, rec), Save(x, [rec EXCEPT !.view = v]), Save(v, Blank("active")),
      Save(v, Published(Blank("active"), rec))>>

\* activate_space.  The load of a torn view raises when the space is saved
\* already.
Activate(x) ==
    /\ Readable(x)
    /\ LET rec == Activated(file[x])
           view == rec.view
       IN  \/ /\ view = NoView
              /\ Begin("activate", x, <<Save(x, rec)>>)
           \/ /\ view # NoView
              /\ file[view] = Torn
              /\ Begin("fail", x, <<Save(x, rec)>>)
           \/ /\ view # NoView
              /\ file[view] \in SpaceRec
              /\ Begin("activate", x,
                       <<Save(x, rec), Save(view, Published(file[view], rec))>>)
           \/ /\ view # NoView
              /\ file[view] = Absent
              /\ \E v \in Views :
                    IsFresh(v) /\ Begin("activate", x, ReplaceView(x, rec, v))

\* deactivate_space and archive_space.
Withdraw(x, op, status) ==
    /\ Readable(x)
    /\ LET rec == [file[x] EXCEPT !.status = status]
           view == rec.view
       IN  IF view = NoView \/ file[view] = Absent
           THEN Begin(op, x, <<Save(x, rec)>>)
           ELSE IF file[view] = Torn
           THEN Begin("fail", x, <<Save(x, rec)>>)
           ELSE Begin(op, x, <<Save(x, rec),
                          Save(view, [file[view] EXCEPT !.status = status])>>)

Deactivate(x) == Withdraw(x, "deactivate", "draft")

Archive(x) == Withdraw(x, "archive", "archived")

\* delete_space.  storage.delete does not read the file, and removes the
\* snapshot after it.
DeleteSpace(x) ==
    /\ Readable(x)
    /\ LET view == file[x].view
           own == IF x \in Spaces /\ snap[x] # Absent
                  THEN <<Unlink(x), UnlinkSnapshot(x)>> ELSE <<Unlink(x)>>
       IN  Begin("delete", x, IF view # NoView /\ file[view] # Absent
                              THEN <<Unlink(view)>> \o own ELSE own)

\* create_snapshot and rollback, see SpaceVersions: the snapshot holds the
\* metadata too, id, status and view_id among them.
CreateSnapshot(s) ==
    /\ Readable(s)
    /\ file[s].versions = {}
    /\ Begin("snapshot", s, <<SaveSnapshot(s, file[s]),
                              Save(s, [file[s] EXCEPT !.versions = {s}])>>)

\* The restored space is saved under the id that the snapshot holds: that of a
\* copy's version list is the id of the space that was copied.
Rollback(s) ==
    /\ Readable(s)
    /\ \E o \in file[s].versions :
          /\ snap[o] \in SpaceRec
          /\ Begin("rollback", s, <<Save(o, snap[o])>>)

Request ==
    \/ \E s \in Spaces :
          \/ CreateSpace(s) \/ CreateSnapshot(s) \/ Rollback(s)
          \/ \E rec \in Exports : LoadFromJson(s, rec)
    \/ \E x \in Ids :
          \/ Activate(x) \/ Deactivate(x) \/ Archive(x) \/ DeleteSpace(x)
          \/ \E st \in Status : UpdateSpace(x, st)
          \/ \E l \in Layers : EditLayers(x, l)
          \/ \E E \in SUBSET Entities : EditInstances(x, E)

-----------------------------------------------------------------------------
\* The file system.

Written(w) ==
    IF w.is_snap
    THEN snap' = [snap EXCEPT ![w.file] = w.content] /\ UNCHANGED file
    ELSE file' = [file EXCEPT ![w.file] = w.content] /\ UNCHANGED snap

Write ==
    /\ job # Idle
    /\ Written(Head(job.writes))
    /\ job' = IF Len(job.writes) = 1 THEN Idle
              ELSE [job EXCEPT !.writes = Tail(@)]
    /\ UNCHANGED <<phase, todo, requests, stops>>

Stop ==
    /\ job # Idle => stops < MaxStops
    /\ stops' = IF job = Idle THEN stops ELSE stops + 1
    /\ phase' = "down"
    /\ job' = Idle
    /\ todo' = {}
    /\ UNCHANGED requests

Crash == phase # "down" /\ Stop /\ UNCHANGED <<file, snap>>

\* ... after open(path, "w") truncated the file, before the text is flushed.
CrashInside ==
    /\ job # Idle
    /\ LET w == Head(job.writes)
       IN  /\ w.content # Absent
           /\ Written([w EXCEPT !.content = Torn])
    /\ Stop

-----------------------------------------------------------------------------
\* lifespan().

Start ==
    /\ phase = "down"
    /\ phase' = "examples"
    /\ todo' = Examples
    /\ UNCHANGED <<file, snap, job, requests, stops>>

Reloaded(s, E) ==
    IF Readable(s) THEN [file[s] EXCEPT !.entities = E]
    ELSE [Blank("active") EXCEPT !.view = ExampleView[s], !.entities = E]

\* Mutant of ExampleMissing: takes a space it cannot read for a missing one.
ExampleUnreadable(s) == Readable(s) => file[s].entities = {}

\* A space with entities is left alone, a torn one raises.
ExampleMissing(s) ==
    /\ file[s] # Torn
    /\ Readable(s) => file[s].entities = {}

\* _load_example_case_as_space: the instances (none when the loader fails)
\* into the space, then the space into its view, whatever was there.
LoadExample(s) ==
    /\ phase = "examples"
    /\ job = Idle
    /\ s \in todo
    /\ todo' = todo \ {s}
    /\ \/ UNCHANGED job   \* also when the example's schema is missing
       \/ /\ ExampleMissing(s)
          /\ \E E \in {{}, Entities}, l \in Layers \ {NoLayers} :
                LET rec == [Reloaded(s, E) EXCEPT
                                !.layers = IF Readable(s) THEN @ ELSE l]
                IN  job' = Job("example", s,
                            <<Save(s, rec), Save(ExampleView[s],
                                             Published(Blank("active"), rec))>>)
    /\ UNCHANGED <<file, snap, phase, requests, stops>>

Managed == {s \in Spaces : Readable(s) /\ file[s].view # NoView}

StartSync ==
    /\ phase = "examples"
    /\ job = Idle
    /\ todo = {}
    /\ phase' = "sync"
    /\ todo' = Managed
    /\ UNCHANGED <<file, snap, job, requests, stops>>

\* Mutant of Behind: passes over the views that are not active.
BehindWhenActive(v, s) ==
    /\ file[v].status = "active"
    /\ Cardinality(file[v].entities) < Cardinality(file[s].entities)

Behind(v, s) ==
    Cardinality(file[v].entities) < Cardinality(file[s].entities)

\* One turn of the loop, in the order of the directory.  The load of a torn
\* view raises, and the handler is outside the loop.
Sync(s) ==
    /\ phase = "sync"
    /\ job = Idle
    /\ s \in todo
    /\ LET v == file[s].view
       IN  /\ todo' = IF file[v] = Torn THEN {} ELSE todo \ {s}
           /\ job' = IF Readable(v) /\ Behind(v, s)
                     THEN Job("sync", s, <<Save(v, [file[v] EXCEPT
                                          !.entities = file[s].entities])>>)
                     ELSE job
    /\ UNCHANGED <<file, snap, phase, requests, stops>>

Serve ==
    /\ phase = "sync"
    /\ job = Idle
    /\ todo = {}
    /\ phase' = "up"
    /\ UNCHANGED <<file, snap, todo, job, requests, stops>>

Next ==
    \/ Request \/ Write \/ Crash \/ CrashInside
    \/ Start \/ StartSync \/ Serve
    \/ \E s \in Spaces : LoadExample(s) \/ Sync(s)

Spec == Init /\ [][Next]_vars

-----------------------------------------------------------------------------
\* The step that ends the running request normally.
Completes == Write /\ Len(job.writes) = 1

\* activate_space, deactivate_space, archive_space: whatever a stopped request
\* left, one that runs to its end leaves the space and its view, where it has
\* one, in agreement.
LifecycleReachesView ==
    [][Completes /\ job.op \in {"activate", "deactivate", "archive"} =>
        LET s == job.id
            view == file'[s].view
        IN  view # NoView =>
            \/ /\ job.op = "activate"
               /\ file'[view] \in SpaceRec
               /\ file'[view].status = "active"
               /\ file'[view].layers = file'[s].layers
               /\ file'[view].entities = file'[s].entities
            \/ /\ job.op # "activate"
               /\ \/ file'[view] = Absent
                  \/ file'[view].status = file'[s].status]_vars

\* A request that runs to its end leaves no view without a space that had one
\* when it began, and creates none; but a rollback brings an old view_id back.
NoNewOrphans ==
    [][Completes /\ job.op \notin {"rollback", "example"} =>
        Orphans(file') \subseteq job.orphans]_vars

\* A torn file of a management space is never removed, and overwritten only by
\* its own snapshot, when a copy of the space is rolled back: no other route and
\* no start of the server takes it for a missing one.
TornSpacesStay ==
    [][\A s \in Spaces : file[s] = Torn =>
          \/ file'[s] = Torn
          \/ job.op = "rollback" /\ job.id # s /\ file'[s] = snap[s]]_vars

\* When the server starts to serve, every view has at least as many instances
\* as each management space that names it, if no view is torn.
SyncedAtStart ==
    [][Serve /\ (\A v \in Views : file[v] # Torn) =>
        \A s \in Spaces, v \in Views :
            Readable(s) /\ file[s].view = v /\ Readable(v) =>
                Cardinality(file[v].entities) >= Cardinality(file[s].entities)]_vars
=============================================================================
