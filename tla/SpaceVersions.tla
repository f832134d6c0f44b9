--------------------------- MODULE SpaceVersions ---------------------------
(***************************************************************************)
(* The files behind the versions of semantic spaces.                       *)
(*                                                                         *)
(* SemanticSpaceStorage keeps one JSON file per space and one per snapshot *)
(* ({space_id}_v{n}.json).  Every management route loads the whole space,  *)
(* changes the object it got and saves the whole file.  The routes are     *)
(* coroutines that never suspend between their first load and their last   *)
(* save, so one request runs at a time; but the process may stop at any    *)
(* point, between two file operations of a request or inside one of them   *)
(* (open(path, "w") truncates the file long before the text is flushed).   *)
(*                                                                         *)
(* What a space holds (metadata, layers, instances) is one opaque value:   *)
(* versioning stores and restores it and never looks inside.               *)
(***************************************************************************)
EXTENDS Integers, Sequences

CONSTANTS
    Spaces,      \* space ids
    Contents,    \* what a space can hold
    Globbed,     \* [Spaces -> SUBSET Spaces]: whose snapshots s's glob catches
    MaxVersion,  \* bound: snapshots numbered above it are not taken
    Absent,      \* no such file
    Torn         \* a file whose writer died: json.load raises on it

\* One entry of SemanticSpace.versions.  snapshot_path is always the path of
\* some {owner}_v{version}.json, so the owner is all of it that is kept.
VersionRec == [version : 1..MaxVersion, owner : Spaces, is_stable : BOOLEAN]

SpaceRec == [id : Spaces, content : Contents, versions : Seq(VersionRec),
             active_version : 1..MaxVersion]

ASSUME ConstantsAssumption ==
    /\ MaxVersion \in Nat \ {0}
    /\ Globbed \in [Spaces -> SUBSET Spaces]
    /\ \A s \in Spaces : s \in Globbed[s]
    /\ Absent # Torn
    /\ Absent \notin SpaceRec
    /\ Torn \notin SpaceRec

VARIABLES
    space,    \* [Spaces -> file], the {id}.json files
    snap,     \* [Spaces -> [1..MaxVersion -> file]], the {id}_v{n}.json files
    job,      \* what the running request has still to do to the files
    copied    \* history: the ids some import took a copy from or put one at

vars == <<space, snap, job, copied>>

File == SpaceRec \cup {Absent, Torn}

\* op is the next file operation, req the id in the URL, rec the space object
\* the request holds in memory.
Idle == [op |-> "idle", req |-> Absent, rec |-> Absent]

Pending == [op : {"save", "snapfile", "unlink", "unlinksnaps"},
            req : Spaces, rec : SpaceRec]

TypeOK ==
    /\ space \in [Spaces -> File]
    /\ snap \in [Spaces -> [1..MaxVersion -> File]]
    /\ job \in Pending \cup {Idle}
    /\ copied \in SUBSET Spaces

Init ==
    /\ space = [s \in Spaces |-> Absent]
    /\ snap = [s \in Spaces |-> [n \in 1..MaxVersion |-> Absent]]
    /\ job = Idle
    /\ copied = {}

-----------------------------------------------------------------------------
\* The requests.  Each one starts when no other runs, reads what it needs and
\* leaves a job behind; a request that the code refuses changes nothing.

Begin(op, req, rec) ==
    /\ job = Idle
    /\ job' = [op |-> op, req |-> req, rec |-> rec]
    /\ UNCHANGED <<space, snap>>

\* create_space (under a new uuid) and load_space_from_json of a file without
\* versions: refused when the id has a file, also a torn one (load raises).
CreateSpace(s, c) ==
    /\ space[s] = Absent
    /\ Begin("save", s, [id |-> s, content |-> c, versions |-> <<>>,
                         active_version |-> 1])
    /\ UNCHANGED copied

\* load_space_from_json of the file of another space, with the space_id
\* override: only metadata.id is changed, the version entries keep the
\* snapshot paths of the space they were written for.
ImportCopy(s, src) ==
    /\ space[s] = Absent
    /\ space[src] \in SpaceRec
    /\ Begin("save", s, [space[src] EXCEPT !.id = s])
    /\ copied' = copied \cup {s, src}

\* The editing routes: load, change the object, save.
Edit(s, c) ==
    /\ space[s] \in SpaceRec
    /\ c # space[s].content
    /\ Begin("save", s, [space[s] EXCEPT !.content = c])
    /\ UNCHANGED copied

\* SemanticSpaceStorage.create_snapshot, up to its first write.
CreateSnapshot(s) ==
    /\ space[s] \in SpaceRec
    /\ Len(space[s].versions) < MaxVersion
    /\ Begin("snapfile", s, space[s])
    /\ UNCHANGED copied

\* Mutant of NewVersion: reuses the newest listed number.
NewVersionReused(rec) == IF rec.versions = <<>> THEN 1 ELSE Len(rec.versions)

NewVersion(rec) == Len(rec.versions) + 1

\* The space object after create_snapshot appended the new version to it.
Listed(rec) ==
    LET n == NewVersion(rec)
    IN  [rec EXCEPT
            !.versions = [i \in 1..n |->
                IF i = n
                THEN [version |-> n, owner |-> rec.id, is_stable |-> FALSE]
                ELSE [rec.versions[i] EXCEPT
                          !.is_stable = rec.versions[i].version < n \/ @]],
            !.active_version = n]

\* The object that rollback_to_version saves: the one in the snapshot file,
\* with the version list it had before its own version was appended.
Restored(rec, n) ==
    [rec EXCEPT
        !.versions = [i \in 1..Len(rec.versions) |->
            [rec.versions[i] EXCEPT !.is_stable = rec.versions[i].version <= n]],
        !.active_version = n]

\* SemanticSpaceStorage.rollback_to_version: the first entry with the number,
\* its snapshot path, the space in that file.  It is saved under the id that
\* the snapshot holds.
RollbackToVersion(s, i) ==
    /\ space[s] \in SpaceRec
    /\ i \in 1..Len(space[s].versions)
    /\ LET v == space[s].versions[i]
       IN  /\ \A j \in 1..(i - 1) : space[s].versions[j].version # v.version
           /\ snap[v.owner][v.version] \in SpaceRec
           /\ Begin("save", s, Restored(snap[v.owner][v.version], v.version))
    /\ UNCHANGED copied

\* delete_space: the route loads the space first, so a torn file stays.
DeleteSpace(s) ==
    /\ space[s] \in SpaceRec
    /\ Begin("unlink", s, space[s])
    /\ UNCHANGED copied

-----------------------------------------------------------------------------
\* The file operations.

\* SemanticSpaceStorage.save, the last step of every request that writes.
Save ==
    /\ job.op = "save"
    /\ space' = [space EXCEPT ![job.rec.id] = job.rec]
    /\ job' = Idle
    /\ UNCHANGED <<snap, copied>>

\* Mutant of WriteSnapshot: lists the version before it dumps the object.
WriteSnapshotListedFirst ==
    /\ job.op = "snapfile"
    /\ snap' = [snap EXCEPT ![job.rec.id][NewVersion(job.rec)] = Listed(job.rec)]
    /\ job' = [job EXCEPT !.op = "save", !.rec = Listed(job.rec)]
    /\ UNCHANGED <<space, copied>>

\* create_snapshot writes the object as it was loaded, then lists the version.
WriteSnapshot ==
    /\ job.op = "snapfile"
    /\ snap' = [snap EXCEPT ![job.rec.id][NewVersion(job.rec)] = job.rec]
    /\ job' = [job EXCEPT !.op = "save", !.rec = Listed(job.rec)]
    /\ UNCHANGED <<space, copied>>

\* Mutant of Unlink: removes the snapshots while the space file is still there.
UnlinkSnapshotsFirst ==
    /\ job.op = "unlink"
    /\ snap' = [snap EXCEPT ![job.req] = [n \in 1..MaxVersion |-> Absent]]
    /\ job' = [job EXCEPT !.op = "unlinksnaps"]
    /\ UNCHANGED <<space, copied>>

\* SemanticSpaceStorage.delete: the space file goes first ...
Unlink ==
    /\ job.op = "unlink"
    /\ space' = [space EXCEPT ![job.req] = Absent]
    /\ job' = [job EXCEPT !.op = "unlinksnaps"]
    /\ UNCHANGED <<snap, copied>>

\* ... then every snapshot file that "{id}_v*.json" matches: deleting "demo"
\* also catches the snapshots "demo_v2_v1.json" of a space named "demo_v2".
UnlinkSnapshots ==
    /\ job.op = "unlinksnaps"
    /\ snap' = [s \in Spaces |-> IF s \in Globbed[job.req]
                                 THEN [n \in 1..MaxVersion |-> Absent]
                                 ELSE snap[s]]
    /\ job' = Idle
    /\ UNCHANGED <<space, copied>>

\* The process stops before the next file operation ...
CrashBetween ==
    /\ job # Idle
    /\ job' = Idle
    /\ UNCHANGED <<space, snap, copied>>

\* ... or inside it: a write leaves a torn file, a deletion some of the files.
CrashInside ==
    /\ job' = Idle
    /\ \/ /\ job.op = "save"
          /\ space' = [space EXCEPT ![job.rec.id] = Torn]
          /\ UNCHANGED snap
       \/ /\ job.op = "snapfile"
          /\ snap' = [snap EXCEPT ![job.rec.id][NewVersion(job.rec)] = Torn]
          /\ UNCHANGED space
       \/ /\ job.op = "unlinksnaps"
          /\ \E gone \in SUBSET (Globbed[job.req] \X (1..MaxVersion)) :
                snap' = [s \in Spaces |-> [n \in 1..MaxVersion |->
                            IF <<s, n>> \in gone THEN Absent ELSE snap[s][n]]]
          /\ UNCHANGED space
    /\ UNCHANGED copied

Request ==
    \E s \in Spaces :
        \/ \E c \in Contents : CreateSpace(s, c)
        \/ \E src \in Spaces : ImportCopy(s, src)
        \/ \E c \in Contents : Edit(s, c)
        \/ CreateSnapshot(s)
        \/ \E i \in 1..MaxVersion : RollbackToVersion(s, i)
        \/ DeleteSpace(s)

FileStep == Save \/ WriteSnapshot \/ Unlink \/ UnlinkSnapshots

Next == Request \/ FileStep \/ CrashBetween \/ CrashInside

Spec == Init /\ [][Next]_vars

-----------------------------------------------------------------------------
\* The version list of a space object is well formed: entry i is version i,
\* and only the newest entry may still be unstable.
WellFormed(rec) ==
    /\ Len(rec.versions) <= MaxVersion
    /\ \A i \in 1..Len(rec.versions) :
          /\ rec.versions[i].version = i
          /\ i < Len(rec.versions) => rec.versions[i].is_stable

\* A snapshot file n of space s holds s as it was with n - 1 versions.
WellFormedSnapshot(rec, s, n) ==
    /\ rec.id = s
    /\ WellFormed(rec)
    /\ Len(rec.versions) = n - 1

\* Every file on disk keeps the numbering that create_snapshot counts on:
\* len(versions) + 1 is a number no entry of the list has, whatever mixture
\* of snapshots, rollbacks, copies, deletions and crashes led there.
HistoryWellFormed ==
    \A s \in Spaces :
        /\ space[s] \in SpaceRec => space[s].id = s /\ WellFormed(space[s])
        /\ \A n \in 1..MaxVersion :
              snap[s][n] \in SpaceRec => WellFormedSnapshot(snap[s][n], s, n)

\* The numbers of s's own snapshots that its file lists.
OwnListed(file, s) ==
    IF file \in SpaceRec
    THEN {file.versions[i].version : i \in
            {j \in 1..Len(file.versions) : file.versions[j].owner = s}}
    ELSE {}

\* No other space's deletion catches the snapshots of s.
Alone(s) == \A r \in Spaces : s \in Globbed[r] => r = s

\* No step changes, tears or removes the snapshot of a version that its space
\* lists before and after the step: what a rollback to it would restore stays
\* what was there when it was listed.
ListedSnapshotsStable ==
    [][\A s \in {t \in Spaces : Alone(t)} :
          \A n \in OwnListed(space[s], s) \cap OwnListed(space'[s], s) :
              snap'[s][n] = snap[s][n]]_vars

\* For a space that no import copied and no other deletion catches, every
\* version in its list can be rolled back to: its snapshot is on disk, whole,
\* and the space's own.
UncopiedVersionsRestorable ==
    \A s \in Spaces \ copied :
        space[s] \in SpaceRec /\ Alone(s) =>
            \A i \in 1..Len(space[s].versions) :
                /\ space[s].versions[i].owner = s
                /\ snap[s][space[s].versions[i].version] \in SpaceRec

=============================================================================
