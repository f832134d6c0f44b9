---------------------------- MODULE EntityImports ----------------------------
(***************************************************************************)
(* Importing entities with change detection: IncrementalUpdateService.     *)
(*                                                                         *)
(* An import compares the entities it is sent with the old ones it is sent *)
(* and stores a batch, a row for every change, and a new version of every  *)
(* entity that is created or updated.  Each storage operation holds the    *)
(* store's lock and is one statement, so it is one step; the operations of *)
(* concurrent imports interleave, and any of them may raise, or the        *)
(* process stop, which ends the import where it is.  The number of a       *)
(* version is counted in one operation and used in the next.               *)
(*                                                                         *)
(* The concept of an entity is one of its fields.  A dry run and the       *)
(* routes that only read store nothing and are left out; the rollback      *)
(* actions, which a client asks for and carries out, are an operator.      *)
(***************************************************************************)
EXTENDS Integers, FiniteSets

CONSTANTS
    Workers,      \* imports that can be under way at the same time
    Batches,      \* the uuids that batches get
    Entities,
    Fields,       \* the keys of an entity's data
    Values,
    Missing,      \* the key is not in the dict
    Null,         \* ... or it is, with the value None
    None,         \* no data: None in Python, NULL in the table
    Sent,         \* the new entities that clients send
    Known         \* the old entities that they send

Data == [Fields -> Values \cup {Missing, Null}]

Empty == [f \in Fields |-> Missing]

\* A dict of entities: for each id its data, or None.
Given == [Entities -> Data \cup {None}]

\* What a client sends; old is None when it sends no old entities.
Asked == [old : Known \cup {None}, new : Sent]

ASSUME ConstantsAssumption ==
    /\ IsFiniteSet(Entities)
    /\ Fields # {}
    /\ {Missing, Null} \cap Values = {}
    /\ Missing # Null
    /\ None \notin Data
    /\ Sent \subseteq Given
    /\ Known \subseteq Given
    /\ None \notin Known \cup Asked

ChangeTypes == {"CREATED", "UPDATED", "UNCHANGED", "DELETED"}

Change == [entity : Entities, type : ChangeTypes,
           old : Data \cup {None}, new : Data \cup {None}]

VARIABLES
    batches,    \* the rows of change_batches
    changes,    \* the rows of entity_changes
    versions,   \* the rows of entity_versions
    job,        \* [Workers -> what the import has still to do]
    asked,      \* history: [Batches -> what was sent], None if not given out
    missed      \* history: another import stored a version of the entity at
                \* hand since its versions were counted

vars == <<batches, changes, versions, job, asked, missed>>

Idle == [op |-> "idle"]

Init ==
    /\ batches = {}
    /\ changes = {}
    /\ versions = {}
    /\ job = [w \in Workers |-> Idle]
    /\ asked = [b \in Batches |-> None]
    /\ missed = [w \in Workers |-> FALSE]

-----------------------------------------------------------------------------
\* Detecting the changes.

\* dict.get
Get(d, f) == IF d[f] = Missing THEN Null ELSE d[f]

\* EntityDiffer.diff: a key with the value None differs from no missing one.
Diff(old, new) == {f \in Fields : Get(old, f) # Get(new, f)}

EntityChange(e, type, old, new) ==
    [entity |-> e, type |-> type, old |-> old, new |-> new]

ChangeOf(e, old, new) ==
    CASE old = None -> EntityChange(e, "CREATED", None, new)
      [] new = None -> EntityChange(e, "DELETED", old, None)
      [] old # None /\ new # None ->
            IF Diff(old, new) = {} THEN EntityChange(e, "UNCHANGED", None, None)
            ELSE EntityChange(e, "UPDATED", old, new)

\* detect_changes
DetectChanges(old, new) ==
    {ChangeOf(e, old[e], new[e]) :
        e \in {x \in Entities : old[x] # None \/ new[x] # None}}

\* The row of a change: an empty dict is stored as NULL.
Stored(d) == IF d = Empty THEN None ELSE d

RowOf(b, c) == [batch |-> b, entity |-> c.entity, type |-> c.type,
                old |-> Stored(c.old), new |-> Stored(c.new)]

Count(C, type) == Cardinality({c \in C : c.type = type})

\* ChangeBatch.stats
Stats(C) == [type \in ChangeTypes |-> Count(C, type)]

\* old_entities = {} when they are None.
KnownTo(a) == IF a.old = None THEN [e \in Entities |-> None] ELSE a.old

\* import_with_diff, up to its first write.
Import(w, b, a) ==
    /\ job[w] = Idle
    /\ asked[b] = None
    /\ \E e \in Entities : a.new[e] # None
    /\ asked' = [asked EXCEPT ![b] = a]
    /\ LET found == DetectChanges(KnownTo(a), a.new)
       IN  job' = [job EXCEPT ![w] =
                      [op |-> "batch", batch |-> b, all |-> found,
                       todo |-> found, at |-> None, number |-> 0]]
    /\ missed' = [missed EXCEPT ![w] = FALSE]
    /\ UNCHANGED <<batches, changes, versions>>

-----------------------------------------------------------------------------
\* The storage operations.

CreateBatch(w) ==
    /\ job[w].op = "batch"
    /\ batches' = batches \cup
           {[id |-> job[w].batch, status |-> "pending",
             total |-> Cardinality(job[w].all),
             counts |-> [type \in ChangeTypes |-> 0]]}
    /\ job' = [job EXCEPT ![w] = [@ EXCEPT !.op = "change"]]
    /\ UNCHANGED <<changes, versions, asked, missed>>

\* What is left when the change at hand is dealt with.
After(todo) == IF todo = {} THEN "apply" ELSE "change"

\* Deleted entities come last.
InTurn(c, todo) == c.type = "DELETED" => \A d \in todo : d.type = "DELETED"

HasVersion(c) ==
    c.type \in {"CREATED", "UPDATED"} /\ c.new \notin {None, Empty}

\* save_entity_changes: INSERT OR REPLACE.
SaveChange(w, c) ==
    /\ job[w].op = "change"
    /\ c \in job[w].todo
    /\ InTurn(c, job[w].todo)
    /\ changes' = {r \in changes : ~(r.batch = job[w].batch
                                     /\ r.entity = c.entity)}
                  \cup {RowOf(job[w].batch, c)}
    /\ LET left == job[w].todo \ {c}
       IN  job' = [job EXCEPT ![w] =
                      [@ EXCEPT !.todo = left,
                                !.at = IF HasVersion(c) THEN c ELSE None,
                                !.op = IF HasVersion(c) THEN "list"
                                       ELSE After(left)]]
    /\ UNCHANGED <<batches, versions, asked, missed>>

VersionsOf(e) == {v \in versions : v.entity = e}

\* Mutant of NextNumber: leaves a gap.
NextNumberFromTwo(e) == Cardinality(VersionsOf(e)) + 2

\* Mutant of NextNumber: the number of the newest version.
NextNumberNewest(e) ==
    IF VersionsOf(e) = {} THEN 1 ELSE Cardinality(VersionsOf(e))

\* len(existing_versions) + 1
NextNumber(e) == Cardinality(VersionsOf(e)) + 1

CountVersions(w) ==
    /\ job[w].op = "list"
    /\ job' = [job EXCEPT ![w] =
                  [@ EXCEPT !.number = NextNumber(job[w].at.entity),
                            !.op = "version"]]
    /\ missed' = [missed EXCEPT ![w] = FALSE]
    /\ UNCHANGED <<batches, changes, versions, asked>>

\* The batch in a version is history: the table does not have it.
VersionRow(b, c, n) ==
    [entity |-> c.entity, version |-> n, data |-> c.new, batch |-> b]

\* save_entity_version: INSERT OR REPLACE.
SaveVersion(w) ==
    /\ job[w].op = "version"
    /\ LET c == job[w].at
       IN  /\ versions' = {v \in versions : ~(v.entity = c.entity
                                              /\ v.version = job[w].number)}
                          \cup {VersionRow(job[w].batch, c, job[w].number)}
           /\ missed' = [x \in Workers |->
                            \/ missed[x]
                            \/ x # w /\ job[x].op = "version"
                                     /\ job[x].at.entity = c.entity]
    /\ job' = [job EXCEPT ![w] =
                  [@ EXCEPT !.op = After(job[w].todo), !.at = None]]
    /\ UNCHANGED <<batches, changes, asked>>

\* update_change_batch
Apply(w) ==
    /\ job[w].op = "apply"
    /\ batches' = {IF r.id = job[w].batch
                   THEN [r EXCEPT !.status = "applied",
                                  !.counts = Stats(job[w].all)]
                   ELSE r : r \in batches}
    /\ job' = [job EXCEPT ![w] = Idle]
    /\ UNCHANGED <<changes, versions, asked, missed>>

\* The operation raises, the import ends; a stop of the process is one of
\* these for each import under way.
Fail(w) ==
    /\ job[w] # Idle
    /\ job' = [job EXCEPT ![w] = Idle]
    /\ UNCHANGED <<batches, changes, versions, asked, missed>>

Operation(w) ==
    \/ CreateBatch(w) \/ CountVersions(w) \/ SaveVersion(w) \/ Apply(w) \/ Fail(w)
    \/ \E c \in job[w].todo : SaveChange(w, c)

Next ==
    \E w \in Workers :
        \/ \E b \in Batches, a \in Asked : Import(w, b, a)
        \/ job[w] # Idle /\ Operation(w)

Spec == Init /\ [][Next]_vars

-----------------------------------------------------------------------------
\* get_rollback_actions.

\* Mutant of ActionOf: gives the new data of an update.
ActionOfNew(r) ==
    CASE r.type = "CREATED" -> [action |-> "delete", data |-> None]
      [] r.type = "DELETED" -> [action |-> "restore", data |-> r.old]
      [] r.type = "UPDATED" -> [action |-> "restore_data", data |-> r.new]

ActionOf(r) ==
    CASE r.type = "CREATED" -> [action |-> "delete", data |-> None]
      [] r.type = "DELETED" -> [action |-> "restore", data |-> r.old]
      [] r.type = "UPDATED" -> [action |-> "restore_data", data |-> r.old]

\* The rows of batch b that have an action.
Undone(b) == {r \in changes : r.batch = b /\ r.type # "UNCHANGED"}

-----------------------------------------------------------------------------
BatchRow == [id : Batches, status : {"pending", "applied"}, total : Nat,
             counts : [ChangeTypes -> Nat]]

ChangeRow == [batch : Batches, entity : Entities, type : ChangeTypes,
              old : Data \cup {None}, new : Data \cup {None}]

VersionRec == [entity : Entities, version : Nat \ {0}, data : Data,
               batch : Batches]

Busy == [op : {"batch", "change", "list", "version", "apply"},
         batch : Batches, all : SUBSET Change, todo : SUBSET Change,
         at : Change \cup {None}, number : Nat]

TypeOK ==
    /\ batches \subseteq BatchRow
    /\ changes \subseteq ChangeRow
    /\ versions \subseteq VersionRec
    /\ job \in [Workers -> Busy \cup {Idle}]
    /\ asked \in [Batches -> Asked \cup {None}]
    /\ missed \in [Workers -> BOOLEAN]

\* The versions of an entity are numbered without gaps and without doubles,
\* whatever imports overlapped or failed: a count is a number to go on from.
VersionsGapless ==
    \A e \in Entities :
        LET V == VersionsOf(e)
        IN  /\ {v.version : v \in V} = 1..Cardinality(V)
            /\ \A u, v \in V : u.version = v.version => u = v

\* A version is replaced, and its data lost, only by an import that counted
\* the versions of the entity before another import stored one.
UnracedVersionsKept ==
    [][\A w \in Workers : SaveVersion(w) /\ ~missed[w] =>
          versions \subseteq versions']_vars

ChangesOf(b) == {r \in changes : r.batch = b}

\* A batch that is "applied" has a row for every entity that was sent, old or
\* new, and counts that are those of the rows; no other batch's import, and no
\* failure, can make it so before that.
AppliedIsComplete ==
    \A r \in batches : r.status = "applied" =>
        LET a == asked[r.id]
        IN  /\ ChangesOf(r.id) =
                  {RowOf(r.id, c) : c \in DetectChanges(KnownTo(a), a.new)}
            /\ r.counts = Stats(ChangesOf(r.id))
            /\ r.total = Cardinality(ChangesOf(r.id))

\* Whatever ended an import, a version it stored has its change in the batch:
\* the rollback actions of the batch name every entity with a new version.
VersionsHaveChanges ==
    \A v \in versions : \E r \in Undone(v.batch) : r.entity = v.entity

DataOr(d) == IF d = None THEN Empty ELSE d

\* A client that carries out the rollback actions of an applied batch on what
\* it imported gets back the old entities it sent, no more and no fewer, with
\* the same data up to a None for a missing key and for an empty dict.
RollbackRestores ==
    \A r \in batches : r.status = "applied" =>
        \A e \in Entities :
            LET before == KnownTo(asked[r.id])[e]
                sent == asked[r.id].new[e]
                rows == {u \in Undone(r.id) : u.entity = e}
            IN  IF rows = {}
                THEN /\ sent = None <=> before = None
                     /\ Diff(DataOr(sent), DataOr(before)) = {}
                ELSE \A u \in rows :
                        LET undo == ActionOf(u)
                        IN  IF undo.action = "delete" THEN before = None
                            ELSE /\ before # None
                                 /\ Diff(DataOr(undo.data), before) = {}
=============================================================================
