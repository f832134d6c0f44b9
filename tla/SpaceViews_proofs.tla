------------------------- MODULE SpaceViews_proofs -------------------------
(***************************************************************************)
(* The four properties of SpaceViews for any spaces, views, instances and  *)
(* examples, and any number of requests and stops.                         *)
(*                                                                         *)
(* A request decides all its writes from the files it finds, and nothing   *)
(* else writes until it ends: so what holds of the files it is going to    *)
(* leave (Result) holds of them after each of its writes.                  *)
(***************************************************************************)
EXTENDS SpaceViews, FiniteSetTheorems, SequenceTheorems, TLAPS

\* What a view can be: it has no view of its own.
PlainRec == {r \in SpaceRec : r.view = NoView}

Files == {f \in [Ids -> File] : \A v \in Views : f[v] \in PlainRec \cup {Absent, Torn}}

FileWrite ==
    {w \in [file : Ids, is_snap : BOOLEAN, content : SpaceRec \cup {Absent}] :
        w.file \in Views => ~w.is_snap /\ w.content \in PlainRec \cup {Absent}}

Ops == {"create", "import", "update", "edit", "activate", "fail", "deactivate",
        "archive", "delete", "snapshot", "rollback", "example", "sync"}

Jobs == [op : Ops, id : Ids, writes : Seq(FileWrite), orphans : SUBSET Views]

TypeOK ==
    /\ file \in Files
    /\ snap \in [Spaces -> File]
    /\ phase \in {"down", "examples", "sync", "up"}
    /\ todo \subseteq Spaces
    /\ phase = "examples" => todo \subseteq Examples
    /\ job = Idle \/ (job \in Jobs /\ Len(job.writes) \in 1..4)

\* The files after a write, and after all of at most four.
After(f, w) == IF w.is_snap THEN f ELSE [f EXCEPT ![w.file] = w.content]

Result(f, ws) ==
    LET first == After(f, ws[1])
        second == After(first, ws[2])
        third == After(second, ws[3])
    IN  IF Len(ws) = 1 THEN first
        ELSE IF Len(ws) = 2 THEN second
        ELSE IF Len(ws) = 3 THEN third
        ELSE After(third, ws[4])

\* No write goes to a management space that is torn.
Spares(f, ws) ==
    \A i \in 1..Len(ws) :
        ~ws[i].is_snap /\ ws[i].file \in Spaces => f[ws[i].file] # Torn

\* A rollback saves one record: the snapshot of the space o, which may be
\* torn when it is not the space s that is rolled back.
Restores(s, f, sn, ws) ==
    \E o \in Spaces :
        ws = <<Save(o, sn[o])>> /\ sn[o] \in SpaceRec /\ (o = s => f[o] # Torn)

\* What LifecycleReachesView says of the files f that a request leaves.
Agrees(op, s, f) ==
    LET view == f[s].view
    IN  view # NoView =>
            \/ /\ op = "activate"
               /\ f[view] \in SpaceRec
               /\ f[view].status = "active"
               /\ f[view].layers = f[s].layers
               /\ f[view].entities = f[s].entities
            \/ /\ op # "activate"
               /\ f[view] = Absent \/ f[view].status = f[s].status

Lifecycle == {"activate", "deactivate", "archive"}

\* A request's writes do what they should to the files f.
Good(op, s, f, ws, orphans) ==
    /\ op # "rollback" => Spares(f, ws)
    /\ op \notin {"rollback", "example"} => Orphans(Result(f, ws)) \subseteq orphans
    /\ op \in Lifecycle => Agrees(op, s, Result(f, ws))

\* During a sync: the spaces still to come, the one that is being written, and
\* the others, whose views have enough instances.
SyncTodo == phase = "sync" => todo \subseteq Managed

SyncJob ==
    phase = "sync" /\ job # Idle =>
        /\ job.id \in Spaces /\ Readable(job.id)
        /\ LET v == file[job.id].view
           IN  /\ v \in Views /\ Readable(v) /\ Behind(v, job.id)
               /\ job.writes = <<Save(v, [file[v] EXCEPT !.entities = file[job.id].entities])>>

SyncedSoFar ==
    phase = "sync" /\ (\A v \in Views : file[v] # Torn) =>
        \A s \in Spaces, v \in Views :
            s \notin todo /\ Readable(s) /\ file[s].view = v /\ Readable(v) =>
                \/ job # Idle /\ job.id = s
                \/ Cardinality(file[v].entities) >= Cardinality(file[s].entities)

SyncInv == SyncTodo /\ SyncJob /\ SyncedSoFar

JobInv ==
    job # Idle =>
        /\ Good(job.op, job.id, file, job.writes, job.orphans)
        /\ job.op = "rollback" => Restores(job.id, file, snap, job.writes)

IInv == TypeOK /\ JobInv /\ SyncInv

-----------------------------------------------------------------------------
\* What the writes of a list do, one after the other.
LEMMA Result1 == \A f, a : Result(f, <<a>>) = After(f, a)
  BY DEF Result

LEMMA Result2 == \A f, a, b : Result(f, <<a, b>>) = After(After(f, a), b)
  BY DEF Result

LEMMA Result3 == \A f, a, b, c : Result(f, <<a, b, c>>) = After(After(After(f, a), b), c)
  BY DEF Result

LEMMA Result4 ==
    \A f, a, b, c, d :
        Result(f, <<a, b, c, d>>) = After(After(After(After(f, a), b), c), d)
  BY DEF Result

LEMMA Joined ==
    ASSUME NEW a \in FileWrite, NEW b \in FileWrite, NEW c \in FileWrite
    PROVE  <<a>> \o <<b>> = <<a, b>> /\ <<a>> \o <<b, c>> = <<a, b, c>>
<1>1. /\ <<a>> \in Seq(FileWrite) /\ Len(<<a>>) = 1
      /\ <<b>> \in Seq(FileWrite) /\ Len(<<b>>) = 1
      /\ <<b, c>> \in Seq(FileWrite) /\ Len(<<b, c>>) = 2
      /\ <<a, b>> \in Seq(FileWrite) /\ Len(<<a, b>>) = 2
      /\ <<a, b, c>> \in Seq(FileWrite) /\ Len(<<a, b, c>>) = 3
  OBVIOUS
<1>2. <<a>> \o <<b>> = <<a, b>>
  <2> DEFINE s == <<a>> \o <<b>>
  <2>1. /\ s \in Seq(FileWrite) /\ Len(s) = 2
        /\ \A i \in 1..2 : s[i] = <<a, b>>[i]
    BY <1>1, ConcatProperties
  <2> HIDE DEF s
  <2> QED
    BY <1>1, <2>1, SeqEqual DEF s
<1>3. <<a>> \o <<b, c>> = <<a, b, c>>
  <2> DEFINE s == <<a>> \o <<b, c>>
  <2>1. /\ s \in Seq(FileWrite) /\ Len(s) = 3
        /\ \A i \in 1..3 : s[i] = <<a, b, c>>[i]
    BY <1>1, ConcatProperties
  <2> HIDE DEF s
  <2> QED
    BY <1>1, <2>1, SeqEqual DEF s
<1> QED
  BY <1>2, <1>3

\* The first write done, the others lead to the same files.
LEMMA ResultTail ==
    ASSUME NEW f, NEW ws \in Seq(FileWrite), Len(ws) \in 2..4
    PROVE  /\ Result(After(f, Head(ws)), Tail(ws)) = Result(f, ws)
           /\ Tail(ws) \in Seq(FileWrite) /\ Len(Tail(ws)) \in 1..3
<1>1. /\ Tail(ws) \in Seq(FileWrite) /\ Len(Tail(ws)) = Len(ws) - 1
      /\ \A i, j \in 1..Len(ws) : j = i + 1 => Tail(ws)[i] = ws[j]
      /\ Head(ws) = ws[1]
  OBVIOUS
<1>2. Tail(ws)[1] = ws[2]
  BY <1>1
<1>3. Len(ws) >= 3 => Tail(ws)[2] = ws[3]
  BY <1>1
<1>4. Len(ws) = 4 => Tail(ws)[3] = ws[4]
  <2>1. Len(ws) = 4 => 3 \in 1..Len(ws) /\ 4 \in 1..Len(ws) /\ 4 = 3 + 1
    OBVIOUS
  <2> QED
    BY <1>1, <2>1
<1> QED
  BY <1>1, <1>2, <1>3, <1>4 DEF Result

\* No new orphans: each view in the new files was there before or has a space,
\* and no view that is still there lost its space.
LEMMA OrphansShrink ==
    ASSUME NEW f, NEW g,
           \A v \in Views : g[v] # Absent => f[v] # Absent \/ v \in Named(g),
           \A v \in Views : g[v] # Absent /\ v \in Named(f) => v \in Named(g)
    PROVE  Orphans(g) \subseteq Orphans(f)
  BY DEF Orphans

\* The records that requests write.
LEMMA RecordFacts ==
    /\ \A st \in Status : Blank(st) \in PlainRec /\ Blank(st) \in SpaceRec
    /\ \A r \in SpaceRec, st \in Status :
           /\ [r EXCEPT !.status = st] \in SpaceRec
           /\ [r EXCEPT !.status = st].view = r.view
    /\ \A r \in SpaceRec, v \in Views : [r EXCEPT !.view = v] \in SpaceRec
    /\ \A r \in SpaceRec : Activated(r) \in SpaceRec /\ Activated(r).view = r.view
    /\ \A r \in SpaceRec, v \in PlainRec : Published(v, r) \in PlainRec
<1>1. NoLayers \in Layers
  BY ConstantsAssumption
<1>2. \A st \in Status : Blank(st) \in PlainRec /\ Blank(st) \in SpaceRec
  BY <1>1 DEF Blank, PlainRec, SpaceRec
<1>3. \A r \in SpaceRec, st \in Status :
          /\ [r EXCEPT !.status = st] \in SpaceRec
          /\ [r EXCEPT !.status = st].view = r.view
  BY DEF SpaceRec
<1>4. \A r \in SpaceRec, v \in Views : [r EXCEPT !.view = v] \in SpaceRec
  BY DEF SpaceRec
<1>5. \A r \in SpaceRec : Activated(r) \in SpaceRec /\ Activated(r).view = r.view
  BY DEF Activated, SpaceRec, Status
<1>6. \A r \in SpaceRec, v \in PlainRec : Published(v, r) \in PlainRec
  BY DEF Published, PlainRec, SpaceRec, Status
<1> QED
  BY <1>2, <1>3, <1>4, <1>5, <1>6

LEMMA SaveFacts ==
    /\ \A x \in Spaces, r \in SpaceRec : Save(x, r) \in FileWrite
    /\ \A x \in Views, r \in PlainRec : Save(x, r) \in FileWrite
    /\ \A x \in Spaces, r \in SpaceRec : SaveSnapshot(x, r) \in FileWrite
    /\ \A x \in Ids : Unlink(x) \in FileWrite
    /\ \A x \in Spaces : UnlinkSnapshot(x) \in FileWrite
  BY ConstantsAssumption DEF Save, SaveSnapshot, Unlink, UnlinkSnapshot, FileWrite, Ids, PlainRec

\* A file that stays a record of the same view.
LEMMA SameView ==
    ASSUME NEW f \in [Ids -> File], NEW g \in [Ids -> File], NEW x \in Ids,
           f[x] \in SpaceRec, g[x] \in SpaceRec, g[x].view = f[x].view,
           \A y \in Ids : y # x => g[y] = f[y]
    PROVE  Named(g) = Named(f) /\ Orphans(g) = Orphans(f)
<1>1. Named(g) = Named(f)
  BY DEF Named, Ids
<1>2. \A v \in Views : g[v] = Absent <=> f[v] = Absent
  BY ConstantsAssumption DEF Ids
<1> QED
  BY <1>1, <1>2 DEF Orphans

LEMMA BeginInv ==
    ASSUME TypeOK, NEW op \in Ops \ {"rollback"}, NEW x \in Ids,
           NEW ws \in Seq(FileWrite), Len(ws) \in 1..4, Good(op, x, file, ws, Orphans(file)), Begin(op, x, ws)
    PROVE  IInv'
<1>1. /\ job' = Job(op, x, ws) /\ phase' = "up"
      /\ UNCHANGED <<file, snap, todo>>
  BY DEF Begin
<1>2. Job(op, x, ws) \in Jobs /\ Job(op, x, ws).writes = ws
  BY DEF Job, Jobs, Orphans
<1>3. TypeOK'
  BY <1>1, <1>2 DEF TypeOK
<1>4. JobInv'
  BY <1>1 DEF JobInv, Job
<1>5. SyncInv'
  BY <1>1 DEF SyncInv, SyncTodo, SyncJob, SyncedSoFar
<1> QED
  BY <1>3, <1>4, <1>5 DEF IInv

\* A view that is named is named by a management space, which is not a view.
LEMMA NamingFacts ==
    ASSUME TypeOK, NEW x \in Ids, Readable(x)
    PROVE  /\ file \in [Ids -> File] /\ file[x] \in SpaceRec
           /\ file[x].view # NoView => x \in Spaces /\ file[x].view \in Views
           /\ x \in Views => file[x] \in PlainRec
<1>1. file[x] \in SpaceRec /\ file[x] # Absent /\ file[x] # Torn
  BY ConstantsAssumption DEF Readable
<1>2. file \in [Ids -> File] /\ (x \in Views => file[x] \in PlainRec)
  BY <1>1 DEF TypeOK, Files
<1>3. file[x].view \in Views \cup {NoView} /\ x \in Spaces \cup Views
  BY <1>1 DEF SpaceRec, Ids
<1> QED
  BY <1>1, <1>2, <1>3 DEF PlainRec

\* One save of a record with the view it had: most requests do no more.
LEMMA SaveOneInv ==
    ASSUME TypeOK, NEW op \in Ops \ {"rollback"}, NEW x \in Ids, NEW rec \in SpaceRec,
           Readable(x), rec.view = file[x].view, Begin(op, x, <<Save(x, rec)>>),
           op \in Lifecycle => rec.view = NoView
                              \/ (op # "activate" /\ file[rec.view] = Absent)
    PROVE  IInv'
<1> DEFINE ws == <<Save(x, rec)>>
<1> DEFINE g == [file EXCEPT ![x] = rec]
<1>1. /\ file \in [Ids -> File] /\ file[x] \in SpaceRec
      /\ file[x].view # NoView => x \in Spaces /\ file[x].view \in Views
      /\ x \in Views => rec \in PlainRec
  BY NamingFacts DEF PlainRec
<1>2. Save(x, rec) \in FileWrite
  BY <1>1, SaveFacts DEF Ids
<1>3. Result(file, ws) = g
  <2>1. Result(file, ws) = After(file, Save(x, rec))
    BY Result1
  <2> QED
    BY <2>1 DEF After, Save
<1>4. Orphans(g) = Orphans(file)
  <2>1. g \in [Ids -> File] /\ g[x] = rec /\ \A y \in Ids : y # x => g[y] = file[y]
    BY <1>1 DEF File
  <2> HIDE DEF g
  <2> QED
    BY <1>1, <2>1, SameView
<1>5. Spares(file, ws)
  BY <1>1, ConstantsAssumption DEF Spares, Save
<1>6. op \in Lifecycle => Agrees(op, x, g)
  <2>1. g[x] = rec /\ (rec.view # NoView => g[rec.view] = file[rec.view])
    BY <1>1, ConstantsAssumption DEF Ids
  <2> QED
    BY <2>1 DEF Agrees
<1>7. ws \in Seq(FileWrite) /\ Len(ws) \in 1..4
  BY <1>2
<1>8. Good(op, x, file, ws, Orphans(file))
  BY <1>3, <1>4, <1>5, <1>6 DEF Good
<1> QED
  BY <1>7, <1>8, BeginInv

\* The space and then its view.
LEMMA SaveBothInv ==
    ASSUME TypeOK, NEW op \in Lifecycle, NEW x \in Ids, NEW rec \in SpaceRec,
           NEW view, NEW pub \in PlainRec,
           Readable(x), rec.view = file[x].view, view = rec.view, view # NoView,
           file[view] \in SpaceRec,
           Begin(op, x, <<Save(x, rec), Save(view, pub)>>),
           pub.status = IF op = "activate" THEN "active" ELSE rec.status,
           op = "activate" => pub.layers = rec.layers /\ pub.entities = rec.entities
    PROVE  IInv'
<1> DEFINE ws == <<Save(x, rec), Save(view, pub)>>
<1> DEFINE f1 == [file EXCEPT ![x] = rec]
<1> DEFINE g == [f1 EXCEPT ![view] = pub]
<1>1. /\ file \in [Ids -> File] /\ file[x] \in SpaceRec
      /\ x \in Spaces /\ view \in Views /\ x # view
      /\ file[view] \in PlainRec
  <2>1. /\ file \in [Ids -> File] /\ file[x] \in SpaceRec
        /\ x \in Spaces /\ view \in Views
    BY NamingFacts
  <2>2. view \in Ids /\ Readable(view)
    BY <2>1 DEF Ids, Readable
  <2> QED
    BY <2>1, <2>2, NamingFacts, ConstantsAssumption
<1>2. Save(x, rec) \in FileWrite /\ Save(view, pub) \in FileWrite
  BY <1>1, SaveFacts
<1>3. Result(file, ws) = g
  <2>1. Result(file, ws) = After(After(file, Save(x, rec)), Save(view, pub))
    BY Result2
  <2>2. After(file, Save(x, rec)) = f1
    BY DEF After, Save
  <2>3. After(f1, Save(view, pub)) = g
    BY DEF After, Save
  <2> QED
    BY <2>1, <2>2, <2>3
<1>4. Orphans(g) = Orphans(file)
  <2>1. f1 \in [Ids -> File] /\ Orphans(f1) = Orphans(file)
    <3>1. f1 \in [Ids -> File] /\ f1[x] = rec /\ \A y \in Ids : y # x => f1[y] = file[y]
      BY <1>1 DEF File
    <3> HIDE DEF f1
    <3> QED
      BY <1>1, <3>1, SameView
  <2>2. f1[view] \in SpaceRec /\ pub \in SpaceRec /\ pub.view = f1[view].view
    BY <1>1 DEF PlainRec, Ids
  <2>3. Orphans(g) = Orphans(f1)
    <3> HIDE DEF f1
    <3>1. /\ g \in [Ids -> File] /\ view \in Ids /\ g[view] = pub
          /\ \A y \in Ids : y # view => g[y] = f1[y]
      BY <1>1, <2>1, <2>2 DEF File, Ids
    <3> HIDE DEF g
    <3> QED
      BY <2>1, <2>2, <3>1, SameView
  <2> QED
    BY <2>1, <2>3
<1>5. Spares(file, ws)
  <2>1. /\ Len(ws) = 2 /\ ws[1] = Save(x, rec) /\ ws[2] = Save(view, pub)
    OBVIOUS
  <2> QED
    BY <1>1, <2>1, ConstantsAssumption DEF Spares, Save
<1>6. Agrees(op, x, g)
  <2>1. g[x] = rec /\ g[view] = pub /\ pub \in SpaceRec
    BY <1>1 DEF Ids, PlainRec
  <2> QED
    BY <2>1 DEF Agrees
<1>7. ws \in Seq(FileWrite) /\ Len(ws) \in 1..4
  BY <1>2
<1>8. Good(op, x, file, ws, Orphans(file))
  BY <1>3, <1>4, <1>5, <1>6 DEF Good
<1> QED
  BY <1>7, <1>8, BeginInv DEF Lifecycle, Ops

\* A space that gets a new view, and had none or one that is gone.
LEMMA NewView ==
    ASSUME NEW g, NEW x \in Spaces, NEW v \in Views,
           g[x] \in SpaceRec, g[x].view = v,
           \A y \in Ids : y # x /\ y # v => g[y] = file[y],
           Readable(x) => file[x].view = NoView \/ file[file[x].view] = Absent
    PROVE  Orphans(g) \subseteq Orphans(file)
<1>1. v \in Named(g)
  BY DEF Named
<1>2. \A y \in Views : y # v => g[y] = file[y]
  BY ConstantsAssumption DEF Ids
<1>3. ASSUME NEW y \in Views, g[y] # Absent, y \in Named(file) PROVE y \in Named(g)
  <2>1. CASE y = v
    BY <1>1, <2>1
  <2>2. CASE y # v
    <3>1. PICK s \in Spaces : file[s] \in SpaceRec /\ file[s].view = y
      BY <1>3 DEF Named
    <3>2. s # x
      BY <1>2, <1>3, <2>2, <3>1, ConstantsAssumption DEF Readable
    <3>3. g[s] = file[s]
      BY <3>2, ConstantsAssumption DEF Ids
    <3> QED
      BY <3>1, <3>3 DEF Named
  <2> QED
    BY <2>1, <2>2
<1>4. \A y \in Views : g[y] # Absent => file[y] # Absent \/ y \in Named(g)
  BY <1>1, <1>2
<1> QED
  BY <1>3, <1>4, OrphansShrink

-----------------------------------------------------------------------------
\* The requests.

LEMMA EditInv ==
    ASSUME TypeOK, NEW x \in Ids,
           \/ \E st \in Status : UpdateSpace(x, st)
           \/ \E l \in Layers : EditLayers(x, l)
           \/ \E E \in SUBSET Entities : EditInstances(x, E)
    PROVE  IInv'
<1>1. PICK op \in {"update", "edit"}, rec \in SpaceRec :
          /\ Readable(x) /\ rec.view = file[x].view
          /\ Begin(op, x, <<Save(x, rec)>>)
  <2>1. Readable(x) /\ file[x] \in SpaceRec
    BY DEF UpdateSpace, EditLayers, EditInstances, Readable
  <2>2. CASE \E st \in Status : UpdateSpace(x, st)
    <3>1. PICK st \in Status : UpdateSpace(x, st)
      BY <2>2
    <3>2. /\ [file[x] EXCEPT !.status = st] \in SpaceRec
          /\ [file[x] EXCEPT !.status = st].view = file[x].view
      BY <2>1, RecordFacts
    <3> QED
      BY <2>1, <3>1, <3>2 DEF UpdateSpace
  <2>3. CASE \E l \in Layers : EditLayers(x, l)
    <3>1. PICK l \in Layers : EditLayers(x, l)
      BY <2>3
    <3>2. /\ [file[x] EXCEPT !.layers = l] \in SpaceRec
          /\ [file[x] EXCEPT !.layers = l].view = file[x].view
      BY <2>1 DEF SpaceRec
    <3> QED
      BY <2>1, <3>1, <3>2 DEF EditLayers
  <2>4. CASE \E E \in SUBSET Entities : EditInstances(x, E)
    <3>1. PICK E \in SUBSET Entities : EditInstances(x, E)
      BY <2>4
    <3>2. /\ [file[x] EXCEPT !.entities = E] \in SpaceRec
          /\ [file[x] EXCEPT !.entities = E].view = file[x].view
      BY <2>1 DEF SpaceRec
    <3> QED
      BY <2>1, <3>1, <3>2 DEF EditInstances
  <2> QED
    BY <2>2, <2>3, <2>4
<1> QED
  BY <1>1, SaveOneInv DEF Ops, Lifecycle

LEMMA WithdrawInv ==
    ASSUME TypeOK, NEW x \in Ids, Deactivate(x) \/ Archive(x)
    PROVE  IInv'
<1>1. PICK op \in {"deactivate", "archive"}, status \in Status : Withdraw(x, op, status)
  BY DEF Deactivate, Archive, Status
<1> DEFINE rec == [file[x] EXCEPT !.status = status]
<1> DEFINE view == rec.view
<1>2. Readable(x) /\ file[x] \in SpaceRec
  BY <1>1 DEF Withdraw, Readable
<1>3. /\ rec \in SpaceRec /\ view = file[x].view /\ rec.status = status
      /\ view # NoView => view \in Views
  BY <1>2, RecordFacts, NamingFacts DEF SpaceRec
<1>4. CASE view = NoView \/ file[view] = Absent
  <2>1. Begin(op, x, <<Save(x, rec)>>)
    BY <1>1, <1>4 DEF Withdraw
  <2> HIDE DEF rec
  <2> QED
    BY <1>2, <1>3, <1>4, <2>1, SaveOneInv DEF Ops, Lifecycle
<1>5. CASE view # NoView /\ file[view] = Torn
  <2>1. Begin("fail", x, <<Save(x, rec)>>)
    BY <1>1, <1>5, ConstantsAssumption DEF Withdraw
  <2> HIDE DEF rec
  <2> QED
    BY <1>2, <1>3, <2>1, SaveOneInv DEF Ops, Lifecycle
<1>6. CASE view # NoView /\ file[view] # Absent /\ file[view] # Torn
  <2> DEFINE pub == [file[view] EXCEPT !.status = status]
  <2>1. Begin(op, x, <<Save(x, rec), Save(view, pub)>>)
    BY <1>1, <1>6 DEF Withdraw
  <2>2. file[view] \in PlainRec
    BY <1>3, <1>6 DEF TypeOK, Files
  <2>3. pub \in PlainRec /\ pub.status = status
    BY <2>2 DEF PlainRec, SpaceRec
  <2> HIDE DEF rec, pub
  <2>4. file[view] \in SpaceRec
    BY <2>2 DEF PlainRec
  <2> QED
    BY <1>2, <1>3, <1>6, <2>1, <2>3, <2>4, SaveBothInv DEF Lifecycle
<1> QED
  BY <1>4, <1>5, <1>6

\* The four saves of an activation whose view is gone.
LEMMA ReplaceInv ==
    ASSUME TypeOK, NEW x \in Ids, NEW rec \in SpaceRec, NEW v \in Views,
           Readable(x), rec.view = file[x].view, rec.view # NoView,
           file[rec.view] = Absent, IsFresh(v),
           Begin("activate", x, ReplaceView(x, rec, v))
    PROVE  IInv'
<1> DEFINE named == [rec EXCEPT !.view = v]
<1> DEFINE blank == Blank("active")
<1> DEFINE pub == Published(blank, rec)
<1> DEFINE ws == <<Save(x, rec), Save(x, named), Save(v, blank), Save(v, pub)>>
<1>1. x \in Spaces /\ x # v /\ file \in [Ids -> File] /\ file[x] \in SpaceRec
  BY NamingFacts, ConstantsAssumption
<1>2. /\ named \in SpaceRec /\ named.view = v /\ blank \in PlainRec /\ pub \in PlainRec
      /\ pub.status = "active" /\ pub.layers = named.layers /\ pub.entities = named.entities
  <2>1. named \in SpaceRec /\ named.view = v
    BY DEF SpaceRec
  <2>2. blank \in PlainRec /\ pub \in PlainRec
    BY RecordFacts DEF Status
  <2>3. pub.status = "active" /\ pub.layers = named.layers /\ pub.entities = named.entities
    BY <2>2 DEF Published, Blank, SpaceRec
  <2> QED
    BY <2>1, <2>2, <2>3
<1> HIDE DEF named, blank, pub
<1>3. ws \in Seq(FileWrite) /\ Len(ws) \in 1..4
  <2>1. /\ Save(x, rec) \in FileWrite /\ Save(x, named) \in FileWrite
        /\ Save(v, blank) \in FileWrite /\ Save(v, pub) \in FileWrite
    BY <1>1, <1>2, SaveFacts
  <2> QED
    BY <2>1
<1>4. PICK g \in [Ids -> File] :
          /\ Result(file, ws) = g
          /\ g[x] = named /\ g[v] = pub
          /\ \A y \in Ids : y # x /\ y # v => g[y] = file[y]
  <2> DEFINE f1 == [file EXCEPT ![x] = rec]
  <2> DEFINE f2 == [f1 EXCEPT ![x] = named]
  <2> DEFINE f3 == [f2 EXCEPT ![v] = blank]
  <2> DEFINE g == [f3 EXCEPT ![v] = pub]
  <2>1. Result(file, ws) = After(After(After(After(file, Save(x, rec)), Save(x, named)),
                                       Save(v, blank)), Save(v, pub))
    BY Result4
  <2>2. After(file, Save(x, rec)) = f1
    BY DEF After, Save
  <2>3. After(f1, Save(x, named)) = f2
    BY DEF After, Save
  <2>4. After(f2, Save(v, blank)) = f3
    BY DEF After, Save
  <2>5. After(f3, Save(v, pub)) = g
    BY DEF After, Save
  <2>6. Result(file, ws) = g
    <3> HIDE DEF f1, f2, f3, g, ws
    <3> QED
      BY <2>1, <2>2, <2>3, <2>4, <2>5
  <2>7. /\ g \in [Ids -> File] /\ g[x] = named /\ g[v] = pub
        /\ \A y \in Ids : y # x /\ y # v => g[y] = file[y]
    BY <1>1, <1>2 DEF File, PlainRec, Ids
  <2> HIDE DEF g, ws
  <2> QED
    BY <2>6, <2>7
<1>5. Orphans(g) \subseteq Orphans(file)
  BY <1>1, <1>2, <1>4, NewView
<1>6. Agrees("activate", x, g)
  BY <1>2, <1>4 DEF Agrees, PlainRec
<1>7. Spares(file, ws)
  <2>1. /\ Len(ws) = 4 /\ ws[1] = Save(x, rec) /\ ws[2] = Save(x, named)
        /\ ws[3] = Save(v, blank) /\ ws[4] = Save(v, pub)
    OBVIOUS
  <2> HIDE DEF ws
  <2> QED
    BY <1>1, <2>1, ConstantsAssumption DEF Spares, Save
<1>8. Good("activate", x, file, ws, Orphans(file))
  BY <1>4, <1>5, <1>6, <1>7 DEF Good
<1>9. Begin("activate", x, ws)
  BY DEF ReplaceView, named, blank, pub
<1> HIDE DEF ws
<1> QED
  BY <1>3, <1>8, <1>9, BeginInv DEF Ops

LEMMA ActivateInv ==
    ASSUME TypeOK, NEW x \in Ids, Activate(x)
    PROVE  IInv'
<1> DEFINE rec == Activated(file[x])
<1> DEFINE view == rec.view
<1>1. Readable(x) /\ file[x] \in SpaceRec
  BY DEF Activate, Readable
<1>2. rec \in SpaceRec /\ view = file[x].view /\ (view # NoView => view \in Views)
  BY <1>1, RecordFacts, NamingFacts
<1>3. \/ view = NoView /\ Begin("activate", x, <<Save(x, rec)>>)
      \/ Begin("fail", x, <<Save(x, rec)>>)
      \/ /\ view # NoView /\ file[view] \in SpaceRec
         /\ Begin("activate", x, <<Save(x, rec), Save(view, Published(file[view], rec))>>)
      \/ /\ view # NoView /\ file[view] = Absent
         /\ \E v \in Views : IsFresh(v) /\ Begin("activate", x, ReplaceView(x, rec, v))
  BY DEF Activate
<1> HIDE DEF rec
<1>4. CASE view = NoView /\ Begin("activate", x, <<Save(x, rec)>>)
  BY <1>1, <1>2, <1>4, SaveOneInv DEF Ops, Lifecycle
<1>5. CASE Begin("fail", x, <<Save(x, rec)>>)
  BY <1>1, <1>2, <1>5, SaveOneInv DEF Ops, Lifecycle
<1>6. CASE /\ view # NoView /\ file[view] \in SpaceRec
           /\ Begin("activate", x, <<Save(x, rec), Save(view, Published(file[view], rec))>>)
  <2> DEFINE pub == Published(file[view], rec)
  <2>1. file[view] \in PlainRec
    BY <1>2, <1>6, ConstantsAssumption DEF TypeOK, Files
  <2>2. pub \in PlainRec
    BY <1>2, <2>1, RecordFacts
  <2>3. pub.status = "active" /\ pub.layers = rec.layers /\ pub.entities = rec.entities
    BY <2>1 DEF Published, PlainRec, SpaceRec
  <2> HIDE DEF pub
  <2>4. Begin("activate", x, <<Save(x, rec), Save(view, pub)>>)
    BY <1>6 DEF pub
  <2> QED
    BY <1>1, <1>2, <1>6, <2>2, <2>3, <2>4, SaveBothInv DEF Lifecycle
<1>7. CASE /\ view # NoView /\ file[view] = Absent
           /\ \E v \in Views : IsFresh(v) /\ Begin("activate", x, ReplaceView(x, rec, v))
  BY <1>1, <1>2, <1>7, ReplaceInv
<1> QED
  BY <1>3, <1>4, <1>5, <1>6, <1>7

\* A new space, and its view is new with it.
LEMMA NewSpaceInv ==
    ASSUME TypeOK, NEW op \in {"create", "import"}, NEW s \in Spaces, file[s] = Absent,
           NEW rec \in SpaceRec, NEW named \in SpaceRec, NEW v \in Views,
           NEW blank \in PlainRec, named.view = v, NEW ws, Begin(op, s, ws),
           \/ ws = <<Save(s, rec), Save(v, blank), Save(s, named)>>
           \/ ws = <<Save(s, rec), Save(s, named), Save(v, blank)>>
    PROVE  IInv'
<1>1. s # v /\ file \in [Ids -> File] /\ s \in Ids
  BY ConstantsAssumption DEF TypeOK, Files, Ids
<1>2. ws \in Seq(FileWrite) /\ Len(ws) = 3
  <2>1. /\ Save(s, rec) \in FileWrite /\ Save(s, named) \in FileWrite
        /\ Save(v, blank) \in FileWrite
    BY SaveFacts
  <2>2. /\ <<Save(s, rec), Save(v, blank), Save(s, named)>> \in Seq(FileWrite)
        /\ <<Save(s, rec), Save(s, named), Save(v, blank)>> \in Seq(FileWrite)
    BY <2>1
  <2>3. CASE ws = <<Save(s, rec), Save(v, blank), Save(s, named)>>
    BY <2>2, <2>3
  <2>4. CASE ws = <<Save(s, rec), Save(s, named), Save(v, blank)>>
    BY <2>2, <2>4
  <2> QED
    BY <2>3, <2>4
<1>3. PICK g : /\ Result(file, ws) = g
               /\ g[s] = named
               /\ \A y \in Ids : y # s /\ y # v => g[y] = file[y]
  <2> DEFINE f1 == [file EXCEPT ![s] = rec]
  <2>1. After(file, Save(s, rec)) = f1
    BY DEF After, Save
  <2>2. CASE ws = <<Save(s, rec), Save(v, blank), Save(s, named)>>
    <3> DEFINE f2 == [f1 EXCEPT ![v] = blank]
    <3> DEFINE g == [f2 EXCEPT ![s] = named]
    <3>1. After(f1, Save(v, blank)) = f2
      BY DEF After, Save
    <3>2. After(f2, Save(s, named)) = g
      BY DEF After, Save
    <3>3. Result(file, ws) = After(After(After(file, Save(s, rec)), Save(v, blank)), Save(s, named))
      BY <2>2, Result3
    <3>4. g[s] = named /\ \A y \in Ids : y # s /\ y # v => g[y] = file[y]
      BY <1>1 DEF Ids
    <3> HIDE DEF f1, f2, g
    <3> QED
      BY <2>1, <3>1, <3>2, <3>3, <3>4
  <2>3. CASE ws = <<Save(s, rec), Save(s, named), Save(v, blank)>>
    <3> DEFINE f2 == [f1 EXCEPT ![s] = named]
    <3> DEFINE g == [f2 EXCEPT ![v] = blank]
    <3>1. After(f1, Save(s, named)) = f2
      BY DEF After, Save
    <3>2. After(f2, Save(v, blank)) = g
      BY DEF After, Save
    <3>3. Result(file, ws) = After(After(After(file, Save(s, rec)), Save(s, named)), Save(v, blank))
      BY <2>3, Result3
    <3>4. g[s] = named /\ \A y \in Ids : y # s /\ y # v => g[y] = file[y]
      BY <1>1 DEF Ids
    <3> HIDE DEF f1, f2, g
    <3> QED
      BY <2>1, <3>1, <3>2, <3>3, <3>4
  <2> QED
    BY <2>2, <2>3
<1>4. Orphans(g) \subseteq Orphans(file)
  BY <1>3, NewView, ConstantsAssumption DEF Readable
<1>5. Spares(file, ws)
  BY ConstantsAssumption DEF Spares, Save
<1>6. Good(op, s, file, ws, Orphans(file))
  BY <1>3, <1>4, <1>5 DEF Good, Lifecycle
<1> QED
  BY <1>2, <1>6, BeginInv DEF Ops, Ids

\* A new space without a view, or with one that is there.
LEMMA AddSpaceInv ==
    ASSUME TypeOK, NEW op \in {"create", "import"}, NEW s \in Spaces, file[s] = Absent,
           NEW rec \in SpaceRec, Begin(op, s, <<Save(s, rec)>>)
    PROVE  IInv'
<1> DEFINE ws == <<Save(s, rec)>>
<1> DEFINE g == [file EXCEPT ![s] = rec]
<1>1. ws \in Seq(FileWrite) /\ Len(ws) = 1
  BY SaveFacts
<1>2. Result(file, ws) = g
  <2>1. Result(file, ws) = After(file, Save(s, rec))
    BY Result1
  <2> QED
    BY <2>1 DEF After, Save
<1>3. /\ g[s] = rec /\ file[s] \notin SpaceRec
      /\ \A y \in Ids : y # s => g[y] = file[y]
      /\ \A y \in Views : y \in Ids /\ y # s
  BY ConstantsAssumption DEF TypeOK, Files, Ids
<1>4. Orphans(g) \subseteq Orphans(file)
  <2> HIDE DEF g
  <2>1. Named(file) \subseteq Named(g)
    BY <1>3 DEF Named, Ids
  <2> QED
    BY <1>3, <2>1 DEF Orphans
<1>5. Spares(file, ws)
  BY ConstantsAssumption DEF Spares, Save
<1>6. Good(op, s, file, ws, Orphans(file))
  BY <1>2, <1>4, <1>5 DEF Good, Lifecycle
<1>7. Begin(op, s, ws) /\ s \in Ids /\ op \in Ops
  BY DEF Ids, Ops
<1> HIDE DEF ws
<1> QED
  BY <1>1, <1>6, <1>7, BeginInv

LEMMA CreateInv ==
    ASSUME TypeOK, NEW s \in Spaces, CreateSpace(s)
    PROVE  IInv'
<1> DEFINE new == Blank("draft")
<1>1. new \in SpaceRec /\ new \in PlainRec /\ file[s] = Absent
  BY RecordFacts DEF Status, CreateSpace
<1>2. CASE Begin("create", s, <<Save(s, new)>>)
  BY <1>1, <1>2, AddSpaceInv
<1>3. CASE \E v \in Views : Begin("create", s, <<Save(s, new), Save(v, new),
                                                Save(s, [new EXCEPT !.view = v])>>)
  <2>1. PICK v \in Views : Begin("create", s, <<Save(s, new), Save(v, new),
                                               Save(s, [new EXCEPT !.view = v])>>)
    BY <1>3
  <2> DEFINE named == [new EXCEPT !.view = v]
  <2>2. named \in SpaceRec /\ named.view = v
    <3> HIDE DEF new
    <3> QED
      BY <1>1 DEF SpaceRec
  <2> HIDE DEF new, named
  <2>3. Begin("create", s, <<Save(s, new), Save(v, new), Save(s, named)>>)
    BY <2>1 DEF named
  <2> QED
    BY <1>1, <2>2, <2>3, NewSpaceInv
<1> QED
  BY <1>2, <1>3 DEF CreateSpace

LEMMA LoadInv ==
    ASSUME TypeOK, NEW s \in Spaces, NEW rec \in Exports, LoadFromJson(s, rec)
    PROVE  IInv'
<1>1. rec \in SpaceRec
  <2>2. {file[x] : x \in {y \in Spaces : Readable(y)}} \subseteq SpaceRec
    BY DEF Readable
  <2>3. [status : {"draft", "active"}, view : {NoView}, layers : Layers \ {NoLayers},
         entities : {Entities}, versions : {{}}] \subseteq SpaceRec
    BY DEF SpaceRec, Status
  <2> QED
    BY <2>2, <2>3 DEF Exports
<1>2. file[s] = Absent
  BY DEF LoadFromJson
<1>3. CASE Begin("import", s, <<Save(s, rec)>>)
  BY <1>1, <1>2, <1>3, AddSpaceInv
<1>4. CASE \E v \in Views : Begin("import", s, <<Save(s, rec), Save(s, [rec EXCEPT !.view = v]),
                                                Save(v, Blank("active"))>>)
  <2>1. PICK v \in Views : Begin("import", s, <<Save(s, rec), Save(s, [rec EXCEPT !.view = v]),
                                               Save(v, Blank("active"))>>)
    BY <1>4
  <2> DEFINE named == [rec EXCEPT !.view = v]
  <2> DEFINE blank == Blank("active")
  <2>2. named \in SpaceRec /\ named.view = v
    BY <1>1 DEF SpaceRec
  <2>3. blank \in PlainRec
    BY RecordFacts DEF Status
  <2>4. Begin("import", s, <<Save(s, rec), Save(s, named), Save(v, blank)>>)
    BY <2>1
  <2> HIDE DEF named, blank
  <2> QED
    BY <1>1, <1>2, <2>2, <2>3, <2>4, NewSpaceInv
<1> QED
  BY <1>3, <1>4 DEF LoadFromJson

LEMMA DeleteInv ==
    ASSUME TypeOK, NEW x \in Ids, DeleteSpace(x)
    PROVE  IInv'
<1> DEFINE view == file[x].view
<1>1. Readable(x)
  BY DEF DeleteSpace
<1>2. /\ file \in [Ids -> File] /\ file[x] \in SpaceRec /\ file[x] # Torn
      /\ view # NoView => x \in Spaces /\ view \in Views /\ view \in Ids
  BY <1>1, NamingFacts, ConstantsAssumption DEF Ids
<1>3. ASSUME NEW g, g[x] = Absent, view # NoView => g[view] = Absent,
             \A y \in Ids : y # x /\ (y \in Spaces \/ y # view) => g[y] = file[y]
      PROVE  Orphans(g) \subseteq Orphans(file)
  <2>1. ASSUME NEW y \in Views, g[y] # Absent, y \in Named(file) PROVE y \in Named(g)
    <3>1. PICK s \in Spaces : file[s] \in SpaceRec /\ file[s].view = y
      BY <2>1 DEF Named
    <3>2. s # x
      BY <1>3, <2>1, <3>1, ConstantsAssumption
    <3> QED
      BY <1>3, <3>1, <3>2 DEF Named, Ids
  <2>2. \A y \in Views : g[y] # Absent => file[y] # Absent
    BY <1>2, <1>3, ConstantsAssumption DEF Ids
  <2> QED
    BY <2>1, <2>2, OrphansShrink
<1> DEFINE kept == ~(x \in Spaces /\ snap[x] # Absent)
<1> DEFINE d == UnlinkSnapshot(x)
<1>4. CASE view # NoView /\ file[view] # Absent
  <2> DEFINE f1 == [file EXCEPT ![view] = Absent]
  <2> DEFINE g == [f1 EXCEPT ![x] = Absent]
  <2> DEFINE ws == IF kept THEN <<Unlink(view), Unlink(x)>>
                   ELSE <<Unlink(view), Unlink(x), d>>
  <2>1. After(After(file, Unlink(view)), Unlink(x)) = g
    <3>1. After(file, Unlink(view)) = f1
      BY DEF After, Unlink
    <3>2. After(f1, Unlink(x)) = g
      BY DEF After, Unlink
    <3> QED
      BY <3>1, <3>2
  <2>2. After(g, d) = g
    BY DEF After, UnlinkSnapshot
  <2> HIDE DEF d
  <2>4. Result(file, ws) = g
    <3> HIDE DEF g
    <3>1. CASE kept
      <4>1. ws = <<Unlink(view), Unlink(x)>>
        BY <3>1
      <4> HIDE DEF ws
      <4> QED
        BY <2>1, <4>1, Result2
    <3>2. CASE ~kept
      <4>1. ws = <<Unlink(view), Unlink(x), d>>
        BY <3>2
      <4> HIDE DEF ws
      <4> QED
        BY <2>1, <2>2, <4>1, Result3
    <3> QED
      BY <3>1, <3>2
  <2>5. Orphans(g) \subseteq Orphans(file)
    <3>1. /\ g[x] = Absent /\ g[view] = Absent
          /\ \A y \in Ids : y # x /\ (y \in Spaces \/ y # view) => g[y] = file[y]
      BY <1>2, <1>4, ConstantsAssumption
    <3> HIDE DEF g
    <3> QED
      BY <1>3, <3>1
  <2>6. ws \in Seq(FileWrite) /\ Len(ws) \in 1..4
    <3>1. Unlink(view) \in FileWrite /\ Unlink(x) \in FileWrite /\ (~kept => d \in FileWrite)
      BY <1>2, <1>4, SaveFacts DEF d
    <3>2. CASE kept
      BY <3>1, <3>2
    <3>3. CASE ~kept
      <4>1. <<Unlink(view), Unlink(x), d>> \in Seq(FileWrite)
        BY <3>1, <3>3
      <4> QED
        BY <3>3, <4>1
    <3> QED
      BY <3>2, <3>3
  <2>7. Spares(file, ws)
    <3>1. d.is_snap
      BY DEF d, UnlinkSnapshot
    <3>2. CASE kept
      BY <1>2, <1>4, <3>2, ConstantsAssumption DEF Spares, Unlink
    <3>3. CASE ~kept
      <4>1. ws = <<Unlink(view), Unlink(x), d>>
        BY <3>3
      <4>2. /\ Len(ws) = 3 /\ ws[1] = Unlink(view) /\ ws[2] = Unlink(x) /\ ws[3] = d
        BY <4>1
      <4> HIDE DEF ws
      <4> QED
        BY <1>2, <1>4, <3>1, <4>2, ConstantsAssumption DEF Spares, Unlink
    <3> QED
      BY <3>2, <3>3
  <2>8. Begin("delete", x, ws)
    <3>1. Begin("delete", x, <<Unlink(view)>> \o
                    (IF kept THEN <<Unlink(x)>> ELSE <<Unlink(x), d>>))
      BY <1>4 DEF DeleteSpace, d
    <3> DEFINE a == Unlink(view)
    <3> DEFINE b == Unlink(x)
    <3>2. kept => <<a>> \o <<b>> = <<a, b>>
      <4>1. a \in FileWrite /\ b \in FileWrite
        BY <1>2, <1>4, SaveFacts
      <4> HIDE DEF a, b, kept
      <4> QED
        BY <4>1, Joined
    <3>3. ~kept => <<a>> \o <<b, d>> = <<a, b, d>>
      <4>1. a \in FileWrite /\ b \in FileWrite /\ (~kept => d \in FileWrite)
        BY <1>2, <1>4, SaveFacts DEF d
      <4> HIDE DEF a, b, kept
      <4> QED
        BY <4>1, Joined
    <3>4. <<a>> \o (IF kept THEN <<b>> ELSE <<b, d>>) = ws
      <4> HIDE DEF kept
      <4> QED
        BY <3>2, <3>3
    <3> HIDE DEF ws, kept
    <3> QED
      BY <3>1, <3>4
  <2>9. Good("delete", x, file, ws, Orphans(file))
    BY <2>4, <2>5, <2>7 DEF Good, Lifecycle
  <2> HIDE DEF ws
  <2> QED
    BY <2>6, <2>8, <2>9, BeginInv DEF Ops
<1>5. CASE ~(view # NoView /\ file[view] # Absent)
  <2> DEFINE g == [file EXCEPT ![x] = Absent]
  <2> DEFINE ws == IF kept THEN <<Unlink(x)>> ELSE <<Unlink(x), d>>
  <2>1. After(file, Unlink(x)) = g
    BY DEF After, Unlink
  <2>2. After(g, d) = g
    BY DEF After, UnlinkSnapshot
  <2> HIDE DEF d
  <2>3. Result(file, ws) = g
    <3> HIDE DEF g
    <3>1. CASE kept
      <4>1. ws = <<Unlink(x)>>
        BY <3>1
      <4> HIDE DEF ws
      <4> QED
        BY <2>1, <4>1, Result1
    <3>2. CASE ~kept
      <4>1. ws = <<Unlink(x), d>>
        BY <3>2
      <4> HIDE DEF ws
      <4> QED
        BY <2>1, <2>2, <4>1, Result2
    <3> QED
      BY <3>1, <3>2
  <2>4. Orphans(g) \subseteq Orphans(file)
    <3>1. /\ g[x] = Absent
          /\ view # NoView => g[view] = Absent
          /\ \A y \in Ids : y # x /\ (y \in Spaces \/ y # view) => g[y] = file[y]
      BY <1>2, <1>5
    <3> HIDE DEF g
    <3> QED
      BY <1>3, <3>1
  <2>5. ws \in Seq(FileWrite) /\ Len(ws) \in 1..4
    <3>1. Unlink(x) \in FileWrite /\ (~kept => d \in FileWrite)
      BY SaveFacts DEF d
    <3>2. CASE kept
      BY <3>1, <3>2
    <3>3. CASE ~kept
      <4>1. <<Unlink(x), d>> \in Seq(FileWrite)
        BY <3>1, <3>3
      <4> QED
        BY <3>3, <4>1
    <3> QED
      BY <3>2, <3>3
  <2>6. Spares(file, ws)
    <3>1. d.is_snap
      BY DEF d, UnlinkSnapshot
    <3> QED
      BY <1>2, <3>1 DEF Spares, Unlink
  <2>7. Begin("delete", x, ws)
    BY <1>5 DEF DeleteSpace, d
  <2>8. Good("delete", x, file, ws, Orphans(file))
    BY <2>3, <2>4, <2>6 DEF Good, Lifecycle
  <2> HIDE DEF ws
  <2> QED
    BY <2>5, <2>7, <2>8, BeginInv DEF Ops
<1> QED
  BY <1>4, <1>5

LEMMA VersionInv ==
    ASSUME TypeOK, NEW s \in Spaces, CreateSnapshot(s)
    PROVE  IInv'
<1>1. Readable(s) /\ s \in Ids
  BY DEF CreateSnapshot, Ids
<1>2. file \in [Ids -> File] /\ file[s] \in SpaceRec /\ file[s] # Torn
  BY <1>1, NamingFacts, ConstantsAssumption
<1> DEFINE rec == [file[s] EXCEPT !.versions = {s}]
<1> DEFINE ws == <<SaveSnapshot(s, file[s]), Save(s, rec)>>
<1> DEFINE g == [file EXCEPT ![s] = rec]
<1>3. rec \in SpaceRec /\ rec.view = file[s].view
  BY <1>2 DEF SpaceRec
<1>4. Begin("snapshot", s, ws)
  BY DEF CreateSnapshot
<1> HIDE DEF rec
<1>5. ws \in Seq(FileWrite) /\ Len(ws) = 2
  <2>1. SaveSnapshot(s, file[s]) \in FileWrite /\ Save(s, rec) \in FileWrite
    BY <1>2, <1>3, SaveFacts
  <2> QED
    BY <2>1
<1>6. Result(file, ws) = After(After(file, SaveSnapshot(s, file[s])), Save(s, rec))
  BY Result2
<1>7. After(file, SaveSnapshot(s, file[s])) = file
  BY DEF After, SaveSnapshot
<1>8. After(file, Save(s, rec)) = g
  BY DEF After, Save
<1>9. Orphans(g) = Orphans(file)
  <2>1. g \in [Ids -> File] /\ g[s] = rec /\ \A y \in Ids : y # s => g[y] = file[y]
    BY <1>1, <1>2, <1>3 DEF File
  <2> HIDE DEF g
  <2> QED
    BY <1>1, <1>2, <1>3, <2>1, SameView
<1>10. Spares(file, ws)
  BY <1>2 DEF Spares, Save, SaveSnapshot
<1>11. Good("snapshot", s, file, ws, Orphans(file))
  BY <1>6, <1>7, <1>8, <1>9, <1>10 DEF Good, Lifecycle
<1> HIDE DEF ws
<1> QED
  BY <1>1, <1>4, <1>5, <1>11, BeginInv DEF Ops

\* The snapshot of a copy's source is saved over whatever the source is now.
LEMMA RollbackInv ==
    ASSUME TypeOK, NEW s \in Spaces, Rollback(s)
    PROVE  IInv'
<1>1. Readable(s) /\ s \in Ids
  BY DEF Rollback, Ids
<1>2. file[s] \in SpaceRec /\ file[s] # Torn
  BY <1>1, NamingFacts, ConstantsAssumption
<1>3. PICK o \in Spaces : /\ snap[o] \in SpaceRec
                          /\ Begin("rollback", s, <<Save(o, snap[o])>>)
  BY <1>2 DEF Rollback, SpaceRec
<1> DEFINE ws == <<Save(o, snap[o])>>
<1>4. ws \in Seq(FileWrite) /\ Len(ws) \in 1..4
  BY <1>3, SaveFacts
<1>5. Restores(s, file, snap, ws)
  BY <1>2, <1>3 DEF Restores
<1>6. Begin("rollback", s, ws)
  BY <1>3
<1> HIDE DEF ws
<1>7. /\ job' = Job("rollback", s, ws) /\ phase' = "up"
      /\ UNCHANGED <<file, snap, todo>>
  BY <1>6 DEF Begin
<1>8. /\ job' \in Jobs /\ job'.writes = ws /\ job'.op = "rollback" /\ job'.id = s
  BY <1>1, <1>4, <1>7 DEF Job, Jobs, Ops, Orphans
<1>9. TypeOK'
  BY <1>4, <1>7, <1>8 DEF TypeOK
<1>10. JobInv'
  BY <1>5, <1>7, <1>8 DEF JobInv, Good, Lifecycle
<1>11. SyncInv'
  BY <1>7 DEF SyncInv, SyncTodo, SyncJob, SyncedSoFar
<1> QED
  BY <1>9, <1>10, <1>11 DEF IInv

LEMMA RequestInv == IInv /\ Request => IInv'
<1> SUFFICES ASSUME IInv, Request PROVE IInv'
  OBVIOUS
<1>1. TypeOK /\ Spaces \subseteq Ids
  BY DEF IInv, Ids
<1>2. CASE \E s \in Spaces : \/ CreateSpace(s) \/ CreateSnapshot(s) \/ Rollback(s)
                            \/ \E rec \in Exports : LoadFromJson(s, rec)
  BY <1>1, <1>2, CreateInv, VersionInv, RollbackInv, LoadInv
<1>3. CASE \E x \in Ids :
              \/ Activate(x) \/ Deactivate(x) \/ Archive(x) \/ DeleteSpace(x)
              \/ \E st \in Status : UpdateSpace(x, st)
              \/ \E l \in Layers : EditLayers(x, l)
              \/ \E E \in SUBSET Entities : EditInstances(x, E)
  BY <1>1, <1>3, ActivateInv, WithdrawInv, DeleteInv, EditInv
<1> QED
  BY <1>2, <1>3 DEF Request

-----------------------------------------------------------------------------
\* The file system.

\* A write that is not the last one leaves its request as good as it was.
LEMMA WriteFacts ==
    ASSUME TypeOK, JobInv, job # Idle
    PROVE  /\ job \in Jobs /\ Len(job.writes) \in 1..4
           /\ job.writes \in Seq(FileWrite) /\ Head(job.writes) \in FileWrite
           /\ Head(job.writes) = job.writes[1]
           /\ job.op # "rollback" => Spares(file, job.writes)
           /\ job.op = "rollback" => Restores(job.id, file, snap, job.writes)
  BY DEF TypeOK, JobInv, Good, Jobs

LEMMA WrittenTyped ==
    ASSUME TypeOK, NEW w \in FileWrite, NEW u, Written(u),
           u.file = w.file, u.is_snap = w.is_snap,
           u.content = w.content \/ (u.content = Torn /\ w.content # Absent)
    PROVE  file' \in Files /\ snap' \in [Spaces -> File]
<1>1. /\ w.file \in Ids /\ w.content \in SpaceRec \cup {Absent}
      /\ w.file \in Views => ~w.is_snap /\ w.content \in PlainRec \cup {Absent}
  BY DEF FileWrite
<1> DEFINE c == u.content
<1>2. c \in File /\ (w.file \in Views => c \in PlainRec \cup {Absent, Torn})
  BY <1>1 DEF File
<1>3. CASE w.is_snap
  <2>1. w.file \in Spaces
    BY <1>1, <1>3 DEF Ids
  <2>2. snap' = [snap EXCEPT ![w.file] = c] /\ file' = file
    BY <1>1, <1>3 DEF Written
  <2> QED
    BY <1>2, <2>1, <2>2 DEF TypeOK
<1>4. CASE ~w.is_snap
  <2>1. file' = [file EXCEPT ![w.file] = c] /\ snap' = snap
    BY <1>1, <1>4 DEF Written
  <2>2. file' \in [Ids -> File]
    BY <1>1, <1>2, <2>1 DEF TypeOK, Files
  <2>3. \A v \in Views : file'[v] \in PlainRec \cup {Absent, Torn}
    BY <1>1, <1>2, <2>1, ConstantsAssumption DEF TypeOK, Files, Ids
  <2> QED
    BY <2>1, <2>2, <2>3 DEF TypeOK, Files
<1> QED
  BY <1>3, <1>4

LEMMA WriteInv ==
    ASSUME IInv, Write
    PROVE  IInv'
<1> DEFINE w == Head(job.writes)
<1>1. job # Idle /\ Written(w) /\ UNCHANGED <<phase, todo>>
  BY DEF Write
<1>2. /\ job \in Jobs /\ Len(job.writes) \in 1..4
      /\ job.writes \in Seq(FileWrite) /\ w \in FileWrite /\ w = job.writes[1]
      /\ job.op # "rollback" => Spares(file, job.writes)
      /\ job.op = "rollback" => Restores(job.id, file, snap, job.writes)
  BY <1>1, WriteFacts DEF IInv
<1>3. file' \in Files /\ snap' \in [Spaces -> File]
  <2> HIDE DEF w
  <2> QED
    BY <1>1, <1>2, WrittenTyped DEF IInv
<1>4. file' = After(file, w)
  BY <1>1 DEF Written, After
<1>5. CASE Len(job.writes) = 1
  <2>1. job' = Idle
    BY <1>5 DEF Write
  <2>2. TypeOK' /\ JobInv'
    BY <1>1, <1>3, <2>1 DEF TypeOK, JobInv, IInv
  <2>3. SyncInv'
    <3>1. CASE phase # "sync"
      BY <1>1, <3>1 DEF SyncInv, SyncTodo, SyncJob, SyncedSoFar
    <3>2. CASE phase = "sync"
      <4> DEFINE s == job.id
      <4> DEFINE v == file[s].view
      <4> DEFINE rec == [file[v] EXCEPT !.entities = file[s].entities]
      <4>1. /\ s \in Spaces /\ Readable(s) /\ v \in Views /\ Readable(v) /\ Behind(v, s)
            /\ w = Save(v, rec)
        BY <1>1, <3>2 DEF IInv, SyncInv, SyncJob
      <4>2. /\ file \in [Ids -> File]
            /\ \A y \in Ids : y # v => file'[y] = file[y]
            /\ file'[v] = rec
        <5>1. file' = [file EXCEPT ![v] = rec]
          <6> HIDE DEF rec, w, v
          <6> QED
            BY <1>4, <4>1 DEF After, Save
        <5> HIDE DEF rec
        <5> QED
          BY <4>1, <5>1 DEF IInv, TypeOK, Files, Ids
      <4>3. /\ \A y \in Spaces : y # v /\ file'[y] = file[y]
            /\ \A y \in Views : y # v => file'[y] = file[y]
        BY <4>1, <4>2, ConstantsAssumption DEF Ids
      <4>4. rec \in SpaceRec /\ rec.entities = file[s].entities
        BY <4>1 DEF Readable, SpaceRec
      <4>5. \A y \in Ids : Readable(y) =>
                /\ Cardinality(file[y].entities) \in Nat
        <5>1. \A E \in SUBSET Entities : Cardinality(E) \in Nat
          BY ConstantsAssumption, FS_Subset, FS_CardinalityType
        <5> QED
          BY <5>1 DEF Readable, SpaceRec
      <4> HIDE DEF rec, w, v
      <4>6. SyncTodo'
        BY <1>1, <4>3 DEF IInv, SyncInv, SyncTodo, Managed, Readable
      <4>7. SyncJob'
        BY <2>1 DEF SyncJob
      <4>8. SyncedSoFar'
        <5> SUFFICES ASSUME \A y \in Views : file'[y] # Torn,
                            NEW s2 \in Spaces, NEW v2 \in Views, s2 \notin todo,
                            Readable(s2)', file'[s2].view = v2, Readable(v2)'
                     PROVE  Cardinality(file'[v2].entities) >= Cardinality(file'[s2].entities)
          BY <1>1 DEF SyncedSoFar
        <5>1. \A y \in Views : file[y] # Torn
          BY <4>1, <4>3, ConstantsAssumption DEF Readable
        <5>2. Readable(s2) /\ file[s2].view = v2 /\ Readable(v2)
          BY <4>1, <4>3 DEF Readable
        <5>3. \/ s = s2
              \/ Cardinality(file[v2].entities) >= Cardinality(file[s2].entities)
          BY <3>2, <5>1, <5>2 DEF IInv, SyncInv, SyncedSoFar
        <5>4. /\ Cardinality(file[v2].entities) \in Nat /\ Cardinality(file[s2].entities) \in Nat
              /\ Cardinality(file[s].entities) \in Nat /\ Cardinality(file[v].entities) \in Nat
          BY <4>1, <4>5, <5>2 DEF Ids
        <5>5. CASE v2 = v
          BY <4>1, <4>2, <4>3, <4>4, <5>3, <5>4, <5>5 DEF Behind
        <5>6. CASE v2 # v
          BY <4>3, <5>2, <5>3, <5>4, <5>6 DEF v
        <5> QED
          BY <5>5, <5>6
      <4> QED
        BY <4>6, <4>7, <4>8 DEF SyncInv
    <3> QED
      BY <3>1, <3>2
  <2> QED
    BY <2>2, <2>3 DEF IInv
<1>6. CASE Len(job.writes) # 1
  <2>0. job.op # "rollback"
    <3> SUFFICES ASSUME job.op = "rollback" PROVE FALSE
      OBVIOUS
    <3>1. PICK o \in Spaces : job.writes = <<Save(o, snap[o])>>
      BY <1>2 DEF Restores
    <3>2. Len(job.writes) = 1
      BY <3>1
    <3> QED
      BY <1>6, <3>2
  <2>1. job' = [job EXCEPT !.writes = Tail(job.writes)]
    BY <1>6 DEF Write
  <2>2. /\ Tail(job.writes) \in Seq(FileWrite) /\ Len(Tail(job.writes)) \in 1..3
        /\ Result(file', Tail(job.writes)) = Result(file, job.writes)
    BY <1>2, <1>4, <1>6, ResultTail
  <2>3. /\ job' \in Jobs /\ job'.writes = Tail(job.writes) /\ job'.op = job.op
        /\ job'.id = job.id /\ job'.orphans = job.orphans
    BY <1>2, <2>1, <2>2 DEF Jobs
  <2>4. TypeOK'
    BY <1>1, <1>3, <2>2, <2>3 DEF TypeOK, IInv
  <2>5. Spares(file', job'.writes)
    <3>1. \A i \in 1..Len(Tail(job.writes)) :
              /\ i + 1 \in 1..Len(job.writes)
              /\ Tail(job.writes)[i] = job.writes[i + 1]
      BY <1>2, <1>6
    <3>2. \A s \in Spaces : file[s] # Torn => file'[s] # Torn
      <4>1. w.content # Torn
        BY <1>2, ConstantsAssumption DEF FileWrite
      <4> HIDE DEF w
      <4> QED
        BY <1>4, <4>1 DEF After, IInv, TypeOK, Files, Ids
    <3> QED
      BY <1>2, <2>3, <2>0, <3>1, <3>2 DEF Spares
  <2>6. JobInv'
    <3>1. Good(job.op, job.id, file, job.writes, job.orphans)
      BY <1>1 DEF IInv, JobInv
    <3> QED
      BY <2>2, <2>3, <2>5, <2>0, <3>1 DEF JobInv, Good
  <2>7. phase # "sync"
    <3>1. SyncJob => (phase = "sync" => Len(job.writes) = 1)
      BY <1>1 DEF SyncJob
    <3> QED
      BY <1>6, <3>1 DEF IInv, SyncInv
  <2> QED
    BY <1>1, <2>4, <2>6, <2>7 DEF IInv, SyncInv, SyncTodo, SyncJob, SyncedSoFar
<1> QED
  BY <1>5, <1>6

LEMMA StopInv ==
    ASSUME IInv, Crash \/ CrashInside
    PROVE  IInv'
<1>1. phase' = "down" /\ job' = Idle /\ todo' = {}
  BY DEF Crash, CrashInside, Stop
<1>2. file' \in Files /\ snap' \in [Spaces -> File]
  <2>1. CASE UNCHANGED <<file, snap>>
    BY <2>1 DEF IInv, TypeOK
  <2>2. CASE CrashInside
    <3> DEFINE w == Head(job.writes)
    <3>1. job # Idle /\ w.content # Absent /\ Written([w EXCEPT !.content = Torn])
      BY <2>2 DEF CrashInside
    <3> DEFINE u == [w EXCEPT !.content = Torn]
    <3>2. w \in FileWrite
      BY <3>1, WriteFacts DEF IInv
    <3> HIDE DEF w
    <3>3. u.file = w.file /\ u.is_snap = w.is_snap /\ u.content = Torn
      BY <3>2 DEF FileWrite
    <3> HIDE DEF u
    <3>4. Written(u)
      BY <3>1 DEF u
    <3> QED
      BY <3>1, <3>2, <3>3, <3>4, WrittenTyped DEF IInv
  <2> QED
    BY <2>1, <2>2 DEF Crash
<1>3. TypeOK' /\ JobInv' /\ SyncInv'
  BY <1>1, <1>2 DEF TypeOK, JobInv, SyncInv, SyncTodo, SyncJob, SyncedSoFar
<1> QED
  BY <1>3 DEF IInv

-----------------------------------------------------------------------------
\* The start of the server.

LEMMA LoadExampleInv ==
    ASSUME IInv, NEW s \in Spaces, LoadExample(s)
    PROVE  IInv'
<1>1. /\ phase = "examples" /\ job = Idle /\ s \in Examples /\ todo' \subseteq todo
      /\ UNCHANGED <<file, snap, phase>>
  BY DEF LoadExample, IInv, TypeOK
<1>2. SyncInv'
  BY <1>1 DEF SyncInv, SyncTodo, SyncJob, SyncedSoFar
<1>3. CASE UNCHANGED job
  BY <1>1, <1>2, <1>3 DEF IInv, TypeOK, JobInv
<1>4. CASE ~UNCHANGED job
  <2>1. PICK E \in {{}, Entities}, l \in Layers :
            /\ ExampleMissing(s)
            /\ job' = Job("example", s,
                  <<Save(s, [Reloaded(s, E) EXCEPT !.layers = IF Readable(s) THEN @ ELSE l]),
                    Save(ExampleView[s], Published(Blank("active"),
                        [Reloaded(s, E) EXCEPT !.layers = IF Readable(s) THEN @ ELSE l]))>>)
    BY <1>4 DEF LoadExample
  <2> DEFINE rec == [Reloaded(s, E) EXCEPT !.layers = IF Readable(s) THEN @ ELSE l]
  <2> DEFINE view == ExampleView[s]
  <2> DEFINE pub == Published(Blank("active"), rec)
  <2> DEFINE ws == <<Save(s, rec), Save(view, pub)>>
  <2>2. view \in Views
    BY <1>1, ConstantsAssumption
  <2>3. rec \in SpaceRec
    <3>1. E \in SUBSET Entities
      OBVIOUS
    <3>2. Reloaded(s, E) \in SpaceRec
      <4>1. CASE Readable(s)
        BY <3>1, <4>1 DEF Reloaded, Readable, SpaceRec
      <4>2. CASE ~Readable(s)
        <5> DEFINE blank == Blank("active")
        <5>1. blank \in SpaceRec
          BY RecordFacts DEF Status
        <5>2. Reloaded(s, E) = [blank EXCEPT !.view = view, !.entities = E]
          BY <4>2 DEF Reloaded
        <5> HIDE DEF blank, view
        <5>3. [blank EXCEPT !.view = view, !.entities = E] \in SpaceRec
          BY <2>2, <3>1, <5>1 DEF SpaceRec
        <5> QED
          BY <5>2, <5>3
      <4> QED
        BY <4>1, <4>2
    <3> DEFINE loaded == Reloaded(s, E)
    <3> HIDE DEF loaded
    <3>3. [loaded EXCEPT !.layers = IF Readable(s) THEN @ ELSE l] \in SpaceRec
      BY <3>2 DEF loaded, SpaceRec
    <3> QED
      BY <3>3 DEF loaded
  <2> HIDE DEF rec, view
  <2>4. pub \in PlainRec
    BY <2>3, RecordFacts DEF Status
  <2> HIDE DEF pub
  <2>5. ws \in Seq(FileWrite) /\ Len(ws) = 2
    <3>1. Save(s, rec) \in FileWrite /\ Save(view, pub) \in FileWrite
      BY <2>2, <2>3, <2>4, SaveFacts
    <3> QED
      BY <3>1
  <2>6. Spares(file, ws)
    <3>1. file[s] # Torn
      BY <2>1 DEF ExampleMissing
    <3>2. Len(ws) = 2 /\ ws[1] = Save(s, rec) /\ ws[2] = Save(view, pub)
      OBVIOUS
    <3> HIDE DEF ws
    <3> QED
      BY <2>2, <3>1, <3>2, ConstantsAssumption DEF Spares, Save
  <2>7. job' = Job("example", s, ws)
    BY <2>1 DEF rec, view, pub
  <2> HIDE DEF ws
  <2>8. job' \in Jobs /\ job'.writes = ws /\ job'.op = "example"
    BY <2>5, <2>7 DEF Job, Jobs, Ops, Orphans, Ids
  <2>9. JobInv'
    BY <1>1, <2>6, <2>8 DEF JobInv, Good, Lifecycle
  <2>10. TypeOK'
    BY <1>1, <2>5, <2>8 DEF IInv, TypeOK
  <2> QED
    BY <1>2, <2>9, <2>10 DEF IInv
<1> QED
  BY <1>3, <1>4

LEMMA SyncStepInv ==
    ASSUME IInv, NEW s \in Spaces, Sync(s)
    PROVE  IInv'
<1> DEFINE v == file[s].view
<1>1. /\ phase = "sync" /\ job = Idle /\ s \in todo
      /\ todo' = IF file[v] = Torn THEN {} ELSE todo \ {s}
      /\ UNCHANGED <<file, snap, phase>>
  BY DEF Sync
<1>2. Readable(s) /\ v \in Views /\ file \in [Ids -> File]
  <2>1. s \in Managed
    BY <1>1 DEF IInv, SyncInv, SyncTodo
  <2> QED
    BY <2>1, NamingFacts DEF Managed, IInv, Ids
<1>3. SyncTodo'
  <2>1. Managed' = Managed
    BY <1>1 DEF Managed, Readable
  <2> QED
    BY <1>1, <2>1 DEF IInv, SyncInv, SyncTodo
<1>4. \A s2 \in Spaces, v2 \in Views :
          (\A y \in Views : file[y] # Torn)
          /\ s2 \notin todo /\ Readable(s2) /\ file[s2].view = v2 /\ Readable(v2)
              => Cardinality(file[v2].entities) >= Cardinality(file[s2].entities)
  BY <1>1 DEF IInv, SyncInv, SyncedSoFar
<1>5. CASE Readable(v) /\ Behind(v, s)
  <2> DEFINE rec == [file[v] EXCEPT !.entities = file[s].entities]
  <2> DEFINE ws == <<Save(v, rec)>>
  <2>1. job' = Job("sync", s, ws)
    BY <1>5 DEF Sync
  <2>2. file[v] \in PlainRec
    BY <1>2, <1>5, NamingFacts DEF IInv, Ids
  <2>3. rec \in PlainRec /\ rec \in SpaceRec /\ rec.view = file[v].view
    BY <1>2, <2>2 DEF PlainRec, SpaceRec, Readable
  <2> DEFINE g == [file EXCEPT ![v] = rec]
  <2>4. Orphans(Result(file, ws)) \subseteq Orphans(file)
    <3> HIDE DEF rec, v
    <3>1. Result(file, ws) = After(file, Save(v, rec))
      BY Result1
    <3>2. After(file, Save(v, rec)) = g
      BY DEF After, Save
    <3>3. /\ g \in [Ids -> File] /\ v \in Ids /\ g[v] = rec
          /\ \A y \in Ids : y # v => g[y] = file[y]
      BY <1>2, <2>3 DEF File, Ids
    <3>4. file[v] \in SpaceRec
      BY <2>2 DEF PlainRec
    <3> HIDE DEF g, ws
    <3>5. Orphans(g) = Orphans(file)
      BY <1>2, <2>3, <3>3, <3>4, SameView
    <3> QED
      BY <3>1, <3>2, <3>5
  <2>5. ws \in Seq(FileWrite) /\ Len(ws) = 1
    <3> HIDE DEF rec, v
    <3> QED
      BY <1>2, <2>3, SaveFacts
  <2>6. Spares(file, ws)
    <3> HIDE DEF rec, v
    <3> QED
      BY <1>2, ConstantsAssumption DEF Spares, Save
  <2>7. ws = <<Save(v, [file[v] EXCEPT !.entities = file[s].entities])>>
    OBVIOUS
  <2> HIDE DEF ws
  <2>8. /\ job' \in Jobs /\ job'.writes = ws /\ job'.op = "sync" /\ job'.id = s
        /\ job'.orphans = Orphans(file) /\ job' # Idle
    BY <2>1, <2>5 DEF Job, Jobs, Ops, Orphans, Ids, Idle
  <2>9. JobInv'
    BY <1>1, <2>4, <2>6, <2>8 DEF JobInv, Good, Lifecycle
  <2>10. TypeOK'
    BY <1>1, <2>5, <2>8 DEF IInv, TypeOK
  <2>11. SyncJob'
    BY <1>1, <1>2, <1>5, <2>7, <2>8 DEF SyncJob, Readable, Behind
  <2>12. SyncedSoFar'
    BY <1>1, <1>2, <1>4, <2>8 DEF SyncedSoFar, Readable
  <2> QED
    BY <1>3, <2>9, <2>10, <2>11, <2>12 DEF IInv, SyncInv
<1>6. CASE ~(Readable(v) /\ Behind(v, s))
  <2>1. job' = Idle
    BY <1>1, <1>6 DEF Sync
  <2>2. TypeOK' /\ JobInv' /\ SyncJob'
    BY <1>1, <2>1 DEF IInv, TypeOK, JobInv, SyncJob
  <2>3. Readable(v) => Cardinality(file[v].entities) >= Cardinality(file[s].entities)
    <3>1. \A E \in SUBSET Entities : Cardinality(E) \in Nat
      BY ConstantsAssumption, FS_Subset, FS_CardinalityType
    <3>2. Readable(v) => /\ Cardinality(file[v].entities) \in Nat
                         /\ Cardinality(file[s].entities) \in Nat
      BY <1>2, <3>1 DEF Readable, SpaceRec
    <3> QED
      BY <1>6, <3>2 DEF Behind
  <2>4. SyncedSoFar'
    BY <1>1, <1>2, <1>4, <2>3 DEF SyncedSoFar, Readable
  <2> QED
    BY <1>3, <2>2, <2>4 DEF IInv, SyncInv
<1> QED
  BY <1>5, <1>6

LEMMA PhaseInv ==
    ASSUME IInv, Start \/ StartSync \/ Serve
    PROVE  IInv'
<1>1. UNCHANGED <<file, snap, job>>
  BY DEF Start, StartSync, Serve
<1>2. JobInv'
  BY <1>1 DEF IInv, JobInv
<1>3. CASE Start \/ Serve
  <2>1. TypeOK'
    BY <1>1, <1>3, ConstantsAssumption DEF Start, Serve, IInv, TypeOK
  <2>2. SyncInv'
    BY <1>3 DEF Start, Serve, SyncInv, SyncTodo, SyncJob, SyncedSoFar
  <2> QED
    BY <1>2, <2>1, <2>2 DEF IInv
<1>4. CASE StartSync
  <2>1. phase' = "sync" /\ todo' = Managed /\ Managed' = Managed /\ job' = Idle
    BY <1>1, <1>4 DEF StartSync, Managed, Readable
  <2>2. TypeOK'
    BY <1>1, <2>1 DEF IInv, TypeOK, Managed
  <2>3. \A s \in Spaces, v \in Views : Readable(s) /\ file[s].view = v => s \in Managed
    BY ConstantsAssumption DEF Managed
  <2>4. SyncInv'
    BY <1>1, <2>1, <2>3 DEF SyncInv, SyncTodo, SyncJob, SyncedSoFar, Readable
  <2> QED
    BY <1>2, <2>2, <2>4 DEF IInv
<1> QED
  BY <1>3, <1>4

-----------------------------------------------------------------------------
LEMMA InitInv == Init => IInv
<1> SUFFICES ASSUME Init PROVE IInv
  OBVIOUS
<1>1. TypeOK
  <2>1. file \in Files
    <3>1. Absent \in File
      BY DEF File
    <3>2. file \in [Ids -> File] /\ \A v \in Views : file[v] = Absent
      BY <3>1 DEF Init, Ids
    <3> QED
      BY <3>2 DEF Files
  <2>2. snap \in [Spaces -> File]
    BY DEF Init, File
  <2> QED
    BY <2>1, <2>2 DEF Init, TypeOK
<1>2. JobInv /\ SyncInv
  BY DEF Init, JobInv, SyncInv, SyncTodo, SyncJob, SyncedSoFar
<1> QED
  BY <1>1, <1>2 DEF IInv

LEMMA NextInv == IInv /\ [Next]_vars => IInv'
<1> SUFFICES ASSUME IInv, [Next]_vars PROVE IInv'
  OBVIOUS
<1>1. CASE Request
  BY <1>1, RequestInv
<1>2. CASE Write \/ Crash \/ CrashInside
  BY <1>2, WriteInv, StopInv
<1>3. CASE Start \/ StartSync \/ Serve
  BY <1>3, PhaseInv
<1>4. CASE \E s \in Spaces : LoadExample(s) \/ Sync(s)
  BY <1>4, LoadExampleInv, SyncStepInv
<1>5. CASE UNCHANGED vars
  <2>1. UNCHANGED <<file, snap, phase, todo, job>>
    BY <1>5 DEF vars
  <2>2. TypeOK' /\ JobInv'
    BY <2>1 DEF IInv, TypeOK, JobInv
  <2>3. SyncInv'
    BY <2>1 DEF IInv, SyncInv, SyncTodo, Managed, SyncJob, SyncedSoFar, Readable, Behind
  <2> QED
    BY <2>2, <2>3 DEF IInv
<1> QED
  BY <1>1, <1>2, <1>3, <1>4, <1>5 DEF Next

-----------------------------------------------------------------------------
\* A step that changes a file is a write, or stops inside one.
LEMMA FileStep ==
    ASSUME [Next]_vars, file' # file
    PROVE  Write \/ CrashInside
  BY DEF Next, vars, Request, CreateSpace, LoadFromJson, Activate, Deactivate, Archive,
         Withdraw, DeleteSpace, CreateSnapshot, Rollback, UpdateSpace, EditLayers,
         EditInstances, Begin, Crash, Start, StartSync, Serve, LoadExample, Sync

\* The files after the last write of a request are those its job promised.
LEMMA LastWrite ==
    ASSUME IInv, Completes
    PROVE  /\ Good(job.op, job.id, file, job.writes, job.orphans)
           /\ file' = Result(file, job.writes)
<1>1. job # Idle /\ job \in Jobs /\ Len(job.writes) = 1
  BY DEF Completes, Write, IInv, TypeOK
<1>2. Good(job.op, job.id, file, job.writes, job.orphans)
  BY <1>1 DEF IInv, JobInv
<1>3. Head(job.writes) = job.writes[1]
  BY <1>1 DEF Jobs
<1>4. file' = After(file, Head(job.writes))
  BY DEF Completes, Write, Written, After
<1> QED
  BY <1>1, <1>2, <1>3, <1>4 DEF Result

\* The inductive invariant holds of every behaviour: in particular every file
\* is of its type, a view names no view, and a running request has one to four
\* writes to come, none of which goes to a torn management space unless it is the
\* rollback of a copy.
THEOREM Invariance == Spec => []IInv
  BY InitInv, NextInv, PTL DEF Spec

\* activate_space, deactivate_space and archive_space, when they run to their
\* end, leave the space and its view in agreement.
THEOREM LifecycleDoesReachView == Spec => LifecycleReachesView
<1> DEFINE A == Completes /\ job.op \in {"activate", "deactivate", "archive"} =>
        LET s == job.id
            view == file'[s].view
        IN  view # NoView =>
            \/ /\ job.op = "activate"
               /\ file'[view] \in SpaceRec
               /\ file'[view].status = "active"
               /\ file'[view].layers = file'[s].layers
               /\ file'[view].entities = file'[s].entities
            \/ /\ job.op # "activate"
               /\ \/ file'[view] = Absent
                  \/ file'[view].status = file'[s].status
<1>1. IInv /\ [Next]_vars => A
  <2> SUFFICES ASSUME IInv, Completes, job.op \in Lifecycle
               PROVE  Agrees(job.op, job.id, file')
    BY DEF Lifecycle, Agrees
  <2> QED
    BY LastWrite DEF Good
<1> QED
  BY <1>1, Invariance, PTL DEF Spec, LifecycleReachesView

\* A request that runs to its end leaves no view without a space that had one
\* when it began, and creates none; rollback and the example cases may.
THEOREM NoOrphansAreMade == Spec => NoNewOrphans
<1>1. IInv /\ [Next]_vars =>
        (Completes /\ job.op \notin {"rollback", "example"} =>
            Orphans(file') \subseteq job.orphans)
  BY LastWrite DEF Good
<1> QED
  BY <1>1, Invariance, PTL DEF Spec, NoNewOrphans

\* No start of the server and no request overwrites or removes the torn file of
\* a management space, except the rollback of a copy, which saves the snapshot
\* of the space that was copied under that space's id.
THEOREM TornSpacesDoStay == Spec => TornSpacesStay
<1> DEFINE A == \A s \in Spaces : file[s] = Torn =>
          \/ file'[s] = Torn
          \/ job.op = "rollback" /\ job.id # s /\ file'[s] = snap[s]
<1>1. IInv /\ [Next]_vars => A
  <2> SUFFICES ASSUME IInv, [Next]_vars, NEW s \in Spaces, file[s] = Torn,
                      file'[s] # Torn
               PROVE  job.op = "rollback" /\ job.id # s /\ file'[s] = snap[s]
    OBVIOUS
  <2> DEFINE w == Head(job.writes)
  <2>1. Write \/ CrashInside
    BY FileStep
  <2>2. job # Idle /\ job \in Jobs /\ Len(job.writes) \in 1..4
    BY <2>1 DEF Write, CrashInside, IInv, TypeOK
  <2>3. w = job.writes[1] /\ 1 \in 1..Len(job.writes) /\ w \in FileWrite
    BY <2>2 DEF Jobs
  <2>4. file \in [Ids -> File] /\ s \in Ids
    BY DEF IInv, TypeOK, Files, Ids
  <2>5. /\ w.file = s /\ ~w.is_snap /\ file'[s] = w.content
    <3>1. CASE Write
      <4>1. Written(w)
        BY <3>1 DEF Write
      <4> HIDE DEF w
      <4> QED
        BY <2>4, <4>1 DEF Written
    <3>2. CASE CrashInside
      <4> DEFINE u == [w EXCEPT !.content = Torn]
      <4>1. Written(u)
        BY <3>2 DEF CrashInside
      <4>2. u.content = Torn
        BY <2>3 DEF FileWrite
      <4> HIDE DEF u
      <4> QED
        BY <2>4, <4>1, <4>2 DEF Written
    <3> QED
      BY <2>1, <3>1, <3>2
  <2>6. job.op = "rollback"
    <3>1. job.op # "rollback" => Spares(file, job.writes)
      BY <2>2 DEF IInv, JobInv, Good
    <3> QED
      BY <2>3, <2>5, <3>1 DEF Spares
  <2>7. PICK o \in Spaces : job.writes = <<Save(o, snap[o])>> /\ (o = job.id => file[o] # Torn)
    BY <2>2, <2>6 DEF IInv, JobInv, Restores
  <2>8. w = Save(o, snap[o])
    BY <2>3, <2>7
  <2> HIDE DEF w
  <2> QED
    BY <2>5, <2>6, <2>7, <2>8 DEF Save
<1> QED
  BY <1>1, Invariance, PTL DEF Spec, TornSpacesStay

\* When the server starts to serve and no view is torn, every view has at least
\* as many instances as each management space that names it.
THEOREM StartsInSync == Spec => SyncedAtStart
<1> DEFINE A == Serve /\ (\A v \in Views : file[v] # Torn) =>
        \A s \in Spaces, v \in Views :
            Readable(s) /\ file[s].view = v /\ Readable(v) =>
                Cardinality(file[v].entities) >= Cardinality(file[s].entities)
<1>1. IInv /\ [Next]_vars => A
  BY DEF Serve, IInv, SyncInv, SyncedSoFar
<1> QED
  BY <1>1, Invariance, PTL DEF Spec, SyncedAtStart
=============================================================================
