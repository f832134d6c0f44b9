------------------------ MODULE SpaceVersions_proofs ------------------------
(***************************************************************************)
(* Proofs about SpaceVersions: the file numbering survives every mixture   *)
(* of snapshots, rollbacks, copies, deletions and crashes, and it is what  *)
(* protects the snapshots that a space still lists.                        *)
(***************************************************************************)
EXTENDS SpaceVersions, SequenceTheorems, TLAPS

\* The entries of an object with id s belong to s, or s and the entry's owner
\* were both touched by a copy.
OwnersOK(rec) ==
    \A i \in 1..Len(rec.versions) :
        \/ rec.versions[i].owner = rec.id
        \/ {rec.versions[i].owner, rec.id} \subseteq copied

\* The snapshots an uncopied object lists are on disk.
RestorableRec(rec) ==
    rec.id \notin copied /\ Alone(rec.id) =>
        \A i \in 1..Len(rec.versions) : snap[rec.id][i] \in SpaceRec

FilesInv ==
    /\ \A s \in Spaces : space[s] \in SpaceRec =>
            /\ space[s].id = s
            /\ WellFormed(space[s])
            /\ OwnersOK(space[s])
            /\ RestorableRec(space[s])
    /\ \A s \in Spaces, n \in 1..MaxVersion : snap[s][n] \in SpaceRec =>
            /\ WellFormedSnapshot(snap[s][n], s, n)
            /\ OwnersOK(snap[s][n])

\* What a running request relies on: the object it is about to write is as
\* good as a file, and the file it read is still the one it read.
JobInv ==
    /\ job.op = "save" =>
          WellFormed(job.rec) /\ OwnersOK(job.rec) /\ RestorableRec(job.rec)
    /\ job.op = "snapfile" =>
          /\ space[job.req] = job.rec
          /\ Len(job.rec.versions) < MaxVersion
    /\ job.op = "unlinksnaps" => space[job.req] = Absent

IInv == TypeOK /\ FilesInv /\ JobInv

-----------------------------------------------------------------------------
LEMMA IsSeq ==
    ASSUME NEW S, NEW k \in Nat, NEW f \in [1..k -> S]
    PROVE  f \in Seq(S) /\ Len(f) = k
  BY SeqDef, LenProperties

LEMMA ListedFacts ==
    ASSUME NEW rec \in SpaceRec, WellFormed(rec), Len(rec.versions) < MaxVersion
    PROVE  /\ Listed(rec) \in SpaceRec
           /\ Listed(rec).id = rec.id
           /\ WellFormed(Listed(rec))
           /\ Len(Listed(rec).versions) = Len(rec.versions) + 1
           /\ \A i \in 1..Len(rec.versions) :
                 Listed(rec).versions[i].owner = rec.versions[i].owner
           /\ Listed(rec).versions[Len(rec.versions) + 1].owner = rec.id
<1> DEFINE n == Len(rec.versions) + 1
           vs == [i \in 1..n |->
                    IF i = n
                    THEN [version |-> n, owner |-> rec.id, is_stable |-> FALSE]
                    ELSE [rec.versions[i] EXCEPT
                             !.is_stable = rec.versions[i].version < n \/ @]]
<1>1. /\ rec.versions \in Seq(VersionRec)
      /\ rec.id \in Spaces
      /\ Len(rec.versions) \in Nat
      /\ n \in 1..MaxVersion
      /\ MaxVersion \in Nat
  BY ConstantsAssumption DEF SpaceRec
<1>2. ASSUME NEW i \in 1..n
      PROVE  /\ vs[i] \in VersionRec
             /\ vs[i].version = i
             /\ i < n => vs[i].is_stable /\ vs[i].owner = rec.versions[i].owner
             /\ i = n => vs[i].owner = rec.id
  <2>1. CASE i = n
    BY <1>1, <2>1 DEF VersionRec
  <2>2. CASE i # n
    <3>1. i \in 1..Len(rec.versions)
      BY <1>1, <2>2
    <3>2. rec.versions[i] \in VersionRec
      BY <1>1, <3>1, ElementOfSeq
    <3>3. rec.versions[i].version = i /\ i < n
      BY <1>1, <3>1 DEF WellFormed
    <3>4. vs[i] = [rec.versions[i] EXCEPT
                     !.is_stable = rec.versions[i].version < n \/ @]
      BY <2>2
    <3>5. vs[i] = [version |-> i, owner |-> rec.versions[i].owner,
                   is_stable |-> TRUE]
      BY <1>1, <3>2, <3>3, <3>4 DEF VersionRec
    <3> QED
      BY <1>1, <3>2, <3>3, <3>5 DEF VersionRec
  <2> QED BY <2>1, <2>2
<1>3. vs \in Seq(VersionRec) /\ Len(vs) = n
  <2>1. n \in Nat /\ DOMAIN vs = 1..n
    BY <1>1
  <2>2. vs = [i \in 1..n |-> vs[i]]
    OBVIOUS
  <2> HIDE DEF vs
  <2>3. vs \in [1..n -> VersionRec]
    BY <1>2, <2>2
  <2> QED
    BY <2>1, <2>3, IsSeq DEF n
<1>4. Listed(rec) = [rec EXCEPT !.versions = vs, !.active_version = n]
  BY DEF Listed, NewVersion
<1> HIDE DEF vs
<1>5. /\ Listed(rec) \in SpaceRec
      /\ Listed(rec).id = rec.id
      /\ Listed(rec).versions = vs
  BY <1>1, <1>3, <1>4 DEF SpaceRec
<1>6. WellFormed(Listed(rec))
  BY <1>1, <1>2, <1>3, <1>5 DEF WellFormed
<1> QED
  BY <1>1, <1>2, <1>3, <1>5, <1>6

LEMMA RestoredFacts ==
    ASSUME NEW rec \in SpaceRec, NEW n \in 1..MaxVersion,
           WellFormed(rec), Len(rec.versions) = n - 1
    PROVE  /\ Restored(rec, n) \in SpaceRec
           /\ Restored(rec, n).id = rec.id
           /\ WellFormed(Restored(rec, n))
           /\ Len(Restored(rec, n).versions) = n - 1
           /\ \A i \in 1..(n - 1) :
                 Restored(rec, n).versions[i].owner = rec.versions[i].owner
<1> DEFINE vs == [i \in 1..Len(rec.versions) |->
                    [rec.versions[i] EXCEPT
                        !.is_stable = rec.versions[i].version <= n]]
<1>1. /\ rec.versions \in Seq(VersionRec)
      /\ rec.id \in Spaces
      /\ Len(rec.versions) \in Nat
      /\ MaxVersion \in Nat
  BY ConstantsAssumption DEF SpaceRec
<1>2. ASSUME NEW i \in 1..Len(rec.versions)
      PROVE  /\ vs[i] \in VersionRec
             /\ vs[i].version = i
             /\ vs[i].is_stable
             /\ vs[i].owner = rec.versions[i].owner
  <2>1. rec.versions[i] \in VersionRec
    BY <1>1, ElementOfSeq
  <2>2. rec.versions[i].version = i /\ i <= n
    BY <1>1 DEF WellFormed
  <2>3. vs[i] = [version |-> i, owner |-> rec.versions[i].owner,
                 is_stable |-> TRUE]
    BY <1>1, <2>1, <2>2 DEF VersionRec
  <2> QED
    BY <2>1, <2>2, <2>3 DEF VersionRec
<1>3. vs \in Seq(VersionRec) /\ Len(vs) = n - 1
  <2>1. vs = [i \in 1..Len(rec.versions) |-> vs[i]]
    OBVIOUS
  <2> HIDE DEF vs
  <2>2. vs \in [1..Len(rec.versions) -> VersionRec]
    BY <1>2, <2>1
  <2> QED
    BY <1>1, <2>2, IsSeq
<1>4. Restored(rec, n) = [rec EXCEPT !.versions = vs, !.active_version = n]
  BY DEF Restored
<1> HIDE DEF vs
<1>5. /\ Restored(rec, n) \in SpaceRec
      /\ Restored(rec, n).id = rec.id
      /\ Restored(rec, n).versions = vs
  BY <1>1, <1>3, <1>4 DEF SpaceRec
<1>6. WellFormed(Restored(rec, n))
  BY <1>1, <1>2, <1>3, <1>5 DEF WellFormed
<1> QED
  BY <1>1, <1>2, <1>3, <1>5, <1>6

-----------------------------------------------------------------------------
\* Starting a request changes no file, and a copy only adds to copied.
LEMMA FilesKept ==
    ASSUME FilesInv, UNCHANGED <<space, snap>>, copied \subseteq copied'
    PROVE  FilesInv'
  BY DEF FilesInv, OwnersOK, RestorableRec

\* A request that will save an object leaves IInv if the object is as good as
\* a file.
LEMMA BeginSaveInv ==
    ASSUME IInv, NEW s \in Spaces, NEW rec \in SpaceRec,
           Begin("save", s, rec), copied \subseteq copied', copied' \subseteq Spaces,
           WellFormed(rec),
           \A i \in 1..Len(rec.versions) :
              \/ rec.versions[i].owner = rec.id
              \/ {rec.versions[i].owner, rec.id} \subseteq copied',
           rec.id \notin copied' /\ Alone(rec.id) =>
              \A i \in 1..Len(rec.versions) : snap[rec.id][i] \in SpaceRec
    PROVE  IInv'
<1>1. /\ job' = [op |-> "save", req |-> s, rec |-> rec]
      /\ UNCHANGED <<space, snap>>
  BY DEF Begin
<1>2. job' \in Pending
  BY <1>1 DEF Pending
<1>3. TypeOK'
  BY <1>1, <1>2 DEF IInv, TypeOK
<1>4. FilesInv'
  BY <1>1, FilesKept DEF IInv
<1>5. JobInv'
  BY <1>1 DEF JobInv, OwnersOK, RestorableRec
<1> QED
  BY <1>3, <1>4, <1>5 DEF IInv

LEMMA JobFacts ==
    ASSUME TypeOK, job # Idle
    PROVE  job \in Pending /\ job.req \in Spaces /\ job.rec \in SpaceRec
  BY DEF TypeOK, Pending

LEMMA SpaceFacts ==
    ASSUME IInv, NEW s \in Spaces, space[s] \in SpaceRec
    PROVE  /\ space[s].id = s
           /\ WellFormed(space[s])
           /\ OwnersOK(space[s])
           /\ RestorableRec(space[s])
           /\ Len(space[s].versions) \in Nat
           /\ \A i \in 1..Len(space[s].versions) :
                 /\ space[s].versions[i] \in VersionRec
                 /\ space[s].versions[i].owner \in Spaces
                 /\ space[s].versions[i].version \in 1..MaxVersion
<1>1. space[s].versions \in Seq(VersionRec)
  BY DEF SpaceRec
<1>2. \A i \in 1..Len(space[s].versions) : space[s].versions[i] \in VersionRec
  BY <1>1, ElementOfSeq
<1>3. Len(space[s].versions) \in Nat
  BY <1>1, LenProperties
<1>4. \A v \in VersionRec : v.owner \in Spaces /\ v.version \in 1..MaxVersion
  BY DEF VersionRec
<1> QED
  BY <1>2, <1>3, <1>4 DEF IInv, FilesInv

LEMMA InitInv == Init => IInv
  BY ConstantsAssumption
     DEF Init, IInv, TypeOK, FilesInv, JobInv, File, Idle

LEMMA RequestInv == IInv /\ Request => IInv'
<1> SUFFICES ASSUME IInv, NEW s \in Spaces,
                    \/ \E c \in Contents : CreateSpace(s, c)
                    \/ \E src \in Spaces : ImportCopy(s, src)
                    \/ \E c \in Contents : Edit(s, c)
                    \/ CreateSnapshot(s)
                    \/ \E i \in 1..MaxVersion : RollbackToVersion(s, i)
                    \/ DeleteSpace(s)
             PROVE  IInv'
  BY DEF Request
<1>0. /\ copied \subseteq Spaces
      /\ MaxVersion \in Nat \ {0}
  BY ConstantsAssumption DEF IInv, TypeOK
<1>1. ASSUME NEW c \in Contents, CreateSpace(s, c)
      PROVE  IInv'
  <2> DEFINE rec == [id |-> s, content |-> c, versions |-> <<>>,
                     active_version |-> 1]
  <2>1. <<>> \in Seq(VersionRec) /\ Len(<<>>) = 0
    BY EmptySeq
  <2>2. rec \in SpaceRec /\ rec.versions = <<>>
    BY <1>0, <2>1 DEF SpaceRec
  <2>3. WellFormed(rec)
    BY <1>0, <2>1, <2>2 DEF WellFormed
  <2>4. Begin("save", s, rec) /\ copied' = copied
    BY <1>1 DEF CreateSpace
  <2> HIDE DEF rec
  <2> QED
    BY <1>0, <2>1, <2>2, <2>3, <2>4, BeginSaveInv
<1>2. ASSUME NEW src \in Spaces, ImportCopy(s, src)
      PROVE  IInv'
  <2> DEFINE rec == [space[src] EXCEPT !.id = s]
  <2>1. space[src] \in SpaceRec /\ copied' = copied \cup {s, src}
    BY <1>2 DEF ImportCopy
  <2>2. rec \in SpaceRec /\ rec.id = s /\ rec.versions = space[src].versions
    BY <2>1 DEF SpaceRec
  <2>3. WellFormed(rec)
    BY <2>1, <2>2, SpaceFacts DEF WellFormed
  <2>4. Begin("save", s, rec)
    BY <1>2 DEF ImportCopy
  <2> HIDE DEF rec
  <2>5. \A i \in 1..Len(rec.versions) :
          {rec.versions[i].owner, rec.id} \subseteq copied'
    BY <2>1, <2>2, SpaceFacts DEF OwnersOK
  <2> QED
    BY <1>0, <2>1, <2>2, <2>3, <2>4, <2>5, BeginSaveInv
<1>3. ASSUME NEW c \in Contents, Edit(s, c)
      PROVE  IInv'
  <2> DEFINE rec == [space[s] EXCEPT !.content = c]
  <2>1. space[s] \in SpaceRec /\ copied' = copied /\ Begin("save", s, rec)
    BY <1>3 DEF Edit
  <2>2. rec \in SpaceRec /\ rec.id = s /\ rec.versions = space[s].versions
    BY <2>1, SpaceFacts DEF SpaceRec
  <2>3. WellFormed(rec)
    BY <2>1, <2>2, SpaceFacts DEF WellFormed
  <2> HIDE DEF rec
  <2> QED
    BY <1>0, <2>1, <2>2, <2>3, SpaceFacts, BeginSaveInv
       DEF OwnersOK, RestorableRec
<1>4. ASSUME CreateSnapshot(s)
      PROVE  IInv'
  <2>1. /\ space[s] \in SpaceRec
        /\ Len(space[s].versions) < MaxVersion
        /\ job' = [op |-> "snapfile", req |-> s, rec |-> space[s]]
        /\ UNCHANGED <<space, snap, copied>>
    BY <1>4 DEF CreateSnapshot, Begin
  <2>2. TypeOK'
    BY <2>1 DEF IInv, TypeOK, Pending
  <2>3. FilesInv'
    BY <2>1, FilesKept DEF IInv
  <2> QED
    BY <2>1, <2>2, <2>3 DEF IInv, JobInv
<1>5. ASSUME NEW i \in 1..MaxVersion, RollbackToVersion(s, i)
      PROVE  IInv'
  <2> DEFINE v == space[s].versions[i]
             old == snap[v.owner][v.version]
             rec == Restored(old, v.version)
  <2>1. /\ space[s] \in SpaceRec
        /\ i \in 1..Len(space[s].versions)
        /\ old \in SpaceRec
        /\ Begin("save", s, rec)
        /\ copied' = copied
    BY <1>5 DEF RollbackToVersion
  <2>2. /\ v.owner \in Spaces
        /\ v.version \in 1..MaxVersion
        /\ v.version = i
        /\ v.owner = s \/ {v.owner, s} \subseteq copied
    <3>1. /\ v \in VersionRec
          /\ v.owner \in Spaces
          /\ v.version \in 1..MaxVersion
      BY <2>1, SpaceFacts
    <3>2. v.version = i
      BY <2>1, SpaceFacts DEF WellFormed
    <3>3. v.owner = s \/ {v.owner, s} \subseteq copied
      BY <2>1, SpaceFacts DEF OwnersOK
    <3> QED BY <3>1, <3>2, <3>3
  <2>3. /\ WellFormedSnapshot(old, v.owner, v.version)
        /\ OwnersOK(old)
    BY <2>1, <2>2 DEF IInv, FilesInv
  <2>4. /\ rec \in SpaceRec
        /\ rec.id = v.owner
        /\ WellFormed(rec)
        /\ Len(rec.versions) = i - 1
        /\ Len(old.versions) = i - 1
        /\ old.id = v.owner
        /\ \A j \in 1..(i - 1) : rec.versions[j].owner = old.versions[j].owner
    BY <2>1, <2>2, <2>3, RestoredFacts DEF WellFormedSnapshot
  <2>5. v.owner \notin copied /\ Alone(v.owner) =>
            \A j \in 1..Len(rec.versions) : snap[v.owner][j] \in SpaceRec
    <3> SUFFICES ASSUME v.owner \notin copied, Alone(v.owner), NEW j \in 1..(i - 1)
                 PROVE  snap[v.owner][j] \in SpaceRec
      BY <2>4
    <3>1. v.owner = s /\ j \in 1..Len(space[s].versions)
      BY <2>1, <2>2, SpaceFacts
    <3> QED
      BY <2>1, <3>1, SpaceFacts DEF RestorableRec
  <2> HIDE DEF rec, old
  <2>6. \A j \in 1..Len(rec.versions) :
            \/ rec.versions[j].owner = rec.id
            \/ {rec.versions[j].owner, rec.id} \subseteq copied
    BY <2>3, <2>4 DEF OwnersOK
  <2> QED
    BY <1>0, <2>1, <2>4, <2>5, <2>6, BeginSaveInv
<1>6. ASSUME DeleteSpace(s)
      PROVE  IInv'
  <2>1. /\ space[s] \in SpaceRec
        /\ job' = [op |-> "unlink", req |-> s, rec |-> space[s]]
        /\ UNCHANGED <<space, snap, copied>>
    BY <1>6 DEF DeleteSpace, Begin
  <2>2. TypeOK'
    BY <2>1 DEF IInv, TypeOK, Pending
  <2>3. FilesInv'
    BY <2>1, FilesKept DEF IInv
  <2> QED
    BY <2>1, <2>2, <2>3 DEF IInv, JobInv
<1> QED
  BY <1>1, <1>2, <1>3, <1>4, <1>5, <1>6

-----------------------------------------------------------------------------
LEMMA SaveInv == IInv /\ Save => IInv'
<1> SUFFICES ASSUME IInv, Save
             PROVE  IInv'
  OBVIOUS
<1> DEFINE rec == job.rec
<1>1. /\ job.op = "save"
      /\ space' = [space EXCEPT ![rec.id] = rec]
      /\ job' = Idle
      /\ UNCHANGED <<snap, copied>>
  BY DEF Save
<1>2. rec \in SpaceRec /\ rec.id \in Spaces
  BY <1>1, JobFacts DEF IInv, Idle, SpaceRec
<1>3. WellFormed(rec) /\ OwnersOK(rec) /\ RestorableRec(rec)
  BY <1>1 DEF IInv, JobInv
<1> HIDE DEF rec
<1>4. TypeOK'
  BY <1>1, <1>2 DEF IInv, TypeOK, File
<1>5. FilesInv'
  BY <1>1, <1>2, <1>3 DEF IInv, TypeOK, FilesInv, OwnersOK, RestorableRec
<1>6. JobInv'
  BY <1>1 DEF JobInv, Idle
<1> QED
  BY <1>4, <1>5, <1>6 DEF IInv

LEMMA SnapfileFacts ==
    ASSUME IInv, job.op = "snapfile"
    PROVE  /\ job.req \in Spaces
           /\ job.rec \in SpaceRec
           /\ job.rec.id = job.req
           /\ space[job.req] = job.rec
           /\ WellFormed(job.rec)
           /\ Len(job.rec.versions) \in Nat
           /\ NewVersion(job.rec) \in 1..MaxVersion
<1>1. job.req \in Spaces /\ job.rec \in SpaceRec
  BY JobFacts DEF IInv, Idle
<1>2. space[job.req] = job.rec /\ Len(job.rec.versions) < MaxVersion
  BY DEF IInv, JobInv
<1>3. /\ job.rec.id = job.req
      /\ WellFormed(job.rec)
      /\ Len(job.rec.versions) \in Nat
  BY <1>1, <1>2, SpaceFacts
<1> QED
  BY <1>1, <1>2, <1>3, ConstantsAssumption DEF NewVersion

LEMMA WriteSnapshotInv == IInv /\ WriteSnapshot => IInv'
<1> SUFFICES ASSUME IInv, WriteSnapshot
             PROVE  IInv'
  OBVIOUS
<1> DEFINE s == job.req
           rec == job.rec
           n == NewVersion(rec)
           new == Listed(rec)
<1>1. /\ job.op = "snapfile"
      /\ snap' = [snap EXCEPT ![rec.id][n] = rec]
      /\ job' = [job EXCEPT !.op = "save", !.rec = new]
      /\ UNCHANGED <<space, copied>>
  BY DEF WriteSnapshot
<1>2. /\ s \in Spaces
      /\ rec \in SpaceRec
      /\ rec.id = s
      /\ space[s] = rec
      /\ WellFormed(rec)
      /\ Len(rec.versions) \in Nat
      /\ n \in 1..MaxVersion
      /\ n = Len(rec.versions) + 1
  BY <1>1, SnapfileFacts DEF NewVersion
<1>3. /\ new \in SpaceRec
      /\ new.id = s
      /\ WellFormed(new)
      /\ Len(new.versions) = n
      /\ \A i \in 1..(n - 1) : new.versions[i].owner = rec.versions[i].owner
      /\ new.versions[n].owner = s
  BY <1>2, ListedFacts, ConstantsAssumption
<1>4. OwnersOK(rec) /\ RestorableRec(rec)
  BY <1>2, SpaceFacts
<1>5. job \in Pending
  BY <1>1, JobFacts DEF IInv, Idle
<1>6. job' = [op |-> "save", req |-> s, rec |-> new]
  BY <1>1, <1>5 DEF Pending
<1> HIDE DEF s, rec, n, new
<1>7. /\ snap \in [Spaces -> [1..MaxVersion -> File]]
      /\ snap' = [snap EXCEPT ![s][n] = rec]
  BY <1>1, <1>2 DEF IInv, TypeOK
<1>8. \A t \in Spaces, k \in 1..MaxVersion :
        snap'[t][k] = IF t = s /\ k = n THEN rec ELSE snap[t][k]
  BY <1>2, <1>7
<1>9. TypeOK'
  <2>1. snap' \in [Spaces -> [1..MaxVersion -> File]]
    BY <1>2, <1>7 DEF File
  <2>2. job' \in Pending
    BY <1>2, <1>3, <1>6 DEF Pending
  <2> QED
    BY <1>1, <2>1, <2>2 DEF IInv, TypeOK
<1>10. ASSUME NEW t \in Spaces, space[t] \in SpaceRec
       PROVE  RestorableRec(space[t])'
  <2> SUFFICES ASSUME t \notin copied, Alone(t),
                      NEW i \in 1..Len(space[t].versions)
               PROVE  snap'[t][i] \in SpaceRec
    BY <1>1, <1>10, SpaceFacts DEF RestorableRec
  <2>1. snap[t][i] \in SpaceRec
    BY <1>10, SpaceFacts DEF RestorableRec
  <2>2. i \in 1..MaxVersion
    BY <1>10, SpaceFacts, ConstantsAssumption DEF WellFormed
  <2> QED
    BY <1>2, <1>8, <2>1, <2>2
<1>11. FilesInv'
  <2>1. ASSUME NEW t \in Spaces, space[t] \in SpaceRec
        PROVE  /\ space[t].id = t
               /\ WellFormed(space[t])
               /\ OwnersOK(space[t])'
    BY <1>1, <2>1, SpaceFacts DEF OwnersOK
  <2>2. ASSUME NEW t \in Spaces, NEW k \in 1..MaxVersion,
               snap'[t][k] \in SpaceRec
        PROVE  /\ WellFormedSnapshot(snap'[t][k], t, k)
               /\ OwnersOK(snap[t][k])'
    <3>1. CASE t = s /\ k = n
      BY <1>1, <1>2, <1>4, <1>8, <3>1 DEF WellFormedSnapshot, OwnersOK
    <3>2. CASE ~(t = s /\ k = n)
      BY <1>1, <1>8, <2>2, <3>2 DEF IInv, FilesInv, OwnersOK
    <3> QED BY <3>1, <3>2
  <2> QED
    BY <1>1, <1>10, <2>1, <2>2 DEF FilesInv
<1>12. JobInv'
  <2>0. job'.rec = new /\ job'.op = "save"
    BY <1>6
  <2>1. OwnersOK(job.rec)'
    BY <1>1, <1>2, <1>3, <1>4, <2>0 DEF OwnersOK
  <2>2. RestorableRec(job.rec)'
    <3> SUFFICES ASSUME s \notin copied, Alone(s), NEW i \in 1..n
                 PROVE  snap'[s][i] \in SpaceRec
      BY <1>1, <1>3, <2>0 DEF RestorableRec
    <3>1. i \in 1..MaxVersion
      BY <1>2, ConstantsAssumption
    <3>2. CASE i = n
      BY <1>2, <1>8, <3>1, <3>2
    <3>3. CASE i # n
      <4>1. i \in 1..Len(rec.versions)
        BY <1>2, <3>3
      <4> QED
        BY <1>2, <1>4, <1>8, <3>1, <3>3, <4>1 DEF RestorableRec
    <3> QED BY <3>2, <3>3
  <2> QED
    BY <1>3, <2>0, <2>1, <2>2 DEF JobInv
<1> QED
  BY <1>9, <1>11, <1>12 DEF IInv

LEMMA UnlinkInv == IInv /\ Unlink => IInv'
<1> SUFFICES ASSUME IInv, Unlink
             PROVE  IInv'
  OBVIOUS
<1>1. /\ job.op = "unlink"
      /\ space' = [space EXCEPT ![job.req] = Absent]
      /\ job' = [job EXCEPT !.op = "unlinksnaps"]
      /\ UNCHANGED <<snap, copied>>
  BY DEF Unlink
<1>2. job \in Pending /\ job.req \in Spaces
  BY <1>1, JobFacts DEF IInv, Idle
<1>3. job' \in Pending /\ job'.op = "unlinksnaps" /\ job'.req = job.req
  BY <1>1, <1>2 DEF Pending
<1>4. TypeOK'
  BY <1>1, <1>2, <1>3 DEF IInv, TypeOK, File
<1>5. FilesInv'
  BY <1>1, <1>2, ConstantsAssumption
     DEF IInv, TypeOK, FilesInv, OwnersOK, RestorableRec
<1>6. JobInv'
  BY <1>1, <1>2, <1>3 DEF IInv, TypeOK, JobInv
<1> QED
  BY <1>4, <1>5, <1>6 DEF IInv

\* Files that disappear or are torn disturb nothing as long as no listed
\* snapshot is among them.
LEMMA FilesLost ==
    ASSUME IInv, copied' = copied,
           \A t \in Spaces : space'[t] = space[t] \/ space'[t] \notin SpaceRec,
           \A t \in Spaces, k \in 1..MaxVersion :
              snap'[t][k] = snap[t][k] \/ snap'[t][k] \notin SpaceRec,
           \A t \in Spaces : space'[t] \in SpaceRec /\ Alone(t) =>
              \A k \in 1..Len(space[t].versions) : snap'[t][k] = snap[t][k]
    PROVE  FilesInv'
<1>1. ASSUME NEW t \in Spaces, space'[t] \in SpaceRec
      PROVE  /\ space'[t].id = t
             /\ WellFormed(space'[t])
             /\ OwnersOK(space[t])'
             /\ RestorableRec(space[t])'
  <2>1. space'[t] = space[t]
    BY <1>1
  <2>2. RestorableRec(space[t])'
    <3> SUFFICES ASSUME t \notin copied, Alone(t),
                        NEW k \in 1..Len(space[t].versions)
                 PROVE  snap'[t][k] \in SpaceRec
      BY <1>1, <2>1, SpaceFacts DEF RestorableRec
    <3> QED
      BY <1>1, <2>1, SpaceFacts DEF RestorableRec
  <2> QED
    BY <1>1, <2>1, <2>2, SpaceFacts DEF OwnersOK
<1>2. ASSUME NEW t \in Spaces, NEW k \in 1..MaxVersion, snap'[t][k] \in SpaceRec
      PROVE  /\ WellFormedSnapshot(snap'[t][k], t, k)
             /\ OwnersOK(snap[t][k])'
  <2>1. snap'[t][k] = snap[t][k]
    BY <1>2
  <2> QED
    BY <1>2, <2>1 DEF IInv, FilesInv, OwnersOK
<1> QED
  BY <1>1, <1>2 DEF FilesInv

LEMMA UnlinkSnapshotsInv == IInv /\ UnlinkSnapshots => IInv'
<1> SUFFICES ASSUME IInv, UnlinkSnapshots
             PROVE  IInv'
  OBVIOUS
<1>1. /\ job.op = "unlinksnaps"
      /\ snap' = [s \in Spaces |-> IF s \in Globbed[job.req]
                                   THEN [n \in 1..MaxVersion |-> Absent]
                                   ELSE snap[s]]
      /\ job' = Idle
      /\ UNCHANGED <<space, copied>>
  BY DEF UnlinkSnapshots
<1>2. job.req \in Spaces /\ space[job.req] = Absent
  BY <1>1, JobFacts DEF IInv, JobInv, Idle
<1>3. /\ \A t \in Spaces, n \in 1..MaxVersion :
            snap'[t][n] \in {Absent, snap[t][n]}
      /\ \A t \in Spaces \ {job.req} : Alone(t) => snap'[t] = snap[t]
      /\ snap' \in [Spaces -> [1..MaxVersion -> File]]
  BY <1>1, <1>2 DEF IInv, TypeOK, File, Alone
<1>4. TypeOK'
  BY <1>1, <1>3 DEF IInv, TypeOK
<1>5. FilesInv'
  <2>1. \A t \in Spaces, k \in 1..MaxVersion :
           snap'[t][k] = snap[t][k] \/ snap'[t][k] \notin SpaceRec
    BY <1>2, <1>3, ConstantsAssumption
  <2>2. \A t \in Spaces : space'[t] \in SpaceRec /\ Alone(t) =>
           \A k \in 1..Len(space[t].versions) : snap'[t][k] = snap[t][k]
    BY <1>1, <1>2, <1>3, ConstantsAssumption
  <2> QED
    BY <1>1, <2>1, <2>2, FilesLost
<1> QED
  BY <1>1, <1>4, <1>5 DEF IInv, JobInv, Idle

LEMMA CrashBetweenInv == IInv /\ CrashBetween => IInv'
<1> SUFFICES ASSUME IInv, CrashBetween
             PROVE  IInv'
  OBVIOUS
<1>1. job' = Idle /\ UNCHANGED <<space, snap, copied>>
  BY DEF CrashBetween
<1>2. FilesInv'
  BY <1>1, FilesKept DEF IInv
<1> QED
  BY <1>1, <1>2 DEF IInv, TypeOK, JobInv, Idle

\* A torn or missing file satisfies nothing, so only files that stay matter:
\* the torn snapshot has a number its space does not list.
LEMMA CrashInsideInv == IInv /\ CrashInside => IInv'
<1> SUFFICES ASSUME IInv, CrashInside
             PROVE  IInv'
  OBVIOUS
<1>1. job' = Idle /\ copied' = copied
  BY DEF CrashInside
<1>2. JobInv'
  BY <1>1 DEF JobInv, Idle
<1>3. CASE /\ job.op = "save"
           /\ space' = [space EXCEPT ![job.rec.id] = Torn]
           /\ UNCHANGED snap
  <2>1. job.rec.id \in Spaces
    BY <1>3, JobFacts DEF IInv, Idle, SpaceRec
  <2>2. TypeOK'
    BY <1>1, <1>3, <2>1 DEF IInv, TypeOK, File
  <2>3. FilesInv'
    <3>1. \A t \in Spaces : space'[t] = space[t] \/ space'[t] \notin SpaceRec
      BY <1>3, <2>1, ConstantsAssumption DEF IInv, TypeOK
    <3> QED
      BY <1>1, <1>3, <3>1, FilesLost
  <2> QED
    BY <1>2, <2>2, <2>3 DEF IInv
<1>4. CASE /\ job.op = "snapfile"
           /\ snap' = [snap EXCEPT ![job.rec.id][NewVersion(job.rec)] = Torn]
           /\ UNCHANGED space
  <2> DEFINE s == job.req
             n == NewVersion(job.rec)
  <2>1. /\ s \in Spaces /\ n \in 1..MaxVersion
        /\ job.rec.id = s /\ space[s] = job.rec
        /\ n = Len(space[s].versions) + 1
        /\ space[s] \in SpaceRec
    BY <1>4, SnapfileFacts DEF NewVersion
  <2> HIDE DEF s, n
  <2>2. snap' = [snap EXCEPT ![s][n] = Torn]
    BY <1>4, <2>1 DEF s, n
  <2>3. /\ snap' \in [Spaces -> [1..MaxVersion -> File]]
        /\ \A t \in Spaces, k \in 1..MaxVersion :
              snap'[t][k] = IF t = s /\ k = n THEN Torn ELSE snap[t][k]
    BY <2>1, <2>2 DEF IInv, TypeOK, File
  <2>4. \A t \in Spaces, k \in 1..MaxVersion :
           snap'[t][k] = snap[t][k] \/ snap'[t][k] \notin SpaceRec
    BY <2>3, ConstantsAssumption
  <2>5. ASSUME NEW t \in Spaces, space[t] \in SpaceRec,
               NEW i \in 1..Len(space[t].versions)
        PROVE  snap'[t][i] = snap[t][i]
    <3>1. i \in 1..MaxVersion
      BY <2>5, SpaceFacts, ConstantsAssumption DEF WellFormed
    <3>2. ~(t = s /\ i = n)
      BY <2>1, <2>5, SpaceFacts
    <3> QED
      BY <2>3, <3>1, <3>2
  <2>6. FilesInv'
    BY <1>1, <1>4, <2>4, <2>5, FilesLost
  <2>7. TypeOK'
    BY <1>1, <1>4, <2>3 DEF IInv, TypeOK
  <2> QED
    BY <1>2, <2>6, <2>7 DEF IInv
<1>5. ASSUME /\ job.op = "unlinksnaps"
             /\ UNCHANGED space,
             NEW gone \in SUBSET (Globbed[job.req] \X (1..MaxVersion)),
             snap' = [s \in Spaces |-> [n \in 1..MaxVersion |->
                         IF <<s, n>> \in gone THEN Absent ELSE snap[s][n]]]
      PROVE  IInv'
  <2>1. job.req \in Spaces /\ space[job.req] = Absent
    BY <1>5, JobFacts DEF IInv, JobInv, Idle
  <2>2. /\ \A t \in Spaces, n \in 1..MaxVersion :
              snap'[t][n] \in {Absent, snap[t][n]}
        /\ \A t \in Spaces \ {job.req} : Alone(t) =>
              \A n \in 1..MaxVersion : snap'[t][n] = snap[t][n]
        /\ snap' \in [Spaces -> [1..MaxVersion -> File]]
    BY <1>5, <2>1 DEF IInv, TypeOK, File, Alone
  <2>3. TypeOK'
    BY <1>1, <1>5, <2>2 DEF IInv, TypeOK
  <2>4. FilesInv'
    <3>1. \A t \in Spaces, k \in 1..MaxVersion :
             snap'[t][k] = snap[t][k] \/ snap'[t][k] \notin SpaceRec
      BY <2>1, <2>2, ConstantsAssumption
    <3>2. \A t \in Spaces : space'[t] \in SpaceRec /\ Alone(t) =>
             \A k \in 1..Len(space[t].versions) : snap'[t][k] = snap[t][k]
      <4> SUFFICES ASSUME NEW t \in Spaces, space[t] \in SpaceRec, Alone(t),
                          NEW k \in 1..Len(space[t].versions)
                   PROVE  snap'[t][k] = snap[t][k]
        BY <1>5
      <4>1. k \in 1..MaxVersion
        BY SpaceFacts, ConstantsAssumption DEF WellFormed
      <4>2. t # job.req
        BY <2>1, ConstantsAssumption
      <4> QED
        BY <2>2, <4>1, <4>2
    <3> QED
      BY <1>1, <1>5, <3>1, <3>2, FilesLost
  <2> QED
    BY <1>2, <2>3, <2>4 DEF IInv
<1> QED
  BY <1>3, <1>4, <1>5 DEF CrashInside

LEMMA StepInv == IInv /\ [Next]_vars => IInv'
<1>1. IInv /\ UNCHANGED vars => IInv'
  BY DEF IInv, TypeOK, FilesInv, JobInv, OwnersOK, RestorableRec, vars
<1> QED
  BY <1>1, RequestInv, SaveInv, WriteSnapshotInv, UnlinkInv,
     UnlinkSnapshotsInv, CrashBetweenInv, CrashInsideInv DEF Next, FileStep

\* IInv holds in every reachable state: files are well formed, and a request
\* holds in memory what fits the files it will write, crashes included.
THEOREM Invariance == Spec => []IInv
  BY InitInv, StepInv, PTL DEF Spec

\* Every variable keeps its type in every reachable state, for any number of
\* spaces and versions.
THEOREM TypeCorrect == Spec => []TypeOK
  BY Invariance, PTL DEF IInv

\* The version numbering of every space and snapshot file is always 1, 2, ...
\* and a snapshot n always holds its own space with n - 1 versions: what
\* create_snapshot and rollback_to_version take for granted.
THEOREM HistoryIsWellFormed == Spec => []HistoryWellFormed
<1>1. IInv => HistoryWellFormed
  BY DEF IInv, FilesInv, HistoryWellFormed
<1> QED
  BY <1>1, Invariance, PTL

\* Whatever crashes happen, every version that an uncopied space lists can be
\* rolled back to.
THEOREM VersionsAreRestorable == Spec => []UncopiedVersionsRestorable
<1>1. IInv => UncopiedVersionsRestorable
  <2> SUFFICES ASSUME IInv, NEW s \in Spaces \ copied, space[s] \in SpaceRec,
                      Alone(s), NEW i \in 1..Len(space[s].versions)
               PROVE  /\ space[s].versions[i].owner = s
                      /\ snap[s][space[s].versions[i].version] \in SpaceRec
    BY DEF UncopiedVersionsRestorable
  <2>1. space[s].id = s /\ space[s].versions[i].version = i
    BY SpaceFacts DEF WellFormed
  <2> QED
    BY <2>1, SpaceFacts DEF OwnersOK, RestorableRec
<1> QED
  BY <1>1, Invariance, PTL

\* A listed snapshot is never overwritten, torn or removed while it is listed.
THEOREM ListedSnapshotsAreStable == Spec => ListedSnapshotsStable
<1> DEFINE Stable == \A s \in {t \in Spaces : Alone(t)} :
              \A n \in OwnListed(space[s], s) \cap OwnListed(space'[s], s) :
                  snap'[s][n] = snap[s][n]
<1>1. IInv /\ [Next]_vars => [Stable]_vars
  <2> SUFFICES ASSUME IInv, Next, snap' # snap,
                      NEW s \in Spaces, Alone(s),
                      NEW n \in OwnListed(space[s], s) \cap OwnListed(space'[s], s)
               PROVE  snap'[s][n] = snap[s][n]
    BY DEF vars
  <2>1. /\ space[s] \in SpaceRec
        /\ n \in 1..Len(space[s].versions)
    <3>1. space[s] \in SpaceRec
      BY DEF OwnListed
    <3>2. PICK i \in 1..Len(space[s].versions) : n = space[s].versions[i].version
      BY <3>1 DEF OwnListed
    <3> QED
      BY <3>1, <3>2, SpaceFacts DEF WellFormed
  <2>2. n \in 1..MaxVersion
    BY <2>1, SpaceFacts, ConstantsAssumption DEF WellFormed
  <2>3. \/ WriteSnapshot
        \/ UnlinkSnapshots
        \/ CrashInside /\ job.op \in {"snapfile", "unlinksnaps"}
    BY DEF Next, FileStep, Request, CreateSpace, ImportCopy, Edit, CreateSnapshot,
           RollbackToVersion, DeleteSpace, Begin, Save, Unlink, CrashBetween,
           CrashInside
  <2>4. CASE job.op = "snapfile"
    <3>1. /\ job.rec.id = job.req /\ job.req \in Spaces
          /\ space[job.req] = job.rec
          /\ NewVersion(job.rec) \in 1..MaxVersion
          /\ NewVersion(job.rec) = Len(space[job.req].versions) + 1
      BY <2>4, SnapfileFacts DEF NewVersion
    <3>2. \E f \in {job.rec, Torn} :
             snap' = [snap EXCEPT ![job.req][NewVersion(job.rec)] = f]
      BY <2>3, <2>4, <3>1 DEF WriteSnapshot, UnlinkSnapshots, CrashInside
    <3>3. ~(s = job.req /\ n = NewVersion(job.rec))
      BY <2>1, <3>1, SpaceFacts
    <3> QED
      BY <2>2, <3>1, <3>2, <3>3 DEF IInv, TypeOK
  <2>5. CASE job.op = "unlinksnaps"
    <3>1. job.req \in Spaces /\ space[job.req] = Absent
      BY <2>5, JobFacts DEF IInv, JobInv, Idle
    <3>2. s # job.req
      BY <2>1, <3>1, ConstantsAssumption
    <3>3. s \notin Globbed[job.req]
      BY <3>1, <3>2 DEF Alone
    <3>4. CASE UnlinkSnapshots
      BY <3>3, <3>4 DEF UnlinkSnapshots
    <3>5. ASSUME NEW gone \in SUBSET (Globbed[job.req] \X (1..MaxVersion)),
                 snap' = [t \in Spaces |-> [k \in 1..MaxVersion |->
                             IF <<t, k>> \in gone THEN Absent ELSE snap[t][k]]]
          PROVE  snap'[s][n] = snap[s][n]
      <4>1. <<s, n>> \notin gone
        BY <3>3
      <4> QED
        BY <2>2, <3>5, <4>1
    <3> QED
      BY <2>3, <2>5, <3>4, <3>5 DEF WriteSnapshot, CrashInside
  <2> QED
    BY <2>3, <2>4, <2>5 DEF WriteSnapshot, UnlinkSnapshots
<1>2. [][Stable]_vars <=> ListedSnapshotsStable
  BY DEF ListedSnapshotsStable
<1> QED
  BY <1>1, <1>2, Invariance, PTL DEF Spec
=============================================================================
