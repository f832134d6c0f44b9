---------------------------- MODULE Rules_proofs ----------------------------
(***************************************************************************)
(* Proofs about the three modules that keep, sort and run rules.           *)
(*                                                                         *)
(* RuleStore, for any number of concurrent requests: the keys of both      *)
(* tables stay unique, a step without a group is the trace of a race or of *)
(* a failed save of a group, and the requests that raced no other neither  *)
(* lose nor revive a group, nor undo a change (StoreInv).                  *)
(*                                                                         *)
(* RuleAnalysis, for any number of rules and any wiring: rules are sorted  *)
(* after their producers, and the analysis falls back to priorities for    *)
(* cyclic rule sets and no others (KahnInv).                               *)
(*                                                                         *)
(* RuleExecution, for any rules, chain and entity: an execution is seen as *)
(* a history, the contexts after the first k rules of its sequence, and    *)
(* the state as the end of one (HistoryInv).  What the four executions     *)
(* promise of their outcomes is proved of histories, by induction on k.    *)
(***************************************************************************)
EXTENDS RuleStore, RuleAnalysis, RuleExecution, SequenceTheorems,
        FiniteSetTheorems, WellFoundedInduction, TLAPS

\* Every row with this id, stored or about to be saved, has the name n.
Named(id, n) ==
    /\ \A g \in groups : g.id = id => g.name = n
    /\ \A w \in Workers : Saving(w) =>
          \A row \in job[w].saves : row.id = id => row.name = n

\* An id keeps its name: this is what ties a deletion by uuid, which looks the
\* name up again, to the name its request was counted under.
IdsInv ==
    /\ \A g \in groups : g.id \in used /\ Named(g.id, g.name)
    /\ \A w \in Workers : Saving(w) =>
          \E row \in GroupRow :
              /\ job[w].saves = {row}
              /\ row.id \in used
              /\ row.name = job[w].name
              /\ Named(row.id, row.name)
    /\ \A w \in Workers : job[w].op = "delete" =>
          \/ job[w].ident = job[w].name /\ job[w].ident \notin UuidLike
          \/ \E id \in used, n \in Names :
                job[w].ident = id /\ job[w].name = n /\ Named(id, n)

HasGroup(n) == \E g \in groups : g.name = n

\* A request that saves steps and raced no other still has its group.
StepsInv ==
    \A w \in Workers : job[w].op = "steps" /\ ~missed[w] => HasGroup(job[w].name)

\* g is the row of the table that row replaces, and row takes over what it was
\* not sent.
Updates(row, g, sent) ==
    /\ g.id = row.id /\ g.name = row.name /\ g.space = row.space
    /\ \A f \in Fields \ sent : row.content[f] = g.content[f]

\* No group has the row's id, and those that have its name and space were not
\* found by the name.
NewRow(row) ==
    \A g \in groups :
        g.id # row.id /\ (g.name = row.name /\ g.space = row.space
                              => row.name \in UuidLike)

\* What a request that raced no other has read still holds when it saves.
SavesInv ==
    \A w \in Workers : Saving(w) /\ ~missed[w] =>
        \A row \in job[w].saves :
            IF job[w].op = "create" THEN NewRow(row)
            ELSE \E g \in groups : Updates(row, g, job[w].changes)

StoreInv == TypeOK /\ KeysUnique /\ IdsInv /\ StepsInv /\ OrphansExcused /\ SavesInv

-----------------------------------------------------------------------------
\* Types.

LEMMA JobTypes ==
    ASSUME NEW op \in {"create", "update", "delete", "steps", "getstep",
                       "dropstep", "reorder"},
           NEW ident \in GroupIds \cup Names, NEW g \in GroupRow
    PROVE  /\ Job(op, ident, g) \in Busy
           /\ Job(op, ident, g).op = op
           /\ Job(op, ident, g).ident = ident
           /\ Job(op, ident, g).name = g.name
           /\ Job(op, ident, g).space = g.space
BY ConstantsAssumption DEF Job, Busy, GroupRow

LEMMA BeginTypes ==
    ASSUME TypeOK, NEW w \in Workers, NEW j \in Busy, Begin(w, j)
    PROVE  /\ groups' = groups /\ steps' = steps /\ excused' = excused
           /\ served' \in 0..MaxRequests
           /\ job' \in [Workers -> Busy \cup {Idle}]
           /\ missed' \in [Workers -> BOOLEAN]
           /\ job'[w] = j
           /\ missed'[w] = FALSE
           /\ \A v \in Workers \ {w} : job'[v] = job[v] /\ missed'[v] = missed[v]
           /\ job[w] = Idle
BY ConstantsAssumption DEF TypeOK, Begin

LEMMA ContinueTypes ==
    ASSUME TypeOK, NEW w \in Workers, NEW j \in Busy \cup {Idle},
           NEW wrote \in BOOLEAN, Continue(w, j, wrote)
    PROVE  /\ used' = used /\ served' = served
           /\ job' \in [Workers -> Busy \cup {Idle}]
           /\ missed' \in [Workers -> BOOLEAN]
           /\ job'[w] = j
           /\ ~missed[w] => ~missed'[w]
           /\ missed[w] /\ j # Idle => missed'[w]
           /\ \A v \in Workers \ {w} :
                /\ job'[v] = job[v]
                /\ missed[v] => missed'[v]
                /\ wrote /\ job[v] # Idle /\ job[v].name = job[w].name
                     => missed'[v]
<1>1. \A v \in Workers : missed'[v] = IF v = w THEN j # Idle /\ missed[w]
            ELSE missed[v] \/ (wrote /\ job[v] # Idle /\ job[v].name = job[w].name)
  BY DEF Continue
<1>2. missed' \in [Workers -> BOOLEAN]
  <2>1. \A v \in Workers :
            (IF v = w THEN j # Idle /\ missed[w]
             ELSE missed[v] \/ (wrote /\ job[v] # Idle /\ job[v].name = job[w].name))
               \in BOOLEAN
    OBVIOUS
  <2> QED
    BY <2>1, Zenon DEF Continue
<1> QED
  BY <1>1, <1>2 DEF TypeOK, Continue

LEMMA MergedType ==
    ASSUME NEW g \in GroupRow, NEW sent \in SUBSET Fields,
           NEW c \in [sent -> Values]
    PROVE  /\ Merged(g, sent, c) \in GroupRow
           /\ Merged(g, sent, c).id = g.id
           /\ Merged(g, sent, c).name = g.name
           /\ Merged(g, sent, c).space = g.space
<1>1. g.content \in [Fields -> Values]
  BY DEF GroupRow, Content
<1>2. [f \in Fields |-> IF f \in sent THEN c[f] ELSE g.content[f]] \in Content
  BY <1>1 DEF Content
<1> QED
  BY <1>2 DEF Merged, GroupRow

\* What a request has still to do when it begins, method by method.
LEMMA RequestJobs ==
    ASSUME TypeOK, NEW w \in Workers, Request(w)
    PROVE  \E j \in Busy :
              /\ Begin(w, j)
              /\ \/ /\ j.op = "create"
                    /\ \E row \in GroupRow :
                          /\ row.id \in GroupIds \ used
                          /\ used' = used \cup {row.id}
                          /\ j.saves = {row} /\ j.name = row.name
                 \/ /\ used' = used
                    /\ \E g \in groups :
                          /\ j.name = g.name
                          /\ \/ /\ j.op = "update"
                                /\ \E row \in GroupRow :
                                      /\ j.saves = {row}
                                      /\ row.id = g.id /\ row.name = g.name
                             \/ /\ j.op = "delete"
                                /\ \/ j.ident = g.id
                                   \/ j.ident = g.name /\ j.ident \notin UuidLike
                             \/ j.op \in {"steps", "getstep", "reorder"}
<1> USE DEF TypeOK
<1>1. ASSUME NEW n \in Names, NEW s \in Spaces, NEW c \in Content,
             NEW new \in SUBSET NewStep, Import(w, n, s, c, new)
      PROVE  \E j \in Busy :
              /\ Begin(w, j)
              /\ j.op = "create"
              /\ \E row \in GroupRow :
                    /\ row.id \in GroupIds \ used
                    /\ used' = used \cup {row.id}
                    /\ j.saves = {row} /\ j.name = row.name
  <2>1. PICK i \in GroupIds \ used :
            /\ used' = used \cup {i}
            /\ LET row == [id |-> i, name |-> n, space |-> s, content |-> c]
               IN  Begin(w, [Job("create", n, row) EXCEPT !.saves = {row}, !.todo = new])
    BY <1>1 DEF Import
  <2> DEFINE row == [id |-> i, name |-> n, space |-> s, content |-> c]
             j == [Job("create", n, row) EXCEPT !.saves = {row}, !.todo = new]
  <2>2. row \in GroupRow /\ row.id = i /\ row.name = n
    BY DEF GroupRow
  <2> HIDE DEF row
  <2> DEFINE j0 == Job("create", n, row)
             j1 == [j0 EXCEPT !.saves = {row}]
             j2 == [j1 EXCEPT !.todo = new]
  <2>4. j0 \in Busy /\ j0.op = "create" /\ j0.name = n
    BY <2>2, JobTypes
  <2>5. j = j2
    OBVIOUS
  <2> HIDE DEF j0, j
  <2>6. j1 \in Busy /\ j1.op = "create" /\ j1.saves = {row} /\ j1.name = n
    BY <2>2, <2>4 DEF Busy
  <2> HIDE DEF j1
  <2>7. j2 \in Busy /\ j2.op = "create" /\ j2.saves = {row} /\ j2.name = n
    BY <2>6 DEF Busy
  <2>8. Begin(w, j)
    BY <2>1 DEF row, j
  <2> QED
    BY <2>1, <2>2, <2>5, <2>7, <2>8
<1>2. ASSUME NEW g \in groups, NEW sent \in SUBSET Fields,
             NEW c \in [sent -> Values], UpdateGroup(w, g, sent, c)
      PROVE  \E j \in Busy :
              /\ Begin(w, j)
              /\ used' = used
              /\ j.name = g.name
              /\ j.op = "update"
              /\ \E row \in GroupRow :
                    j.saves = {row} /\ row.id = g.id /\ row.name = g.name
  <2> DEFINE row == Merged(g, sent, c)
             j == [Job("update", g.name, g) EXCEPT
                      !.saves = {row}, !.changes = sent]
  <2>1. row \in GroupRow /\ row.id = g.id /\ row.name = g.name
    BY MergedType
  <2> HIDE DEF row
  <2> DEFINE j0 == Job("update", g.name, g)
             j1 == [j0 EXCEPT !.saves = {row}]
             j2 == [j1 EXCEPT !.changes = sent]
  <2>2. j0 \in Busy /\ j0.op = "update" /\ j0.name = g.name
    <3>1. g \in GroupRow /\ g.name \in GroupIds \cup Names
      BY DEF GroupRow
    <3> QED
      BY <3>1, JobTypes
  <2>3. j = j2
    OBVIOUS
  <2> HIDE DEF j0, j
  <2>4. j1 \in Busy /\ j1.op = "update" /\ j1.saves = {row} /\ j1.name = g.name
    BY <2>1, <2>2 DEF Busy
  <2> HIDE DEF j1
  <2>5. j2 \in Busy /\ j2.op = "update" /\ j2.saves = {row} /\ j2.name = g.name
    BY <2>4 DEF Busy
  <2>6. Begin(w, j) /\ used' = used
    BY <1>2 DEF UpdateGroup, j, row
  <2> QED
    BY <2>1, <2>3, <2>5, <2>6
<1>3. ASSUME NEW g \in groups, NEW ident \in {g.id, g.name},
             DeleteGroup(w, ident, g)
      PROVE  \E j \in Busy :
              /\ Begin(w, j)
              /\ used' = used
              /\ j.name = g.name
              /\ j.op = "delete"
              /\ j.ident = g.id \/ (j.ident = g.name /\ j.ident \notin UuidLike)
  <2>1. ident \in GroupIds \cup Names
    BY DEF GroupRow
  <2>2. ident \in UuidLike => ident = g.id
    BY <1>3 DEF DeleteGroup, Find
  <2> QED
    BY <1>3, <2>1, <2>2, JobTypes DEF DeleteGroup
<1>4. ASSUME NEW g \in groups, NEW st \in NewStep, CreateStep(w, g, st)
      PROVE  \E j \in Busy : /\ Begin(w, j) /\ used' = used
                            /\ j.name = g.name /\ j.op = "steps"
  <2> DEFINE j == [Job("steps", g.name, g) EXCEPT !.todo = {st}]
  <2>1. j \in Busy /\ j.name = g.name /\ j.op = "steps"
    <3> DEFINE j0 == Job("steps", g.name, g)
               j1 == [j0 EXCEPT !.todo = {st}]
    <3>1. j0 \in Busy /\ j0.op = "steps" /\ j0.name = g.name
      BY JobTypes DEF GroupRow
    <3>2. j = j1
      OBVIOUS
    <3> HIDE DEF j0, j
    <3> QED
      BY <3>1, <3>2 DEF Busy
  <2> HIDE DEF j
  <2>2. Begin(w, j) /\ used' = used
    BY <1>4 DEF CreateStep, j
  <2> QED
    BY <2>1, <2>2
<1>5. ASSUME NEW g \in groups, NEW id \in StepIds, DeleteStep(w, g, id)
      PROVE  \E j \in Busy : /\ Begin(w, j) /\ used' = used
                            /\ j.name = g.name /\ j.op = "getstep"
  <2> DEFINE j == [Job("getstep", g.name, g) EXCEPT !.ids = <<id>>]
  <2>1. j \in Busy /\ j.name = g.name /\ j.op = "getstep"
    <3>1. /\ Job("getstep", g.name, g) \in Busy
          /\ Job("getstep", g.name, g).op = "getstep"
          /\ Job("getstep", g.name, g).name = g.name
      BY JobTypes DEF GroupRow
    <3>2. <<id>> \in {q \in Seq(StepIds) : Len(q) <= MaxOrder + 1}
      BY ConstantsAssumption
    <3> QED
      BY <3>1, <3>2 DEF Busy
  <2> HIDE DEF j
  <2>2. Begin(w, j) /\ used' = used
    BY <1>5 DEF DeleteStep, j
  <2> QED
    BY <2>1, <2>2
<1>6. ASSUME NEW g \in groups, NEW q \in Orderings, Reorder(w, g, q)
      PROVE  \E j \in Busy : /\ Begin(w, j) /\ used' = used
                            /\ j.name = g.name /\ j.op = "reorder"
  <2> DEFINE j == [Job("reorder", g.name, g) EXCEPT !.ids = q]
  <2>1. j \in Busy /\ j.name = g.name /\ j.op = "reorder"
    <3>1. /\ Job("reorder", g.name, g) \in Busy
          /\ Job("reorder", g.name, g).op = "reorder"
          /\ Job("reorder", g.name, g).name = g.name
      BY JobTypes DEF GroupRow
    <3> QED
      BY <3>1, ConstantsAssumption DEF Busy
  <2> HIDE DEF j
  <2>2. Begin(w, j) /\ used' = used
    BY <1>6 DEF Reorder, j
  <2> QED
    BY <2>1, <2>2
<1>7. CASE \E n \in Names, s \in Spaces, c \in Content :
              \/ CreateGroup(w, n, s, c)
              \/ \E new \in Imports : Import(w, n, s, c, new)
  BY <1>1, <1>7, ConstantsAssumption DEF CreateGroup
<1>8. CASE \E g \in groups, sent \in SUBSET Fields : \E c \in [sent -> Values] :
              UpdateGroup(w, g, sent, c)
  BY <1>2, <1>8
<1>9. CASE \E g \in groups : \E ident \in {g.id, g.name} : DeleteGroup(w, ident, g)
  BY <1>3, <1>9
<1>10. CASE \E g \in groups :
              \/ \E st \in NewStep : CreateStep(w, g, st)
              \/ \E id \in StepIds : DeleteStep(w, g, id)
              \/ \E q \in Orderings : Reorder(w, g, q)
  BY <1>4, <1>5, <1>6, <1>10
<1> QED
  BY <1>7, <1>8, <1>9, <1>10 DEF Request

LEMMA WorkerBusy ==
    ASSUME TypeOK, NEW w \in Workers, job[w].op # "idle"
    PROVE  job[w] \in Busy /\ job[w] # Idle
BY DEF TypeOK, Idle

LEMMA IdleOp ==
    ASSUME TypeOK, NEW w \in Workers, job[w] = Idle
    PROVE  job[w].op = "idle" /\ ~Saving(w)
BY DEF Idle, Saving

\* What a request has still to do after one storage operation: it stays with
\* its name, and comes to the saving of steps only from the save of its group.
LEMMA OperationJobs ==
    ASSUME TypeOK, NEW w \in Workers, Operation(w)
    PROVE  /\ job[w] \in Busy /\ job[w] # Idle
           /\ \E j \in Busy \cup {Idle}, wrote \in BOOLEAN :
                /\ Continue(w, j, wrote)
                /\ groups' # groups => wrote
                /\ j # Idle =>
                      /\ j \in Busy
                      /\ j.name = job[w].name
                      /\ \/ j.op = "dropstep"
                         \/ j.op = "steps" /\ (job[w].op = "steps" \/ SaveGroup(w))
<1>1. CASE SaveGroup(w)
  <2>1. job[w] \in Busy /\ job[w] # Idle
    BY <1>1, WorkerBusy DEF SaveGroup, Saving
  <2> DEFINE j == [job[w] EXCEPT !.op = "steps", !.saves = {}]
  <2>2. j \in Busy /\ j.name = job[w].name /\ j.op = "steps"
    <3> DEFINE j1 == [job[w] EXCEPT !.op = "steps"]
               j2 == [j1 EXCEPT !.saves = {}]
    <3>1. j1 \in Busy /\ j1.name = job[w].name /\ j1.op = "steps"
      BY <2>1 DEF Busy
    <3>2. j = j2
      OBVIOUS
    <3> HIDE DEF j1, j
    <3> QED
      BY <3>1, <3>2 DEF Busy
  <2> HIDE DEF j
  <2>3. \E k \in {j, Idle} : Continue(w, k, TRUE)
    BY <1>1 DEF SaveGroup, j
  <2> QED
    BY <1>1, <2>1, <2>2, <2>3
<1>2. CASE LoseGroup(w) \/ RemoveGroup(w) \/ DropStep(w) \/ ReorderSteps(w)
  BY <1>2, WorkerBusy DEF LoseGroup, RemoveGroup, DropStep, ReorderSteps, Saving
<1>3. CASE GetStep(w)
  <2>1. job[w] \in Busy /\ job[w] # Idle
    BY <1>3, WorkerBusy DEF GetStep
  <2> DEFINE j == [job[w] EXCEPT !.op = "dropstep"]
  <2>2. j \in Busy /\ j.name = job[w].name /\ j.op = "dropstep"
    BY <2>1 DEF Busy
  <2> HIDE DEF j
  <2>3. \E k \in {j, Idle} : Continue(w, k, FALSE)
    BY <1>3 DEF GetStep, j
  <2> QED
    BY <1>3, <2>1, <2>2, <2>3 DEF GetStep
<1>4. CASE Fail(w)
  BY <1>4, WorkerBusy DEF Fail
<1>5. ASSUME NEW st \in NewStep, SaveStep(w, st) \/ LoseStep(w, st)
      PROVE  /\ job[w] \in Busy /\ job[w] # Idle
             /\ \E j \in Busy \cup {Idle}, wrote \in BOOLEAN :
                  /\ Continue(w, j, wrote)
                  /\ groups' # groups => wrote
                  /\ j # Idle => /\ j \in Busy
                                 /\ j.name = job[w].name
                                 /\ j.op = "steps" /\ job[w].op = "steps"
  <2>1. job[w] \in Busy /\ job[w] # Idle /\ job[w].op = "steps"
    BY <1>5, WorkerBusy DEF SaveStep, LoseStep
  <2>2. StepDone(w, st) # Idle =>
            /\ StepDone(w, st) \in Busy
            /\ StepDone(w, st).name = job[w].name
            /\ StepDone(w, st).op = "steps"
    <3> SUFFICES ASSUME StepDone(w, st) # Idle
                 PROVE  /\ StepDone(w, st) \in Busy
                        /\ StepDone(w, st).name = job[w].name
                        /\ StepDone(w, st).op = "steps"
      OBVIOUS
    <3> DEFINE left == job[w].todo \ {st}
               j1 == [job[w] EXCEPT !.todo = left]
    <3>1. left \in SUBSET NewStep
      <4>1. job[w].todo \in SUBSET NewStep
        BY <2>1 DEF Busy
      <4> QED
        BY <4>1
    <3>2. StepDone(w, st) = j1
      BY DEF StepDone
    <3> HIDE DEF left
    <3> QED
      BY <2>1, <3>1, <3>2 DEF Busy
  <2>3. \E wrote \in BOOLEAN : Continue(w, StepDone(w, st), wrote)
    <3>1. CASE SaveStep(w, st)
      BY <3>1 DEF SaveStep
    <3>2. CASE LoseStep(w, st)
      <4>1. (steps' # steps) \in BOOLEAN
        OBVIOUS
      <4> QED
        BY <3>2, <4>1 DEF LoseStep
    <3> QED
      BY <1>5, <3>1, <3>2
  <2>4. groups' = groups
    BY <1>5 DEF SaveStep, LoseStep
  <2> QED
    BY <2>1, <2>2, <2>3, <2>4
<1> QED
  BY <1>1, <1>2, <1>3, <1>4, <1>5 DEF Operation

\* The rows of the tables after one storage operation.
LEMMA OperationRows ==
    ASSUME TypeOK, NEW w \in Workers, Operation(w)
    PROVE  groups' \subseteq GroupRow /\ steps' \subseteq StepRow
           /\ excused' \subseteq Names
<1> USE DEF TypeOK
<1>1. job[w] \in Busy
  BY OperationJobs
<1>2. CASE SaveGroup(w) \/ LoseGroup(w)
  BY <1>1, <1>2 DEF SaveGroup, LoseGroup, Others, Busy
<1>3. CASE RemoveGroup(w)
  BY <1>1, <1>3 DEF RemoveGroup
<1>4. CASE GetStep(w) \/ Fail(w) \/ DropStep(w)
  BY <1>1, <1>4 DEF GetStep, Fail, DropStep, OtherSteps
<1>5. CASE ReorderSteps(w)
  <2>1. job[w].ids \in Seq(StepIds) /\ Len(job[w].ids) <= MaxOrder + 1
    BY <1>1 DEF Busy
  <2>2. ASSUME NEW st \in StepRow, NEW i \in LastAt(job[w].ids, st.id)
        PROVE  [st EXCEPT !.order = NewOrder(i)] \in StepRow
    <3>1. NewOrder(i) \in 0..MaxOrder
      BY <2>1, ConstantsAssumption DEF LastAt, NewOrder
    <3> QED
      BY <3>1 DEF StepRow
  <2>3. \A x \in steps' : \/ x \in steps
                         \/ \E st \in steps : \E i \in LastAt(job[w].ids, st.id) :
                               x = [st EXCEPT !.order = NewOrder(i)]
    <3> SUFFICES ASSUME NEW x \in steps', x \notin steps
                 PROVE  \E st \in steps : \E i \in LastAt(job[w].ids, st.id) :
                            x = [st EXCEPT !.order = NewOrder(i)]
      OBVIOUS
    <3> DEFINE Places(st) == IF st.group = job[w].name
                             THEN LastAt(job[w].ids, st.id) ELSE {}
    <3>1. \E st \in steps : x \in {[st EXCEPT !.order = NewOrder(i)] : i \in Places(st)}
      BY <1>5 DEF ReorderSteps
    <3> QED
      BY <3>1
  <2>4. groups' = groups /\ excused' = excused
    BY <1>5 DEF ReorderSteps
  <2> QED
    BY <2>2, <2>3, <2>4
<1>6. ASSUME NEW st \in NewStep, SaveStep(w, st) \/ LoseStep(w, st)
      PROVE  groups' \subseteq GroupRow /\ steps' \subseteq StepRow
             /\ excused' \subseteq Names
  <2>1. job[w].name \in Names
    BY <1>1 DEF Busy
  <2>2. [group |-> job[w].name, id |-> st.id, order |-> st.order] \in StepRow
    BY <2>1 DEF StepRow, NewStep
  <2> QED
    BY <1>6, <2>1, <2>2 DEF SaveStep, LoseStep, OtherSteps
<1> QED
  BY <1>2, <1>3, <1>4, <1>5, <1>6 DEF Operation

LEMMA TypeInit == Init => TypeOK
BY ConstantsAssumption DEF Init, TypeOK

LEMMA TypeStep ==
    ASSUME TypeOK, [Next]_vars
    PROVE  TypeOK'
<1>1. ASSUME NEW w \in Workers, Request(w)
      PROVE  TypeOK'
  <2>1. PICK j \in Busy : Begin(w, j) /\ used' \subseteq GroupIds
    BY <1>1, RequestJobs DEF TypeOK
  <2> QED
    BY <2>1, BeginTypes DEF TypeOK
<1>2. ASSUME NEW w \in Workers, Operation(w)
      PROVE  TypeOK'
  <2>1. PICK j \in Busy \cup {Idle}, wrote \in BOOLEAN : Continue(w, j, wrote)
    BY <1>2, OperationJobs
  <2>2. /\ used' = used /\ served' = served
        /\ job' \in [Workers -> Busy \cup {Idle}]
        /\ missed' \in [Workers -> BOOLEAN]
    BY <2>1, ContinueTypes
  <2> QED
    BY <1>2, <2>2, OperationRows DEF TypeOK
<1>3. CASE UNCHANGED vars
  BY <1>3 DEF vars, TypeOK
<1> QED
  BY <1>1, <1>2, <1>3 DEF Next

\* TypeOK: the state is what the tables and the requests can hold.
THEOREM TypeCorrect == Spec => []TypeOK
<1> QED
  BY TypeInit, TypeStep, PTL DEF Spec

-----------------------------------------------------------------------------
\* An id keeps its name.

\* The rows to be saved after a step are those that were there before, but
\* for those of a request that begins.
LEMMA SavesKept ==
    ASSUME TypeOK, NEW w \in Workers, Operation(w), NEW v \in Workers, Saving(v)'
    PROVE  v # w /\ Saving(v) /\ job'[v] = job[v]
<1>1. PICK j \in Busy \cup {Idle}, wrote \in BOOLEAN :
         /\ Continue(w, j, wrote)
         /\ j # Idle => j.op \in {"dropstep", "steps"}
  BY OperationJobs
<1>2. job'[w] = j /\ \A u \in Workers \ {w} : job'[u] = job[u]
  BY <1>1, ContinueTypes
<1>3. j.op \notin {"create", "update"}
  BY <1>1 DEF Idle
<1> QED
  BY <1>2, <1>3 DEF Saving

\* The rows of rule_groups after a step are old ones or one that was saved.
LEMMA GroupsKept ==
    ASSUME TypeOK, NEW w \in Workers, Operation(w), NEW g \in groups'
    PROVE  g \in groups \/ (SaveGroup(w) /\ g \in job[w].saves)
<1>1. CASE SaveGroup(w)
  BY <1>1 DEF SaveGroup, Others
<1>2. CASE LoseGroup(w)
  BY <1>2 DEF LoseGroup, Others
<1>3. CASE RemoveGroup(w)
  BY <1>3 DEF RemoveGroup
<1>4. CASE groups' = groups
  BY <1>4
<1> QED
  BY <1>1, <1>2, <1>3, <1>4
     DEF Operation, GetStep, DropStep, ReorderSteps, Fail, SaveStep, LoseStep

LEMMA NamedStable ==
    ASSUME TypeOK, IdsInv, [Next]_vars, NEW id \in used, NEW n, Named(id, n)
    PROVE  id \in used' /\ Named(id, n)'
<1>1. ASSUME NEW w \in Workers, Request(w)
      PROVE  id \in used' /\ Named(id, n)'
  <2>1. PICK j \in Busy :
              /\ Begin(w, j)
              /\ used \subseteq used'
              /\ j.op \in {"create", "update"} =>
                    \E row \in GroupRow :
                       /\ j.saves = {row}
                       /\ \/ row.id \notin used
                          \/ \E g \in groups : row.id = g.id /\ row.name = g.name
    <3>1. PICK k \in Busy : 
              /\ Begin(w, k)
              /\ \/ /\ k.op = "create"
                    /\ \E row \in GroupRow :
                          /\ row.id \in GroupIds \ used
                          /\ used' = used \cup {row.id}
                          /\ k.saves = {row} /\ k.name = row.name
                 \/ /\ used' = used
                    /\ \E g \in groups :
                          /\ k.name = g.name
                          /\ \/ /\ k.op = "update"
                                /\ \E row \in GroupRow :
                                      /\ k.saves = {row}
                                      /\ row.id = g.id /\ row.name = g.name
                             \/ k.op = "delete" /\ k.ident \in {g.id, g.name}
                             \/ k.op \in {"steps", "getstep", "reorder"}
      BY <1>1, RequestJobs
    <3> QED
      BY <3>1
  <2>2. /\ groups' = groups /\ job'[w] = j
        /\ \A v \in Workers \ {w} : job'[v] = job[v]
    BY <2>1, BeginTypes
  <2>3. \A g \in groups : g.id = id => g.name = n
    BY DEF Named
  <2>4. ASSUME NEW v \in Workers, Saving(v)', NEW row \in job'[v].saves, row.id = id
        PROVE  row.name = n
    <3>1. CASE v = w
      BY <2>1, <2>2, <2>3, <2>4, <3>1 DEF Saving
    <3>2. CASE v # w
      BY <2>2, <2>4, <3>2 DEF Named, Saving
    <3> QED
      BY <3>1, <3>2
  <2> QED
    BY <2>1, <2>2, <2>3, <2>4 DEF Named
<1>2. ASSUME NEW w \in Workers, Operation(w)
      PROVE  id \in used' /\ Named(id, n)'
  <2>1. used' = used
    BY <1>2, OperationJobs, ContinueTypes
  <2>2. \A g \in groups' : g.id = id => g.name = n
    BY <1>2, GroupsKept DEF Named, SaveGroup
  <2>3. \A v \in Workers : Saving(v)' =>
            \A row \in job'[v].saves : row.id = id => row.name = n
    BY <1>2, SavesKept DEF Named
  <2> QED
    BY <2>1, <2>2, <2>3 DEF Named
<1>3. CASE UNCHANGED vars
  BY <1>3 DEF vars, Named, Saving
<1> QED
  BY <1>1, <1>2, <1>3 DEF Next

LEMMA IdsStep ==
    ASSUME TypeOK, IdsInv, [Next]_vars
    PROVE  IdsInv'
<1>1. ASSUME NEW w \in Workers, Request(w)
      PROVE  IdsInv'
  <2>1. PICK j \in Busy :
              /\ Begin(w, j)
              /\ \/ /\ j.op = "create"
                    /\ \E row \in GroupRow :
                          /\ row.id \in GroupIds \ used
                          /\ used' = used \cup {row.id}
                          /\ j.saves = {row} /\ j.name = row.name
                 \/ /\ used' = used
                    /\ \E g \in groups :
                          /\ j.name = g.name
                          /\ \/ /\ j.op = "update"
                                /\ \E row \in GroupRow :
                                      /\ j.saves = {row}
                                      /\ row.id = g.id /\ row.name = g.name
                             \/ /\ j.op = "delete"
                                /\ \/ j.ident = g.id
                                   \/ j.ident = g.name /\ j.ident \notin UuidLike
                             \/ j.op \in {"steps", "getstep", "reorder"}
    BY <1>1, RequestJobs
  <2>2. /\ groups' = groups /\ job'[w] = j
        /\ \A v \in Workers \ {w} : job'[v] = job[v]
    BY <2>1, BeginTypes
  <2>3. \A g \in groups : g.id \in used' /\ Named(g.id, g.name)'
    BY NamedStable DEF IdsInv
  <2>4. ASSUME NEW v \in Workers, Saving(v)'
        PROVE  \E row \in GroupRow :
                  /\ job'[v].saves = {row}
                  /\ row.id \in used'
                  /\ row.name = job'[v].name
                  /\ Named(row.id, row.name)'
    <3>1. CASE v # w
      <4>1. PICK row \in GroupRow : /\ job[v].saves = {row}
                                    /\ row.id \in used
                                    /\ row.name = job[v].name
                                    /\ Named(row.id, row.name)
        BY <2>2, <2>4, <3>1 DEF IdsInv, Saving
      <4>2. row.id \in used' /\ Named(row.id, row.name)'
        BY <4>1, NamedStable
      <4> QED
        BY <2>2, <3>1, <4>1, <4>2
    <3>2. CASE v = w /\ j.op = "create"
      <4>1. PICK row \in GroupRow : /\ row.id \in GroupIds \ used
                                    /\ used' = used \cup {row.id}
                                    /\ j.saves = {row} /\ j.name = row.name
        BY <2>1, <3>2
      <4>2. \A g \in groups : g.id # row.id
        BY <4>1 DEF IdsInv
      <4>3. \A u \in Workers \ {w} : Saving(u)' =>
                \A x \in job'[u].saves : x.id # row.id
        BY <2>2, <4>1 DEF IdsInv, Saving
      <4>4. Named(row.id, row.name)'
        BY <2>2, <3>2, <4>1, <4>2, <4>3 DEF Named, Saving
      <4> QED
        BY <2>2, <3>2, <4>1, <4>4
    <3>3. CASE v = w /\ j.op = "update"
      <4>1. PICK g \in groups, row \in GroupRow :
               /\ j.name = g.name /\ j.saves = {row}
               /\ row.id = g.id /\ row.name = g.name
        BY <2>1, <3>3
      <4> QED
        BY <2>2, <2>3, <3>3, <4>1
    <3> QED
      BY <2>2, <2>4, <3>1, <3>2, <3>3 DEF Saving
  <2>5. ASSUME NEW v \in Workers, job'[v].op = "delete"
        PROVE  \/ job'[v].ident = job'[v].name /\ job'[v].ident \notin UuidLike
               \/ \E id \in used', n \in Names :
                     job'[v].ident = id /\ job'[v].name = n /\ Named(id, n)'
    <3>1. CASE v # w
      <4>1. job'[v] = job[v] /\ job[v].op = "delete"
        BY <2>2, <2>5, <3>1
      <4>2. ASSUME NEW id \in used, NEW n \in Names, Named(id, n),
                   job[v].ident = id, job[v].name = n
            PROVE  id \in used' /\ Named(id, n)'
        BY <4>2, NamedStable
      <4> QED
        BY <4>1, <4>2 DEF IdsInv
    <3>2. CASE v = w
      <4>1. PICK g \in groups :
               /\ j.name = g.name
               /\ j.ident = g.id \/ (j.ident = g.name /\ j.ident \notin UuidLike)
        BY <2>1, <2>2, <2>5, <3>2
      <4>2. g.id \in used' /\ g.name \in Names /\ Named(g.id, g.name)'
        BY <2>3 DEF TypeOK, GroupRow
      <4> QED
        BY <2>2, <3>2, <4>1, <4>2
    <3> QED
      BY <3>1, <3>2
  <2> QED
    BY <2>2, <2>3, <2>4, <2>5 DEF IdsInv
<1>2. ASSUME NEW w \in Workers, Operation(w)
      PROVE  IdsInv'
  <2>1. PICK j \in Busy \cup {Idle}, wrote \in BOOLEAN :
           /\ Continue(w, j, wrote)
           /\ j # Idle => j.op \in {"dropstep", "steps"}
    BY <1>2, OperationJobs
  <2>2. /\ used' = used /\ job'[w] = j
        /\ \A u \in Workers \ {w} : job'[u] = job[u]
    BY <2>1, ContinueTypes
  <2>3. \A g \in groups' : g.id \in used /\ Named(g.id, g.name)
    BY <1>2, GroupsKept DEF IdsInv, SaveGroup
  <2>4. \A g \in groups' : g.id \in used' /\ Named(g.id, g.name)'
    BY <2>3, NamedStable
  <2>5. ASSUME NEW v \in Workers, Saving(v)'
        PROVE  \E row \in GroupRow :
                  /\ job'[v].saves = {row}
                  /\ row.id \in used'
                  /\ row.name = job'[v].name
                  /\ Named(row.id, row.name)'
    <3>1. Saving(v) /\ job'[v] = job[v]
      BY <1>2, <2>5, SavesKept
    <3>2. PICK row \in GroupRow : /\ job[v].saves = {row}
                                  /\ row.id \in used
                                  /\ row.name = job[v].name
                                  /\ Named(row.id, row.name)
      BY <3>1 DEF IdsInv
    <3>3. row.id \in used' /\ Named(row.id, row.name)'
      BY <3>2, NamedStable
    <3> QED
      BY <3>1, <3>2, <3>3
  <2>6. ASSUME NEW v \in Workers, job'[v].op = "delete"
        PROVE  \/ job'[v].ident = job'[v].name /\ job'[v].ident \notin UuidLike
               \/ \E id \in used', n \in Names :
                     job'[v].ident = id /\ job'[v].name = n /\ Named(id, n)'
    <3>1. v # w
      BY <2>1, <2>2, <2>6 DEF Idle
    <3>2. job'[v] = job[v] /\ job[v].op = "delete"
      BY <2>2, <2>6, <3>1
    <3>3. ASSUME NEW id \in used, NEW n \in Names, Named(id, n),
                 job[v].ident = id, job[v].name = n
          PROVE  id \in used' /\ Named(id, n)'
      BY <3>3, NamedStable
    <3> QED
      BY <3>2, <3>3 DEF IdsInv
  <2> QED
    BY <2>4, <2>5, <2>6 DEF IdsInv
<1>3. CASE UNCHANGED vars
  BY <1>3 DEF vars, IdsInv, Named, Saving
<1> QED
  BY <1>1, <1>2, <1>3 DEF Next

-----------------------------------------------------------------------------
\* Steps and their groups.

\* A row that a save or a deletion takes away has the name of the request.
LEMMA NamesKept ==
    ASSUME TypeOK, IdsInv, NEW w \in Workers, Operation(w),
           NEW n, HasGroup(n), n # job[w].name
    PROVE  HasGroup(n)'
<1>1. PICK g \in groups : g.name = n
  BY DEF HasGroup
<1>2. CASE SaveGroup(w) \/ LoseGroup(w)
  <2>1. PICK row \in GroupRow : /\ job[w].saves = {row}
                                /\ row.name = job[w].name
                                /\ Named(row.id, row.name)
    BY <1>2 DEF IdsInv, SaveGroup, LoseGroup
  <2>2. g \in Others(row)
    BY <1>1, <2>1 DEF Others, Named
  <2> QED
    BY <1>1, <1>2, <2>1, <2>2 DEF SaveGroup, LoseGroup, HasGroup
<1>3. CASE RemoveGroup(w)
  <2>1. job[w].op = "delete" /\ job[w].name \in Names
    BY <1>3, OperationJobs DEF RemoveGroup, Busy
  <2>2. \/ job[w].ident = job[w].name /\ job[w].ident \notin UuidLike
        \/ \E id \in used : job[w].ident = id /\ Named(id, job[w].name)
    BY <2>1 DEF IdsInv
  <2>3. g \notin Find(job[w].ident, job[w].space)
    BY <1>1, <2>1, <2>2, ConstantsAssumption DEF Find, Named, TypeOK
  <2> QED
    BY <1>1, <1>3, <2>3 DEF RemoveGroup, HasGroup
<1>4. CASE groups' = groups
  BY <1>4 DEF HasGroup
<1> QED
  BY <1>2, <1>3, <1>4
     DEF Operation, GetStep, DropStep, ReorderSteps, Fail, SaveStep, LoseStep

\* A save of a group leaves a group of that name.
LEMMA SavedName ==
    ASSUME IdsInv, NEW w \in Workers, SaveGroup(w)
    PROVE  \E g \in groups' : g.name = job[w].name
<1>1. PICK row \in GroupRow : job[w].saves = {row} /\ row.name = job[w].name
  BY DEF IdsInv, SaveGroup
<1>2. row \in groups'
  BY <1>1 DEF SaveGroup
<1> QED
  BY <1>1, <1>2

LEMMA StepsStep ==
    ASSUME TypeOK, IdsInv, StepsInv, [Next]_vars
    PROVE  StepsInv'
<1>1. ASSUME NEW w \in Workers, Request(w), NEW v \in Workers,
             job'[v].op = "steps", ~missed'[v], NEW n, n = job'[v].name
      PROVE  HasGroup(n)'
  <2>1. PICK j \in Busy :
           /\ Begin(w, j)
           /\ j.op = "steps" => \E g \in groups : j.name = g.name
    <3>1. PICK k \in Busy :
              /\ Begin(w, k)
              /\ k.op # "create" => \E g \in groups : k.name = g.name
              /\ k.op = "steps" => k.op # "create"
      BY <1>1, RequestJobs
    <3> QED
      BY <3>1
  <2>2. /\ groups' = groups /\ job'[w] = j
        /\ \A u \in Workers \ {w} : job'[u] = job[u] /\ missed'[u] = missed[u]
    BY <2>1, BeginTypes
  <2>3. \E g \in groups : g.name = n
    <3>1. CASE v = w
      BY <1>1, <2>1, <2>2, <3>1
    <3>2. CASE v # w
      BY <1>1, <2>2, <3>2 DEF StepsInv, HasGroup
    <3> QED
      BY <3>1, <3>2
  <2> QED
    BY <2>2, <2>3 DEF HasGroup
<1>2. ASSUME NEW w \in Workers, Operation(w), NEW v \in Workers,
             job'[v].op = "steps", ~missed'[v], NEW n, n = job'[v].name
      PROVE  HasGroup(n)'
  <2>1. PICK j \in Busy \cup {Idle}, wrote \in BOOLEAN :
           /\ job[w] # Idle
           /\ Continue(w, j, wrote)
           /\ groups' # groups => wrote
           /\ j # Idle =>
                 /\ j.name = job[w].name
                 /\ j.op = "steps" => job[w].op = "steps" \/ SaveGroup(w)
    BY <1>2, OperationJobs
  <2>2. /\ job'[w] = j /\ missed' \in [Workers -> BOOLEAN]
        /\ missed[w] /\ j # Idle => missed'[w]
        /\ \A u \in Workers \ {w} :
                /\ job'[u] = job[u]
                /\ missed[u] => missed'[u]
                /\ wrote /\ job[u] # Idle /\ job[u].name = job[w].name
                     => missed'[u]
    BY <2>1, ContinueTypes
  <2>3. CASE v = w
    <3>1. j # Idle /\ j.op = "steps" /\ n = job[w].name /\ ~missed[w]
      BY <1>2, <2>1, <2>2, <2>3 DEF Idle
    <3>2. CASE SaveGroup(w)
      <4>1. \E g \in groups' : g.name = n
        BY <3>1, <3>2, SavedName
      <4> QED
        BY <4>1 DEF HasGroup
    <3>3. CASE job[w].op = "steps"
      <4>1. groups' = groups
        BY <1>2, <3>3
           DEF Operation, SaveGroup, LoseGroup, Saving, RemoveGroup, GetStep,
               DropStep, ReorderSteps, Fail, SaveStep, LoseStep
      <4>2. HasGroup(n)
        BY <3>1, <3>3 DEF StepsInv
      <4> QED
        BY <4>1, <4>2 DEF HasGroup
    <3> QED
      BY <2>1, <3>1, <3>2, <3>3
  <2>4. CASE v # w
    <3>1. job[v].op = "steps" /\ ~missed[v] /\ n = job[v].name /\ job[v] # Idle
      BY <1>2, <2>2, <2>4 DEF Idle
    <3>2. HasGroup(n)
      BY <3>1 DEF StepsInv
    <3>3. groups' = groups \/ n # job[w].name
      BY <1>2, <2>1, <2>2, <2>4, <3>1
    <3> QED
      BY <1>2, <3>2, <3>3, NamesKept DEF HasGroup
  <2> QED
    BY <2>3, <2>4
<1>3. CASE UNCHANGED vars
  BY <1>3 DEF vars, StepsInv, HasGroup
<1>4. CASE Next
  <2>1. \A v \in Workers : job'[v].op = "steps" /\ ~missed'[v] =>
           \E g \in groups' : g.name = job'[v].name
    BY <1>1, <1>2, <1>4 DEF Next, HasGroup
  <2> QED
    BY <2>1 DEF StepsInv, HasGroup
<1> QED
  BY <1>3, <1>4

\* The steps after an operation: where each comes from.
LEMMA StepsKept ==
    ASSUME TypeOK, NEW w \in Workers, Operation(w), NEW x \in steps'
    PROVE  \/ \E st \in steps : st.group = x.group
           \/ /\ job[w].op = "steps"
              /\ x.group = job[w].name
              /\ missed[w] => x.group \in excused'
<1>1. ASSUME NEW st \in NewStep, SaveStep(w, st), x \notin steps
      PROVE  /\ job[w].op = "steps" /\ x.group = job[w].name
             /\ missed[w] => x.group \in excused'
  BY <1>1 DEF SaveStep, OtherSteps
<1>2. CASE ReorderSteps(w)
  <2> DEFINE Places(st) == IF st.group = job[w].name
                           THEN LastAt(job[w].ids, st.id) ELSE {}
  <2>1. \/ x \in steps
        \/ \E st \in steps : x \in {[st EXCEPT !.order = NewOrder(i)] : i \in Places(st)}
    BY <1>2 DEF ReorderSteps
  <2>2. ASSUME NEW st \in steps, NEW i \in Places(st),
               x = [st EXCEPT !.order = NewOrder(i)]
        PROVE  x.group = st.group
    BY <2>2 DEF TypeOK, StepRow
  <2> HIDE DEF Places
  <2> QED
    BY <2>1, <2>2
<1>3. CASE steps' \subseteq steps
  BY <1>3
<1>4. (\E st \in NewStep : SaveStep(w, st)) \/ ReorderSteps(w) \/ steps' \subseteq steps
  BY DEF Operation, SaveGroup, LoseGroup, RemoveGroup, GetStep, DropStep, Fail,
         LoseStep, OtherSteps
<1> QED
  BY <1>1, <1>2, <1>3, <1>4

LEMMA OrphansStep ==
    ASSUME TypeOK, IdsInv, StepsInv, OrphansExcused, [Next]_vars
    PROVE  OrphansExcused'
<1>1. ASSUME NEW w \in Workers, Request(w)
      PROVE  OrphansExcused'
  <2>1. groups' = groups /\ steps' = steps /\ excused' = excused
    BY <1>1, RequestJobs, BeginTypes
  <2> QED
    BY <2>1 DEF OrphansExcused
<1>2. ASSUME NEW w \in Workers, Operation(w), NEW x \in steps'
      PROVE  (\E g \in groups' : g.name = x.group) \/ x.group \in excused'
  <2>1. excused \subseteq excused'
    BY <1>2 DEF Operation, SaveGroup, LoseGroup, RemoveGroup, GetStep, DropStep,
                ReorderSteps, Fail, SaveStep, LoseStep
  <2>2. CASE RemoveGroup(w)
    <3>1. /\ x \in steps
          /\ x.group \notin (IF job[w].ident \in UuidLike
                              THEN {g.name : g \in Find(job[w].ident, job[w].space)}
                              ELSE {job[w].ident})
          /\ groups' = groups \ Find(job[w].ident, job[w].space)
      BY <1>2, <2>2 DEF RemoveGroup
    <3>2. ASSUME NEW g \in groups, g.name = x.group
          PROVE  g \in groups'
      <4>1. job[w].ident \in GroupIds \cup Names
        BY <1>2, OperationJobs DEF Busy
      <4> QED
        BY <3>1, <3>2, <4>1, ConstantsAssumption DEF Find
    <3> QED
      BY <2>1, <3>1, <3>2 DEF OrphansExcused
  <2>3. CASE LoseGroup(w) /\ x.group = job[w].name
    BY <2>3 DEF LoseGroup
  <2>4. CASE SaveGroup(w) /\ x.group = job[w].name
    BY <2>4, SavedName
  <2>5. CASE HasGroup(x.group) /\ x.group # job[w].name
    BY <1>2, <2>5, NamesKept DEF HasGroup
  <2>6. CASE HasGroup(x.group) /\ groups' = groups
    BY <2>6 DEF HasGroup
  <2>7. SaveGroup(w) \/ LoseGroup(w) \/ RemoveGroup(w) \/ groups' = groups
    BY <1>2 DEF Operation, GetStep, DropStep, ReorderSteps, Fail, SaveStep, LoseStep
  <2>8. HasGroup(x.group) \/ x.group \in excused'
    BY <1>2, <2>1, StepsKept DEF OrphansExcused, StepsInv, HasGroup
  <2> QED
    BY <2>2, <2>3, <2>4, <2>5, <2>6, <2>7, <2>8
<1>3. CASE UNCHANGED vars
  BY <1>3 DEF vars, OrphansExcused
<1> QED
  BY <1>1, <1>2, <1>3 DEF Next, OrphansExcused

-----------------------------------------------------------------------------
\* The keys.

\* A step is in at most one last place of a list.
LEMMA LastAtUnique ==
    ASSUME NEW q \in Seq(StepIds), NEW id, NEW i \in LastAt(q, id),
           NEW k \in LastAt(q, id)
    PROVE  i = k
<1>1. /\ i \in 1..Len(q) /\ k \in 1..Len(q) /\ q[i] = id /\ q[k] = id
      /\ \A l \in (i + 1)..Len(q) : q[l] # id
      /\ \A l \in (k + 1)..Len(q) : q[l] # id
  BY DEF LastAt
<1>2. Len(q) \in Nat
  OBVIOUS
<1>3. ~(i < k)
  BY <1>1, <1>2
<1>4. ~(k < i)
  BY <1>1, <1>2
<1> QED
  BY <1>1, <1>2, <1>3, <1>4

GroupKeys(G) ==
    \A g, h \in G : g.id = h.id \/ (g.name = h.name /\ g.space = h.space) => g = h

StepKeys(S) == \A x, y \in S : x.group = y.group /\ x.id = y.id => x = y

LEMMA KeysStep ==
    ASSUME TypeOK, KeysUnique, [Next]_vars
    PROVE  KeysUnique'
<1>1. GroupKeys(groups) /\ StepKeys(steps)
  BY DEF KeysUnique, GroupKeys, StepKeys
<1>2. ASSUME NEW w \in Workers, Request(w)
      PROVE  groups' = groups /\ steps' = steps
  BY <1>2, RequestJobs, BeginTypes
<1>3. ASSUME NEW w \in Workers, Operation(w)
      PROVE  GroupKeys(groups')
  <2>1. CASE SaveGroup(w)
    BY <1>1, <2>1 DEF SaveGroup, Others, GroupKeys
  <2>2. CASE groups' \subseteq groups
    BY <1>1, <2>2 DEF GroupKeys
  <2>3. SaveGroup(w) \/ groups' \subseteq groups
    BY <1>3 DEF Operation, LoseGroup, Others, RemoveGroup, GetStep, DropStep,
                ReorderSteps, Fail, SaveStep, LoseStep
  <2> QED
    BY <2>1, <2>2, <2>3
<1>4. ASSUME NEW w \in Workers, Operation(w)
      PROVE  StepKeys(steps')
  <2>1. ASSUME NEW st \in NewStep, SaveStep(w, st)
        PROVE  StepKeys(steps')
    BY <1>1, <2>1 DEF SaveStep, OtherSteps, StepKeys
  <2>2. CASE ReorderSteps(w)
    <3> DEFINE Places(st) == IF st.group = job[w].name
                             THEN LastAt(job[w].ids, st.id) ELSE {}
               Moved(st) == {[st EXCEPT !.order = NewOrder(i)] : i \in Places(st)}
    <3>1. \A x \in steps' : \/ x \in steps /\ Places(x) = {}
                           \/ \E st \in steps : x \in Moved(st)
      BY <2>2 DEF ReorderSteps
    <3>2. \A st \in steps : \A x \in Moved(st) :
              x.group = st.group /\ x.id = st.id /\ Places(st) # {}
      BY DEF TypeOK, StepRow
    <3>3. ASSUME NEW st \in steps, NEW x \in Moved(st), NEW y \in Moved(st)
          PROVE  x = y
      <4>1. job[w].ids \in Seq(StepIds)
        BY <1>4, OperationJobs DEF Busy
      <4>2. PICK i \in Places(st) : x = [st EXCEPT !.order = NewOrder(i)]
        OBVIOUS
      <4>3. PICK k \in Places(st) : y = [st EXCEPT !.order = NewOrder(k)]
        OBVIOUS
      <4>4. i = k
        BY <4>1, LastAtUnique
      <4> QED
        BY <4>2, <4>3, <4>4
    <3> HIDE DEF Places, Moved
    <3>4. ASSUME NEW x \in steps', NEW y \in steps',
                 x.group = y.group, x.id = y.id
          PROVE  x = y
      <4>1. CASE x \in steps /\ Places(x) = {} /\ y \in steps /\ Places(y) = {}
        BY <1>1, <3>4, <4>1 DEF StepKeys
      <4>2. ASSUME NEW st \in steps, x \in Moved(st), y \in steps, Places(y) = {}
            PROVE  FALSE
        BY <1>1, <3>2, <3>4, <4>2 DEF StepKeys
      <4>3. ASSUME NEW st \in steps, y \in Moved(st), x \in steps, Places(x) = {}
            PROVE  FALSE
        BY <1>1, <3>2, <3>4, <4>3 DEF StepKeys
      <4>4. ASSUME NEW r \in steps, NEW t \in steps, x \in Moved(r), y \in Moved(t)
            PROVE  x = y
        BY <1>1, <3>2, <3>3, <3>4, <4>4 DEF StepKeys
      <4> QED
        BY <3>1, <4>1, <4>2, <4>3, <4>4
    <3> QED
      BY <3>4 DEF StepKeys
  <2>3. CASE steps' \subseteq steps
    BY <1>1, <2>3 DEF StepKeys
  <2>4. (\E st \in NewStep : SaveStep(w, st)) \/ ReorderSteps(w) \/ steps' \subseteq steps
    BY <1>4 DEF Operation, SaveGroup, LoseGroup, RemoveGroup, GetStep, DropStep,
                Fail, LoseStep, OtherSteps
  <2> QED
    BY <2>1, <2>2, <2>3, <2>4
<1>5. GroupKeys(groups') /\ StepKeys(steps')
  BY <1>1, <1>2, <1>3, <1>4 DEF Next, vars
<1> QED
  BY <1>5 DEF KeysUnique, GroupKeys, StepKeys

-----------------------------------------------------------------------------
\* Saves of groups.

\* An operation neither takes nor adds a row that has another name than its
\* request.
LEMMA OthersKept ==
    ASSUME TypeOK, IdsInv, NEW w \in Workers, Operation(w),
           NEW g, g.name # job[w].name
    PROVE  g \in groups <=> g \in groups'
<1>1. CASE SaveGroup(w) \/ LoseGroup(w)
  <2>1. PICK row \in GroupRow : /\ job[w].saves = {row}
                                /\ row.name = job[w].name
                                /\ Named(row.id, row.name)
    BY <1>1 DEF IdsInv, SaveGroup, LoseGroup
  <2>2. g \in groups => g \in Others(row)
    BY <2>1 DEF Others, Named
  <2>3. groups' = Others(row) \cup {row} \/ groups' = Others(row)
    BY <1>1, <2>1 DEF SaveGroup, LoseGroup
  <2> QED
    BY <2>1, <2>2, <2>3 DEF Others
<1>2. CASE RemoveGroup(w)
  <2>1. job[w].op = "delete" /\ job[w].name \in Names
    BY <1>2, OperationJobs DEF RemoveGroup, Busy
  <2>2. \/ job[w].ident = job[w].name /\ job[w].ident \notin UuidLike
        \/ \E id \in used : job[w].ident = id /\ Named(id, job[w].name)
    BY <2>1 DEF IdsInv
  <2>3. g \notin Find(job[w].ident, job[w].space)
    BY <2>1, <2>2, ConstantsAssumption DEF Find, Named, TypeOK
  <2> QED
    BY <1>2, <2>3 DEF RemoveGroup
<1>3. CASE groups' = groups
  BY <1>3
<1> QED
  BY <1>1, <1>2, <1>3
     DEF Operation, GetStep, DropStep, ReorderSteps, Fail, SaveStep, LoseStep

\* A request that is going to save a group begins with what the table says.
LEMMA SavesBegin ==
    ASSUME TypeOK, IdsInv, NEW w \in Workers, Request(w)
    PROVE  \E j \in Busy :
              /\ Begin(w, j)
              /\ j.op \in {"create", "update"} =>
                    \A row \in j.saves :
                        IF j.op = "create" THEN NewRow(row)
                        ELSE \E g \in groups : Updates(row, g, j.changes)
<1> USE DEF TypeOK
<1>1. ASSUME NEW n \in Names, NEW s \in Spaces, NEW c \in Content,
             NEW new \in SUBSET NewStep, Import(w, n, s, c, new)
      PROVE  \E j \in Busy :
              /\ Begin(w, j)
              /\ j.op = "create"
              /\ \A row \in j.saves : NewRow(row)
  <2>1. PICK i \in GroupIds \ used :
            LET row == [id |-> i, name |-> n, space |-> s, content |-> c]
            IN  Begin(w, [Job("create", n, row) EXCEPT !.saves = {row}, !.todo = new])
    BY <1>1 DEF Import
  <2> DEFINE row == [id |-> i, name |-> n, space |-> s, content |-> c]
             j0 == Job("create", n, row)
             j1 == [j0 EXCEPT !.saves = {row}]
             j2 == [j1 EXCEPT !.todo = new]
  <2>2. row \in GroupRow /\ row.id = i /\ row.name = n /\ row.space = s
    BY DEF GroupRow
  <2>3. Begin(w, j2)
    BY <2>1
  <2> HIDE DEF row
  <2>4. j0 \in Busy /\ j0.op = "create"
    BY <2>2, JobTypes
  <2> HIDE DEF j0
  <2>5. j1 \in Busy /\ j1.op = "create" /\ j1.saves = {row}
    BY <2>2, <2>4 DEF Busy
  <2> HIDE DEF j1
  <2>6. j2 \in Busy /\ j2.op = "create" /\ j2.saves = {row}
    BY <2>5 DEF Busy
  <2> HIDE DEF j2
  <2>7. \A g \in groups : g.id # i /\ (g.name = n /\ g.space = s => n \in UuidLike)
    BY <1>1 DEF Import, Find, IdsInv
  <2>8. NewRow(row)
    BY <2>2, <2>7 DEF NewRow
  <2> QED
    BY <2>3, <2>6, <2>8
<1>2. ASSUME NEW g \in groups, NEW sent \in SUBSET Fields,
             NEW c \in [sent -> Values], UpdateGroup(w, g, sent, c)
      PROVE  \E j \in Busy :
              /\ Begin(w, j)
              /\ j.op = "update"
              /\ \A row \in j.saves : Updates(row, g, j.changes)
  <2> DEFINE row == Merged(g, sent, c)
             j0 == Job("update", g.name, g)
             j1 == [j0 EXCEPT !.saves = {row}]
             j2 == [j1 EXCEPT !.changes = sent]
  <2>1. g \in GroupRow /\ g.name \in GroupIds \cup Names
    BY DEF GroupRow
  <2>2. row \in GroupRow /\ row.id = g.id /\ row.name = g.name /\ row.space = g.space
    BY <2>1, MergedType
  <2>3. \A f \in Fields \ sent : row.content[f] = g.content[f]
    BY <2>1 DEF Merged, GroupRow
  <2>4. Begin(w, j2)
    BY <1>2 DEF UpdateGroup
  <2> HIDE DEF row
  <2>5. j0 \in Busy /\ j0.op = "update"
    BY <2>1, JobTypes
  <2> HIDE DEF j0
  <2>6. j1 \in Busy /\ j1.op = "update" /\ j1.saves = {row}
    BY <2>2, <2>5 DEF Busy
  <2> HIDE DEF j1
  <2>7. j2 \in Busy /\ j2.op = "update" /\ j2.saves = {row} /\ j2.changes = sent
    BY <2>6 DEF Busy
  <2> HIDE DEF j2
  <2>8. Updates(row, g, sent)
    BY <2>2, <2>3 DEF Updates
  <2> QED
    BY <2>4, <2>7, <2>8
<1>3. ASSUME NEW g \in groups, NEW ident \in {g.id, g.name}, DeleteGroup(w, ident, g)
      PROVE  \E j \in Busy : Begin(w, j) /\ j.op \notin {"create", "update"}
  <2>1. ident \in GroupIds \cup Names /\ g \in GroupRow
    BY DEF GroupRow
  <2> QED
    BY <1>3, <2>1, JobTypes DEF DeleteGroup
<1>4. ASSUME NEW g \in groups,
             \/ \E st \in NewStep : CreateStep(w, g, st)
             \/ \E id \in StepIds : DeleteStep(w, g, id)
             \/ \E q \in Orderings : Reorder(w, g, q)
      PROVE  \E j \in Busy : Begin(w, j) /\ j.op \notin {"create", "update"}
  <2>1. g \in GroupRow /\ g.name \in GroupIds \cup Names
    BY DEF GroupRow
  <2>2. ASSUME NEW st \in NewStep, CreateStep(w, g, st)
        PROVE  \E j \in Busy : Begin(w, j) /\ j.op \notin {"create", "update"}
    <3> DEFINE j0 == Job("steps", g.name, g)
               j1 == [j0 EXCEPT !.todo = {st}]
    <3>1. j0 \in Busy /\ j0.op = "steps"
      BY <2>1, JobTypes
    <3>2. Begin(w, j1)
      BY <2>2 DEF CreateStep
    <3> HIDE DEF j0
    <3>3. j1 \in Busy /\ j1.op = "steps"
      BY <3>1 DEF Busy
    <3> QED
      BY <3>2, <3>3
  <2>3. ASSUME NEW q \in {q \in Seq(StepIds) : Len(q) <= MaxOrder + 1},
               NEW op \in {"getstep", "reorder"},
               Begin(w, [Job(op, g.name, g) EXCEPT !.ids = q])
        PROVE  \E j \in Busy : Begin(w, j) /\ j.op \notin {"create", "update"}
    <3> DEFINE j0 == Job(op, g.name, g)
               j1 == [j0 EXCEPT !.ids = q]
    <3>1. j0 \in Busy /\ j0.op = op
      BY <2>1, JobTypes
    <3>2. Begin(w, j1)
      BY <2>3
    <3> HIDE DEF j0
    <3>3. j1 \in Busy /\ j1.op = op
      BY <3>1 DEF Busy
    <3> QED
      BY <3>2, <3>3
  <2>4. \A id \in StepIds : <<id>> \in {q \in Seq(StepIds) : Len(q) <= MaxOrder + 1}
    BY ConstantsAssumption
  <2> QED
    BY <1>4, <2>2, <2>3, <2>4, ConstantsAssumption DEF DeleteStep, Reorder
<1>5. CASE \E n \in Names, s \in Spaces, c \in Content :
              \/ CreateGroup(w, n, s, c)
              \/ \E new \in Imports : Import(w, n, s, c, new)
  BY <1>1, <1>5, ConstantsAssumption DEF CreateGroup
<1>6. CASE \E g \in groups, sent \in SUBSET Fields : \E c \in [sent -> Values] :
              UpdateGroup(w, g, sent, c)
  BY <1>2, <1>6
<1>7. CASE \E g \in groups : \E ident \in {g.id, g.name} : DeleteGroup(w, ident, g)
  BY <1>3, <1>7
<1>8. CASE \E g \in groups :
              \/ \E st \in NewStep : CreateStep(w, g, st)
              \/ \E id \in StepIds : DeleteStep(w, g, id)
              \/ \E q \in Orderings : Reorder(w, g, q)
  BY <1>4, <1>8
<1> QED
  BY <1>5, <1>6, <1>7, <1>8 DEF Request

LEMMA SavesStep ==
    ASSUME TypeOK, IdsInv, SavesInv, [Next]_vars
    PROVE  SavesInv'
<1>1. ASSUME NEW w \in Workers, Request(w)
      PROVE  SavesInv'
  <2>1. PICK j \in Busy :
              /\ Begin(w, j)
              /\ j.op \in {"create", "update"} =>
                    \A row \in j.saves :
                        IF j.op = "create" THEN NewRow(row)
                        ELSE \E g \in groups : Updates(row, g, j.changes)
    BY <1>1, SavesBegin
  <2>2. /\ groups' = groups /\ job'[w] = j
        /\ \A v \in Workers \ {w} : job'[v] = job[v] /\ missed'[v] = missed[v]
    BY <2>1, BeginTypes
  <2> QED
    BY <2>1, <2>2 DEF SavesInv, Saving, NewRow
<1>2. ASSUME NEW w \in Workers, Operation(w), NEW v \in Workers, Saving(v)', ~missed'[v],
             NEW row \in job'[v].saves
      PROVE  IF job'[v].op = "create" THEN NewRow(row)'
             ELSE \E g \in groups' : Updates(row, g, job'[v].changes)
  <2>1. v # w /\ Saving(v) /\ job'[v] = job[v]
    BY <1>2, SavesKept
  <2>2. PICK j \in Busy \cup {Idle}, wrote \in BOOLEAN :
           Continue(w, j, wrote) /\ (groups' # groups => wrote)
    BY <1>2, OperationJobs
  <2>3. /\ missed[v] => missed'[v]
        /\ wrote /\ job[v] # Idle /\ job[v].name = job[w].name => missed'[v]
    BY <2>1, <2>2, ContinueTypes
  <2>4. ~missed[v] /\ job[v] # Idle
    BY <1>2, <2>1, <2>3, IdleOp
  <2>5. row \in GroupRow /\ row.name = job[v].name /\ Named(row.id, row.name)
    BY <1>2, <2>1 DEF IdsInv
  <2>6. groups' = groups \/ row.name # job[w].name
    BY <1>2, <2>2, <2>3, <2>4, <2>5
  <2>7. CASE job[v].op = "create"
    <3>1. NewRow(row)
      BY <1>2, <2>1, <2>4, <2>7 DEF SavesInv
    <3>2. ASSUME NEW g \in groups', g.id = row.id \/ (g.name = row.name /\ g.space = row.space)
          PROVE  g.id # row.id /\ row.name \in UuidLike
      <4>1. g.name = row.name
        <5>1. g \in groups \/ (SaveGroup(w) /\ g \in job[w].saves)
          BY <1>2, <3>2, GroupsKept
        <5> QED
          BY <2>5, <3>2, <5>1 DEF Named, SaveGroup
      <4>2. g \in groups
        BY <1>2, <2>6, <3>2, <4>1, OthersKept
      <4> QED
        BY <3>1, <3>2, <4>2 DEF NewRow
    <3> QED
      BY <2>1, <2>7, <3>2 DEF NewRow
  <2>8. CASE job[v].op # "create"
    <3>1. PICK g \in groups : Updates(row, g, job[v].changes)
      BY <1>2, <2>1, <2>4, <2>8 DEF SavesInv
    <3>2. g \in groups'
      BY <1>2, <2>6, <3>1, OthersKept DEF Updates
    <3> QED
      BY <2>1, <2>8, <3>1, <3>2
  <2> QED
    BY <2>7, <2>8
<1>3. CASE UNCHANGED vars
  BY <1>3 DEF vars, SavesInv, Saving, NewRow
<1> QED
  BY <1>1, <1>2, <1>3 DEF Next, SavesInv

-----------------------------------------------------------------------------
LEMMA InvInit == Init => StoreInv
<1>1. Init => TypeOK
  BY TypeInit
<1>2. Init => /\ groups = {} /\ steps = {}
              /\ \A w \in Workers : job[w].op = "idle"
  BY DEF Init, Idle
<1> QED
  BY <1>1, <1>2
     DEF StoreInv, KeysUnique, IdsInv, StepsInv, OrphansExcused, SavesInv, Saving

\* The inductive invariant: unique keys, ids that keep their name, requests
\* that raced no other still having their group, and what they read of it, and
\* excused orphans.
THEOREM Invariance == Spec => []StoreInv
<1>1. ASSUME StoreInv, [Next]_vars
      PROVE  StoreInv'
  BY <1>1, TypeStep, KeysStep, IdsStep, StepsStep, OrphansStep, SavesStep DEF StoreInv
<1> QED
  BY InvInit, <1>1, PTL DEF Spec

\* KeysUnique: whatever requests interleave, the saves keep the primary keys
\* and the UNIQUE constraint without the database having to refuse one.
THEOREM KeysAreUnique == Spec => []KeysUnique
<1>1. StoreInv => KeysUnique
  BY DEF StoreInv
<1> QED
  BY <1>1, Invariance, PTL

\* OrphansExcused: without a foreign key in the table, a step loses its group
\* only to a race for the name or to a group save whose INSERT failed.
THEOREM OrphansAreExcused == Spec => []OrphansExcused
<1>1. StoreInv => OrphansExcused
  BY DEF StoreInv
<1> QED
  BY <1>1, Invariance, PTL

\* What a save of a group does to the ids of the table.
LEMMA SavedIds ==
    ASSUME StoreInv, NEW w \in Workers, SaveGroup(w), ~missed[w]
    PROVE  IF job[w].op = "create"
           THEN \A row \in job[w].saves :
                   /\ row.id \notin IdsOf(groups)
                   /\ IdsOf(groups') = IdsOf(groups \ Unfindable(row)) \cup {row.id}
           ELSE IdsOf(groups') = IdsOf(groups)
<1>1. PICK row \in GroupRow : job[w].saves = {row}
  BY DEF StoreInv, IdsInv, SaveGroup
<1>2. groups' = Others(row) \cup {row}
  BY <1>1 DEF SaveGroup
<1>3. CASE job[w].op = "create"
  <2>1. NewRow(row)
    BY <1>1, <1>3 DEF StoreInv, SavesInv, SaveGroup
  <2>2. Others(row) = groups \ Unfindable(row)
    BY <2>1 DEF NewRow, Others, Unfindable
  <2>3. row.id \notin IdsOf(groups)
    BY <2>1 DEF NewRow, IdsOf
  <2>4. IdsOf(groups') = IdsOf(Others(row)) \cup {row.id}
    BY <1>2 DEF IdsOf
  <2> QED
    BY <1>1, <1>3, <2>2, <2>3, <2>4
<1>4. CASE job[w].op # "create"
  <2>1. PICK g \in groups : Updates(row, g, job[w].changes)
    BY <1>1, <1>4 DEF StoreInv, SavesInv, SaveGroup
  <2>2. \A h \in groups : h \in Others(row) \/ h = g
    BY <2>1 DEF StoreInv, KeysUnique, Others, Updates
  <2>3. IdsOf(groups') = IdsOf(groups)
    BY <1>2, <2>1, <2>2 DEF IdsOf, Others, Updates
  <2> QED
    BY <1>4, <2>3
<1> QED
  BY <1>3, <1>4

\* UnracedSavesKeepGroups: a save that raced no other request brings no deleted
\* group back and takes none away, except that a create takes the place of the
\* group of its name and space when the name looks like a uuid.
THEOREM UnracedSavesDoKeepGroups == Spec => UnracedSavesKeepGroups
<1>1. StoreInv /\ [Next]_vars =>
         \A w \in Workers : SaveGroup(w) /\ ~missed[w] =>
            IF job[w].op = "create"
            THEN \A row \in job[w].saves :
                    /\ row.id \notin IdsOf(groups)
                    /\ IdsOf(groups') = IdsOf(groups \ Unfindable(row)) \cup {row.id}
            ELSE IdsOf(groups') = IdsOf(groups)
  BY SavedIds
<1> QED
  BY <1>1, Invariance, PTL DEF Spec, UnracedSavesKeepGroups

\* UnracedUpdatesMerge: update_rule_group saves the whole row; one that raced no
\* other request leaves what it was not sent as it is in the table.
THEOREM UnracedUpdatesDoMerge == Spec => UnracedUpdatesMerge
<1>1. StoreInv /\ [Next]_vars =>
         \A w \in Workers : SaveGroup(w) /\ ~missed[w] /\ job[w].op = "update" =>
            \A g \in groups, row \in job[w].saves :
                g.id = row.id => \A f \in Fields \ job[w].changes :
                                    row.content[f] = g.content[f]
  <2> SUFFICES ASSUME StoreInv, NEW w \in Workers, SaveGroup(w), ~missed[w], job[w].op = "update",
                      NEW g \in groups, NEW row \in job[w].saves, g.id = row.id,
                      NEW f \in Fields \ job[w].changes
               PROVE  row.content[f] = g.content[f]
    OBVIOUS
  <2>1. PICK h \in groups : Updates(row, h, job[w].changes)
    BY DEF StoreInv, SavesInv, SaveGroup
  <2>2. h = g
    BY <2>1 DEF StoreInv, KeysUnique, Updates
  <2> QED
    BY <2>1, <2>2 DEF Updates
<1> QED
  BY <1>1, Invariance, PTL DEF Spec, UnracedUpdatesMerge

-----------------------------------------------------------------------------
\* The edges into r that the loop has not followed yet.
Left(r) == UNION {Edges(p, r) : p \in Nodes \ ToSet(order)}

SortTypes ==
    /\ request \in {"analyze", "graph"}
    /\ def \in [Rules -> Definitions]
    /\ phase \in {"sort", "levels", "fallback", "done"}
    /\ indegree \in [Nodes -> Nat]
    /\ queue \in Seq(Nodes)
    /\ order \in Seq(Nodes)

\* The loop invariant of Kahn's algorithm: the counters count the edges left,
\* and exactly the rules without any are sorted or queued.
LoopInv ==
    /\ IsInjective(order)
    /\ phase = "sort" =>
        /\ IsInjective(queue)
        /\ ToSet(queue) \cap ToSet(order) = {}
        /\ \A r \in Nodes : indegree[r] = Cardinality(Left(r))
        /\ \A r \in Nodes : r \in ToSet(queue) \cup ToSet(order) <=> indegree[r] = 0

AfterProducers ==
    \A i \in 1..Len(order) : \A p \in Producers(order[i]) :
        \E j \in 1..(i - 1) : order[j] = p

WaitForEachOther(S) == \A r \in S : Producers(r) \cap S # {}

CyclesUnsorted ==
    \A S \in SUBSET Nodes : WaitForEachOther(S) => S \cap ToSet(order) = {}

SortedInv ==
    /\ phase # "done" => AfterProducers /\ CyclesUnsorted
    /\ phase \in {"levels", "fallback"} => request = "analyze"
    /\ phase = "levels" => Unsorted = {}
    /\ phase = "fallback" => Unsorted # {} /\ WaitForEachOther(Unsorted)
    /\ phase = "done" /\ request = "graph" =>
          /\ ToSet(order) = Nodes
          /\ Cyclic \/ AfterProducers
    /\ phase = "done" /\ request = "analyze" => AfterProducers

KahnInv == SortTypes /\ LoopInv /\ SortedInv

-----------------------------------------------------------------------------
\* Sequences and the sets of their elements.

LEMMA AppendFacts ==
    ASSUME NEW S, NEW s \in Seq(S), NEW x \in S
    PROVE  /\ Append(s, x) \in Seq(S)
           /\ ToSet(Append(s, x)) = ToSet(s) \cup {x}
           /\ IsInjective(s) /\ x \notin ToSet(s) => IsInjective(Append(s, x))
<1>1. /\ Append(s, x) \in Seq(S)
      /\ Len(s) \in Nat
      /\ DOMAIN s = 1..Len(s)
      /\ DOMAIN Append(s, x) = 1..(Len(s) + 1)
      /\ \A i \in 1..Len(s) : Append(s, x)[i] = s[i]
      /\ Append(s, x)[Len(s) + 1] = x
  BY AppendProperties, LenProperties
<1> QED
  BY <1>1 DEF ToSet, IsInjective

LEMMA ConcatFacts ==
    ASSUME NEW S, NEW s \in Seq(S), NEW t \in Seq(S)
    PROVE  /\ s \o t \in Seq(S)
           /\ ToSet(s \o t) = ToSet(s) \cup ToSet(t)
           /\ IsInjective(s) /\ IsInjective(t) /\ ToSet(s) \cap ToSet(t) = {}
                 => IsInjective(s \o t)
<1> DEFINE u == s \o t
<1>1. /\ u \in Seq(S)
      /\ Len(s) \in Nat /\ Len(t) \in Nat
      /\ DOMAIN s = 1..Len(s)
      /\ DOMAIN t = 1..Len(t)
      /\ DOMAIN u = 1..(Len(s) + Len(t))
      /\ \A i \in 1..(Len(s) + Len(t)) :
            u[i] = IF i <= Len(s) THEN s[i] ELSE t[i - Len(s)]
  BY ConcatProperties, LenProperties
<1> HIDE DEF u
<1>2. /\ \A i \in DOMAIN s : i \in DOMAIN u /\ u[i] = s[i]
      /\ \A i \in DOMAIN u : \/ i \in 1..Len(s) /\ u[i] = s[i]
                             \/ i - Len(s) \in 1..Len(t) /\ u[i] = t[i - Len(s)]
  BY <1>1
<1>3. ToSet(u) = ToSet(s) \cup ToSet(t)
  <2>1. ASSUME NEW i \in DOMAIN t
        PROVE  i + Len(s) \in DOMAIN u /\ u[i + Len(s)] = t[i]
    <3>1. i + Len(s) \in DOMAIN u /\ ~(i + Len(s) <= Len(s))
      BY <1>1
    <3>2. (i + Len(s)) - Len(s) = i
      BY <1>1
    <3> QED
      BY <1>1, <3>1, <3>2
  <2>2. ToSet(u) \subseteq ToSet(s) \cup ToSet(t)
    BY <1>1, <1>2 DEF ToSet
  <2>3. ToSet(s) \subseteq ToSet(u) /\ ToSet(t) \subseteq ToSet(u)
    BY <1>2, <2>1 DEF ToSet
  <2> QED BY <2>2, <2>3
<1>4. ASSUME IsInjective(s), IsInjective(t), ToSet(s) \cap ToSet(t) = {}
      PROVE  IsInjective(u)
  <2> SUFFICES ASSUME NEW i \in DOMAIN u, NEW j \in DOMAIN u, u[i] = u[j]
               PROVE  i = j
    BY DEF IsInjective
  <2>1. CASE i \in 1..Len(s) /\ j \in 1..Len(s)
    BY <1>1, <1>2, <1>4, <2>1 DEF IsInjective
  <2>2. CASE i - Len(s) \in 1..Len(t) /\ j - Len(s) \in 1..Len(t)
    <3>1. u[i] = t[i - Len(s)] /\ u[j] = t[j - Len(s)]
      BY <1>1, <2>2
    <3>2. i - Len(s) = j - Len(s)
      BY <1>1, <1>4, <2>2, <3>1 DEF IsInjective
    <3> QED
      BY <1>1, <3>2
  <2>3. \A m \in 1..Len(s), n \in 1..Len(t) : s[m] # t[n]
    BY <1>1, <1>4 DEF ToSet
  <2> QED
    BY <1>2, <2>1, <2>2, <2>3
<1> QED
  BY <1>1, <1>3, <1>4 DEF u

LEMMA HeadFacts ==
    ASSUME NEW S, NEW s \in Seq(S), s # <<>>
    PROVE  /\ Head(s) \in ToSet(s) /\ Head(s) \in S
           /\ Tail(s) \in Seq(S)
           /\ ToSet(s) = ToSet(Tail(s)) \cup {Head(s)}
           /\ IsInjective(s) => /\ IsInjective(Tail(s))
                                /\ Head(s) \notin ToSet(Tail(s))
<1>1. /\ Head(s) \in S
      /\ Tail(s) \in Seq(S)
      /\ Len(s) \in Nat \ {0}
      /\ Len(Tail(s)) = Len(s) - 1
      /\ DOMAIN s = 1..Len(s)
      /\ DOMAIN Tail(s) = 1..(Len(s) - 1)
      /\ Head(s) = s[1]
      /\ \A i \in 1..Len(Tail(s)) : Tail(s)[i] = s[i + 1]
  BY HeadTailProperties, EmptySeq, LenProperties
<1>2. ASSUME NEW i \in DOMAIN s, i # 1
      PROVE  i - 1 \in DOMAIN Tail(s) /\ Tail(s)[i - 1] = s[i]
  <2>1. i - 1 \in 1..(Len(s) - 1)
    BY <1>1, <1>2
  <2>2. Tail(s)[i - 1] = s[(i - 1) + 1]
    BY <1>1, <2>1
  <2> QED
    BY <1>1, <1>2, <2>1, <2>2
<1>3. \A i \in DOMAIN Tail(s) :
         i \in Nat /\ i + 1 \in DOMAIN s /\ Tail(s)[i] = s[i + 1] /\ i + 1 # 1
  BY <1>1
<1>4. ToSet(s) = ToSet(Tail(s)) \cup {Head(s)} /\ Head(s) \in ToSet(s)
  <2>1. 1 \in DOMAIN s
    BY <1>1
  <2>2. ASSUME NEW i \in DOMAIN s
        PROVE  s[i] \in ToSet(Tail(s)) \cup {Head(s)}
    <3>1. CASE i = 1
      BY <1>1, <3>1
    <3>2. CASE i # 1
      BY <1>2, <3>2 DEF ToSet
    <3> QED BY <3>1, <3>2
  <2>3. ToSet(Tail(s)) \cup {Head(s)} \subseteq ToSet(s)
    BY <1>1, <1>3, <2>1 DEF ToSet
  <2> QED
    BY <1>1, <2>1, <2>2, <2>3 DEF ToSet
<1>5. ASSUME IsInjective(s)
      PROVE  IsInjective(Tail(s)) /\ Head(s) \notin ToSet(Tail(s))
  <2>1. 1 \in DOMAIN s
    BY <1>1
  <2>2. IsInjective(Tail(s))
    BY <1>3, <1>5 DEF IsInjective
  <2>3. Head(s) \notin ToSet(Tail(s))
    BY <1>1, <1>3, <1>5, <2>1 DEF IsInjective, ToSet
  <2> QED BY <2>2, <2>3
<1> QED
  BY <1>1, <1>4, <1>5

LEMMA EmptyFacts ==
    /\ <<>> \in Seq(Nodes)
    /\ ToSet(<<>>) = {}
    /\ IsInjective(<<>>)
    /\ Len(<<>>) = 0
<1>1. <<>> \in Seq(Nodes) /\ Len(<<>>) = 0
  BY EmptySeq
<1>2. DOMAIN <<>> = {}
  BY <1>1, LenProperties
<1> QED
  BY <1>1, <1>2 DEF ToSet, IsInjective

-----------------------------------------------------------------------------
\* Edges.

LEMMA NodesAreRules == Nodes \subseteq Rules /\ IsFiniteSet(Nodes)
<1>1. Nodes \subseteq Rules
  BY DEF Nodes
<1> QED
  BY <1>1, FS_Subset, RulesAssumption

LEMMA ArrangedFacts ==
    ASSUME NEW b \in BOOLEAN, NEW S \in SUBSET Rules,
           NEW s \in Arranged(b, S)
    PROVE  /\ \A T : S \subseteq T => s \in Seq(T)
           /\ ToSet(s) = S
           /\ IsInjective(s)
<1>1. IsFiniteSet(S)
  BY FS_Subset, RulesAssumption
<1>2. Cardinality(S) \in Nat
  BY <1>1, FS_CardinalityType
<1>3. /\ s \in [1..Cardinality(S) -> S]
      /\ ToSet(s) = S
      /\ \A i, j \in DOMAIN s : i < j => Earlier(b, s[i], s[j])
  BY DEF Arranged
<1>4. ASSUME NEW T, S \subseteq T
      PROVE  s \in Seq(T)
  BY <1>2, <1>3, <1>4, SeqDef
<1>5. ASSUME NEW r \in Rules
      PROVE  ~Earlier(b, r, r)
  BY RulesAssumption DEF Earlier
<1>6. IsInjective(s)
  <2> SUFFICES ASSUME NEW i \in DOMAIN s, NEW j \in DOMAIN s, s[i] = s[j], i # j
               PROVE  FALSE
    BY DEF IsInjective
  <2>1. i \in Int /\ j \in Int /\ s[i] \in Rules
    BY <1>2, <1>3
  <2>2. i < j \/ j < i
    BY <2>1
  <2> QED
    BY <1>3, <1>5, <2>1, <2>2
<1> QED
  BY <1>3, <1>4, <1>6

LEMMA EdgesFinite ==
    ASSUME NEW r \in Rules, def \in [Rules -> Definitions]
    PROVE  /\ \A p \in Rules : Edges(p, r) \subseteq {p} \X Elements
           /\ \A p \in Rules : IsFiniteSet(Edges(p, r))
           /\ IsFiniteSet(Left(r))
<1>1. ASSUME NEW p \in Rules
      PROVE  Edges(p, r) \subseteq {p} \X Elements
  BY RulesAssumption DEF Edges, RuleDef
<1>2. IsFiniteSet(Rules \X Elements)
  BY FS_Product, RulesAssumption
<1>3. Left(r) \subseteq Rules \X Elements
  BY <1>1, NodesAreRules DEF Left
<1>4. \A p \in Rules : Edges(p, r) \subseteq Rules \X Elements
  BY <1>1
<1> QED
  BY <1>1, <1>2, <1>3, <1>4, FS_Subset

\* A rule with no edge left has all its producers sorted.
LEMMA NothingLeft ==
    ASSUME NEW r \in Rules, def \in [Rules -> Definitions]
    PROVE  Cardinality(Left(r)) = 0 <=> Producers(r) \subseteq ToSet(order)
<1>1. Cardinality(Left(r)) = 0 <=> Left(r) = {}
  BY EdgesFinite, FS_EmptySet
<1>2. Left(r) = {} <=> \A p \in Nodes \ ToSet(order) : Edges(p, r) = {}
  BY DEF Left
<1> QED
  BY <1>1, <1>2 DEF Producers

\* ... and never belongs to a set of rules that all wait for each other.
LEMMA NotInCycle ==
    ASSUME NEW r \in Nodes, Producers(r) \subseteq ToSet(order), CyclesUnsorted
    PROVE  \A S \in SUBSET Nodes : WaitForEachOther(S) => r \notin S
  BY DEF CyclesUnsorted, WaitForEachOther

LEMMA ConstantGraph ==
    ASSUME UNCHANGED <<request, def>>
    PROVE  /\ Nodes' = Nodes
           /\ \A p, r : Edges(p, r)' = Edges(p, r)
           /\ \A r : Producers(r)' = Producers(r)
           /\ \A S : WaitForEachOther(S)' = WaitForEachOther(S)
           /\ Cyclic' = Cyclic
<1>1. Nodes' = Nodes
  BY DEF Nodes
<1>2. \A p, r : Edges(p, r)' = Edges(p, r)
  BY DEF Edges
<1>3. \A r : Producers(r)' = Producers(r)
  BY <1>1, <1>2 DEF Producers
<1> QED
  BY <1>1, <1>2, <1>3 DEF WaitForEachOther, Cyclic

-----------------------------------------------------------------------------
LEMMA InitInv == AnalysisInit => KahnInv
<1> SUFFICES ASSUME AnalysisInit
             PROVE  KahnInv
  OBVIOUS
<1>1. /\ request \in {"analyze", "graph"}
      /\ def \in [Rules -> Definitions]
      /\ phase = "sort"
      /\ order = <<>>
      /\ indegree = [r \in Nodes |-> InDegree(r)]
      /\ queue \in Arranged(request = "graph", {r \in Nodes : indegree[r] = 0})
  BY DEF AnalysisInit
<1>2. /\ order \in Seq(Nodes)
      /\ ToSet(order) = {}
      /\ IsInjective(order)
      /\ Len(order) = 0
  BY <1>1, EmptyFacts
<1>3. ASSUME NEW r \in Nodes
      PROVE  /\ indegree[r] = Cardinality(Left(r))
             /\ indegree[r] \in Nat
  <2>1. indegree[r] = Cardinality(Left(r))
    BY <1>1, <1>2 DEF InDegree, Left
  <2> QED
    BY <1>1, <2>1, NodesAreRules, EdgesFinite, FS_CardinalityType
<1>4. indegree \in [Nodes -> Nat]
  BY <1>1, <1>3
<1>5. /\ queue \in Seq(Nodes)
      /\ ToSet(queue) = {r \in Nodes : indegree[r] = 0}
      /\ IsInjective(queue)
  <2> DEFINE S == {r \in Nodes : indegree[r] = 0}
             b == request = "graph"
  <2>1. S \in SUBSET Rules /\ S \subseteq Nodes /\ b \in BOOLEAN
    BY NodesAreRules
  <2>2. queue \in Arranged(b, S)
    BY <1>1
  <2> HIDE DEF S, b
  <2>3. queue \in Seq(Nodes) /\ ToSet(queue) = S /\ IsInjective(queue)
    BY <2>1, <2>2, ArrangedFacts
  <2> QED
    BY <2>3 DEF S
<1> QED
  BY <1>1, <1>2, <1>3, <1>4, <1>5
     DEF KahnInv, SortTypes, LoopInv, SortedInv, AfterProducers, CyclesUnsorted

\* What one turn of the loop does to the counters and the two sequences.
LEMMA SortFacts ==
    ASSUME KahnInv, Sort
    PROVE  \E r \in Nodes :
              /\ Producers(r) \subseteq ToSet(order)
              /\ r \notin ToSet(order)
              /\ order' = Append(order, r)
              /\ order' \in Seq(Nodes)
              /\ ToSet(order') = ToSet(order) \cup {r}
              /\ IsInjective(order')
              /\ SortTypes'
              /\ LoopInv'
<1>1. /\ phase = "sort" /\ queue # <<>>
      /\ queue \in Seq(Nodes) /\ order \in Seq(Nodes)
      /\ indegree \in [Nodes -> Nat]
      /\ request \in {"analyze", "graph"}
      /\ def \in [Rules -> Definitions]
      /\ UNCHANGED <<request, def, phase>>
  BY DEF Sort, KahnInv, SortTypes
<1>2. /\ IsInjective(order) /\ IsInjective(queue)
      /\ ToSet(queue) \cap ToSet(order) = {}
      /\ \A q \in Nodes : indegree[q] = Cardinality(Left(q))
      /\ \A q \in Nodes : q \in ToSet(queue) \cup ToSet(order) <=> indegree[q] = 0
  BY <1>1 DEF KahnInv, LoopInv
<1> DEFINE r == Head(queue)
           left == [q \in Nodes |-> indegree[q] - Cardinality(Edges(r, q))]
           ready == {q \in Nodes : Edges(r, q) # {} /\ left[q] = 0}
           b == request = "graph"
<1>3. PICK s \in Arranged(b, ready) :
            /\ order' = Append(order, r)
            /\ indegree' = left
            /\ queue' = Tail(queue) \o s
  BY DEF Sort
<1>4. /\ r \in Nodes /\ r \in ToSet(queue) /\ r \notin ToSet(order)
      /\ Tail(queue) \in Seq(Nodes)
      /\ ToSet(queue) = ToSet(Tail(queue)) \cup {r}
      /\ IsInjective(Tail(queue)) /\ r \notin ToSet(Tail(queue))
  BY <1>1, <1>2, HeadFacts
<1> HIDE DEF r
<1>5. /\ order' \in Seq(Nodes)
      /\ ToSet(order') = ToSet(order) \cup {r}
      /\ IsInjective(order')
  BY <1>1, <1>2, <1>3, <1>4, AppendFacts
<1>6. Producers(r) \subseteq ToSet(order)
  BY <1>1, <1>2, <1>4, NodesAreRules, NothingLeft
<1>7. /\ Nodes' = Nodes
      /\ \A p, q : Edges(p, q)' = Edges(p, q)
  BY <1>1, ConstantGraph
<1>8. ASSUME NEW q \in Nodes
      PROVE  /\ Left(q)' = Left(q) \ Edges(r, q)
             /\ Edges(r, q) \subseteq Left(q)
             /\ left[q] = Cardinality(Left(q)')
             /\ left[q] \in Nat
  <2>1. Left(q)' = UNION {Edges(p, q) : p \in Nodes \ ToSet(order')}
    BY <1>7 DEF Left
  <2>2. /\ \A p \in Rules : Edges(p, q) \subseteq {p} \X Elements
        /\ IsFiniteSet(Left(q))
        /\ q \in Rules /\ r \in Rules /\ Nodes \subseteq Rules
    BY <1>1, <1>4, NodesAreRules, EdgesFinite
  <2>3. \A p \in Nodes : p # r => Edges(p, q) \cap Edges(r, q) = {}
    BY <2>2
  <2>4. Edges(r, q) \subseteq Left(q)
    BY <1>4 DEF Left
  <2>5. Left(q)' = Left(q) \ Edges(r, q)
    <3>1. UNION {Edges(p, q) : p \in Nodes \ ToSet(order')}
              = UNION {Edges(p, q) : p \in (Nodes \ ToSet(order)) \ {r}}
      BY <1>5
    <3>2. UNION {Edges(p, q) : p \in (Nodes \ ToSet(order)) \ {r}}
              = (UNION {Edges(p, q) : p \in Nodes \ ToSet(order)}) \ Edges(r, q)
      BY <2>3
    <3> QED
      BY <2>1, <3>1, <3>2 DEF Left
  <2>6. Cardinality(Left(q) \ Edges(r, q))
            = Cardinality(Left(q)) - Cardinality(Left(q) \cap Edges(r, q))
        /\ IsFiniteSet(Left(q) \ Edges(r, q))
    BY <2>2, FS_Difference
  <2>7. Left(q) \cap Edges(r, q) = Edges(r, q)
    BY <2>4
  <2>8. left[q] = Cardinality(Left(q)')
    BY <1>2, <2>5, <2>6, <2>7
  <2>9. left[q] \in Nat
    BY <2>5, <2>6, <2>8, FS_CardinalityType
  <2> QED
    BY <2>4, <2>5, <2>8, <2>9
<1>9. ready \in SUBSET Rules /\ ready \subseteq Nodes /\ b \in BOOLEAN
  BY NodesAreRules
<1>10. s \in Seq(Nodes) /\ ToSet(s) = ready /\ IsInjective(s)
  <2> HIDE DEF ready, b
  <2> QED
    BY <1>9, ArrangedFacts
<1>11. \A q \in ready : q \notin ToSet(queue) \cup ToSet(order)
  <2> SUFFICES ASSUME NEW q \in ready
               PROVE  indegree[q] # 0
    BY <1>2, <1>9
  <2>1. Left(q) # {} /\ IsFiniteSet(Left(q))
    BY <1>1, <1>8, NodesAreRules, EdgesFinite
  <2> QED
    BY <1>2, <2>1, FS_EmptySet
<1>12. /\ queue' \in Seq(Nodes)
       /\ ToSet(queue') = ToSet(Tail(queue)) \cup ready
       /\ IsInjective(queue')
  <2>1. ToSet(Tail(queue)) \cap ToSet(s) = {}
    BY <1>4, <1>10, <1>11
  <2> DEFINE t == Tail(queue)
  <2>2. /\ t \in Seq(Nodes) /\ s \in Seq(Nodes)
        /\ IsInjective(t) /\ IsInjective(s)
        /\ ToSet(t) \cap ToSet(s) = {}
        /\ ToSet(s) = ready
        /\ queue' = t \o s
    BY <1>3, <1>4, <1>10, <2>1
  <2> HIDE DEF ready, t
  <2>3. /\ t \o s \in Seq(Nodes)
        /\ ToSet(t \o s) = ToSet(t) \cup ToSet(s)
        /\ IsInjective(t \o s)
    BY <2>2, ConcatFacts
  <2>4. ToSet(queue') = ToSet(t) \cup ready
    BY <2>2, <2>3
  <2> QED
    BY <2>2, <2>3, <2>4 DEF t
<1>13. SortTypes'
  BY <1>1, <1>3, <1>5, <1>7, <1>8, <1>12 DEF SortTypes
<1>14. ToSet(queue') \cap ToSet(order') = {}
  BY <1>2, <1>4, <1>5, <1>11, <1>12
<1>15. ASSUME NEW q \in Nodes
       PROVE  /\ indegree'[q] = Cardinality(Left(q)')
              /\ q \in ToSet(queue') \cup ToSet(order') <=> indegree'[q] = 0
  <2>1. indegree'[q] = left[q] /\ left[q] = indegree[q] - Cardinality(Edges(r, q))
    BY <1>3
  <2>2. ToSet(queue') \cup ToSet(order') = (ToSet(queue) \cup ToSet(order)) \cup ready
    BY <1>4, <1>5, <1>12
  <2>3. q \in ready <=> Edges(r, q) # {} /\ left[q] = 0
    OBVIOUS
  <2>4. CASE Edges(r, q) = {}
    <3>1. Left(q)' = Left(q)
      BY <1>8, <2>4
    <3> QED
      BY <1>2, <1>8, <2>1, <2>2, <2>3, <2>4, <3>1
  <2>5. CASE Edges(r, q) # {}
    <3>1. q \notin ToSet(queue) \cup ToSet(order)
      <4>1. Left(q) # {} /\ IsFiniteSet(Left(q))
        BY <1>1, <1>8, <2>5, NodesAreRules, EdgesFinite
      <4> QED
        BY <1>2, <4>1, FS_EmptySet
    <3> QED
      BY <1>8, <2>1, <2>2, <2>3, <2>5, <3>1
  <2> QED BY <2>4, <2>5
<1>16. LoopInv'
  BY <1>1, <1>5, <1>7, <1>12, <1>14, <1>15 DEF LoopInv
<1> QED
  BY <1>3, <1>4, <1>5, <1>6, <1>13, <1>16

LEMMA SortInv == KahnInv /\ Sort => KahnInv'
<1> SUFFICES ASSUME KahnInv, Sort
             PROVE  KahnInv'
  OBVIOUS
<1>1. PICK r \in Nodes :
        /\ Producers(r) \subseteq ToSet(order)
        /\ r \notin ToSet(order)
        /\ order' = Append(order, r)
        /\ order' \in Seq(Nodes)
        /\ ToSet(order') = ToSet(order) \cup {r}
        /\ SortTypes'
        /\ LoopInv'
  BY SortFacts
<1>2. phase = "sort" /\ UNCHANGED <<request, def, phase>>
  BY DEF Sort
<1>3. AfterProducers /\ CyclesUnsorted /\ order \in Seq(Nodes)
  BY <1>2 DEF KahnInv, SortedInv, SortTypes
<1>4. /\ Nodes' = Nodes
      /\ \A q : Producers(q)' = Producers(q)
      /\ \A S : WaitForEachOther(S)' = WaitForEachOther(S)
  BY <1>2, ConstantGraph
<1>5. AfterProducers'
  <2>1. /\ Len(order) \in Nat
        /\ Len(order') = Len(order) + 1
        /\ \A i \in 1..Len(order) : order'[i] = order[i]
        /\ order'[Len(order) + 1] = r
        /\ DOMAIN order = 1..Len(order)
    BY <1>1, <1>3, AppendProperties, LenProperties
  <2> SUFFICES ASSUME NEW i \in 1..(Len(order) + 1), NEW p \in Producers(order'[i])
               PROVE  \E j \in 1..(i - 1) : order'[j] = p
    BY <1>4, <2>1 DEF AfterProducers
  <2>2. CASE i \in 1..Len(order)
    <3>1. PICK j \in 1..(i - 1) : order[j] = p
      BY <1>3, <2>1, <2>2 DEF AfterProducers
    <3>2. j \in 1..Len(order)
      BY <2>1, <2>2
    <3> QED
      BY <2>1, <3>1, <3>2
  <2>3. CASE i = Len(order) + 1
    <3>1. p \in ToSet(order)
      BY <1>1, <2>1, <2>3
    <3>2. PICK j \in 1..Len(order) : order[j] = p
      BY <2>1, <3>1 DEF ToSet
    <3>3. j \in 1..(i - 1)
      BY <2>1, <2>3
    <3> QED
      BY <2>1, <3>2, <3>3
  <2> QED
    BY <2>1, <2>2, <2>3
<1>6. CyclesUnsorted'
  BY <1>1, <1>3, <1>4, NotInCycle DEF CyclesUnsorted
<1> QED
  BY <1>1, <1>2, <1>5, <1>6 DEF KahnInv, SortedInv

\* With an empty queue, what is unsorted waits for something unsorted.
LEMMA StuckFacts ==
    ASSUME KahnInv, Sorted
    PROVE  /\ WaitForEachOther(Unsorted)
           /\ AfterProducers
           /\ CyclesUnsorted
           /\ Unsorted \subseteq Nodes
<1>1. /\ phase = "sort"
      /\ ToSet(queue) = {}
      /\ def \in [Rules -> Definitions]
  BY EmptyFacts DEF Sorted, KahnInv, SortTypes
<1>2. ASSUME NEW r \in Unsorted
      PROVE  Producers(r) \cap Unsorted # {}
  <2>1. r \in Nodes /\ r \notin ToSet(queue) \cup ToSet(order)
    BY <1>1 DEF Unsorted
  <2>2. Cardinality(Left(r)) # 0
    BY <1>1, <2>1 DEF KahnInv, LoopInv
  <2>3. ~(Producers(r) \subseteq ToSet(order))
    BY <1>1, <2>1, <2>2, NodesAreRules, NothingLeft
  <2> QED
    BY <2>3 DEF Producers, Unsorted
<1> QED
  BY <1>1, <1>2 DEF WaitForEachOther, KahnInv, SortedInv, Unsorted

LEMMA RunByLevelsInv == KahnInv /\ RunByLevels => KahnInv'
<1> SUFFICES ASSUME KahnInv, RunByLevels
             PROVE  KahnInv'
  OBVIOUS
<1>1. /\ Sorted /\ Unsorted = {} /\ phase' = "levels" /\ request = "analyze"
      /\ UNCHANGED <<request, def, indegree, queue, order>>
  BY DEF RunByLevels
<1>2. /\ Nodes' = Nodes
      /\ \A q : Producers(q)' = Producers(q)
      /\ \A S : WaitForEachOther(S)' = WaitForEachOther(S)
  BY <1>1, ConstantGraph
<1> QED
  <2>1. SortTypes'
    BY <1>1, <1>2 DEF KahnInv, SortTypes
  <2>2. LoopInv'
    BY <1>1, <1>2 DEF KahnInv, LoopInv
  <2>3. AfterProducers' /\ CyclesUnsorted' /\ Unsorted' = {}
    BY <1>1, <1>2, StuckFacts DEF AfterProducers, CyclesUnsorted, Unsorted
  <2>4. SortedInv'
    BY <1>1, <2>3 DEF SortedInv
  <2> QED
    BY <2>1, <2>2, <2>4 DEF KahnInv

LEMMA FallBackInv == KahnInv /\ FallBack => KahnInv'
<1> SUFFICES ASSUME KahnInv, FallBack
             PROVE  KahnInv'
  OBVIOUS
<1>1. /\ Sorted /\ Unsorted # {} /\ phase' = "fallback"
      /\ request = "analyze"
      /\ UNCHANGED <<request, def, indegree, queue, order>>
  BY DEF FallBack
<1>2. /\ Nodes' = Nodes
      /\ \A q : Producers(q)' = Producers(q)
      /\ \A S : WaitForEachOther(S)' = WaitForEachOther(S)
  BY <1>1, ConstantGraph
<1>3. WaitForEachOther(Unsorted)'
  BY <1>1, <1>2, StuckFacts DEF WaitForEachOther, Unsorted
<1> QED
  <2>1. SortTypes'
    BY <1>1, <1>2 DEF KahnInv, SortTypes
  <2>2. LoopInv'
    BY <1>1, <1>2 DEF KahnInv, LoopInv
  <2>3. AfterProducers' /\ CyclesUnsorted' /\ Unsorted' = Unsorted
    BY <1>1, <1>2, StuckFacts DEF AfterProducers, CyclesUnsorted, Unsorted
  <2>4. SortedInv'
    BY <1>1, <1>3, <2>3 DEF SortedInv
  <2> QED
    BY <2>1, <2>2, <2>4 DEF KahnInv

LEMMA ShowOrderInv == KahnInv /\ ShowOrder => KahnInv'
<1> SUFFICES ASSUME KahnInv, ShowOrder
             PROVE  KahnInv'
  OBVIOUS
<1>1. /\ Sorted /\ request = "graph" /\ phase' = "done"
      /\ UNCHANGED <<request, def, indegree, queue>>
  BY DEF ShowOrder
<1>2. PICK s \in Arranged(FALSE, Unsorted) : order' = order \o s
  BY DEF ShowOrder
<1>3. /\ Nodes' = Nodes
      /\ \A q : Producers(q)' = Producers(q)
      /\ Cyclic' = Cyclic
  BY <1>1, ConstantGraph
<1>4. order \in Seq(Nodes) /\ IsInjective(order) /\ DOMAIN order = 1..Len(order)
  BY LenProperties DEF KahnInv, SortTypes, LoopInv
<1>5. s \in Seq(Nodes) /\ ToSet(s) = Unsorted /\ IsInjective(s)
  BY StuckFacts, <1>1, NodesAreRules, ArrangedFacts
<1>6. ToSet(order) \subseteq Nodes
  BY <1>4, ElementOfSeq DEF ToSet
<1>7. /\ order' \in Seq(Nodes)
      /\ ToSet(order') = Nodes
      /\ IsInjective(order')
  <2>1. ToSet(order) \cap ToSet(s) = {} /\ ToSet(order) \cup ToSet(s) = Nodes
    BY <1>5, <1>6 DEF Unsorted
  <2>2. /\ order \o s \in Seq(Nodes)
        /\ ToSet(order \o s) = ToSet(order) \cup ToSet(s)
        /\ IsInjective(order \o s)
    BY <1>4, <1>5, <2>1, ConcatFacts
  <2> QED
    BY <1>2, <2>1, <2>2
<1>8. Cyclic \/ AfterProducers'
  <2>1. CASE Unsorted = {}
    <3>1. Len(s) = 0
      <4>1. Len(s) \in Nat /\ DOMAIN s = 1..Len(s)
        BY <1>5, LenProperties
      <4>2. DOMAIN s = {}
        BY <1>5, <2>1 DEF ToSet
      <4> QED
        BY <4>1, <4>2
    <3>2. /\ Len(order') = Len(order)
          /\ Len(order) \in Nat
          /\ \A i \in 1..Len(order) : order'[i] = order[i]
      BY <1>2, <1>4, <1>5, <3>1, ConcatProperties, LenProperties
    <3>3. AfterProducers
      BY <1>1, StuckFacts
    <3> SUFFICES ASSUME NEW i \in 1..Len(order), NEW p \in Producers(order[i])
                 PROVE  \E j \in 1..(i - 1) : order'[j] = p
      BY <1>3, <3>2 DEF AfterProducers
    <3>4. PICK j \in 1..(i - 1) : order[j] = p
      BY <3>3 DEF AfterProducers
    <3>5. j \in 1..Len(order)
      BY <3>2
    <3> QED
      BY <3>2, <3>4, <3>5
  <2>2. CASE Unsorted # {}
    BY <1>1, <2>2, StuckFacts DEF Cyclic, WaitForEachOther
  <2> QED BY <2>1, <2>2
<1> QED
  BY <1>1, <1>3, <1>7, <1>8 DEF KahnInv, SortTypes, LoopInv, SortedInv

\* Running the rules leaves the sorting alone.
LEMMA RunInv ==
    ASSUME KahnInv, UNCHANGED <<request, def, indegree, queue, order>>,
           \/ phase' = phase
           \/ phase \in {"levels", "fallback"} /\ phase' = "done"
    PROVE  KahnInv'
<1>1. /\ Nodes' = Nodes
      /\ \A q : Producers(q)' = Producers(q)
      /\ \A S : WaitForEachOther(S)' = WaitForEachOther(S)
      /\ Cyclic' = Cyclic
  BY ConstantGraph
<1>2. WaitForEachOther(Unsorted)' <=> WaitForEachOther(Unsorted)
  BY <1>1 DEF WaitForEachOther, Unsorted
<1>3. /\ AfterProducers' <=> AfterProducers
      /\ CyclesUnsorted' <=> CyclesUnsorted
      /\ Unsorted' = Unsorted
      /\ \A r : Left(r)' = Left(r)
  <2>1. order' = order /\ \A p, r : Edges(p, r)' = Edges(p, r)
    BY ConstantGraph
  <2>2. AfterProducers' <=> AfterProducers
    BY <1>1, <2>1 DEF AfterProducers
  <2>3. CyclesUnsorted' <=> CyclesUnsorted
    BY <1>1, <2>1 DEF CyclesUnsorted
  <2>4. Unsorted' = Unsorted
    BY <1>1, <2>1 DEF Unsorted
  <2>5. \A r : Left(r)' = Left(r)
    BY <1>1, <2>1 DEF Left
  <2> QED
    BY <2>2, <2>3, <2>4, <2>5
<1>4. SortTypes'
  BY <1>1 DEF KahnInv, SortTypes
<1>5. LoopInv'
  BY <1>1, <1>3 DEF KahnInv, LoopInv
<1>6. SortedInv'
  BY <1>1, <1>2, <1>3 DEF KahnInv, SortedInv
<1> QED
  BY <1>4, <1>5, <1>6 DEF KahnInv

LEMMA NextInv == KahnInv /\ [AnalysisNext]_analysisVars => KahnInv'
<1> SUFFICES ASSUME KahnInv, [AnalysisNext]_analysisVars
             PROVE  KahnInv'
  OBVIOUS
<1>1. CASE Respond
  BY <1>1, RunInv DEF Respond
<1>2. CASE \E r \in Rules : OutOfTarget(r) \/ Pass(r) \/ Miss(r)
  BY <1>2, RunInv DEF OutOfTarget, Pass, Miss, Record
<1>3. CASE UNCHANGED analysisVars
  BY <1>3, RunInv DEF analysisVars
<1> QED
  BY <1>1, <1>2, <1>3, SortInv, ShowOrderInv, RunByLevelsInv, FallBackInv DEF AnalysisNext

\* IInv holds in every reachable state: the loop invariant of the sort in
\* _compute_rule_levels and _topological_sort_rules, and what it leaves behind.
THEOREM AnalysisInvariance == AnalysisSpec => []KahnInv
<1> QED
  BY InitInv, NextInv, PTL DEF AnalysisSpec

-----------------------------------------------------------------------------
\* Every order that either route computes for a rule set without a cycle has
\* the producers of a rule before the rule.
THEOREM ProducersAreSortedFirst == AnalysisSpec => []SortedAfterProducers
<1>1. KahnInv => SortedAfterProducers
  BY DEF KahnInv, SortTypes, SortedInv, SortedAfterProducers, AfterProducers
<1> QED
  BY <1>1, AnalysisInvariance, PTL

\* _compute_rule_levels raises its ValueError exactly for the rule sets in
\* which some rules all wait for each other.
THEOREM FallbackMeansCycle == AnalysisSpec => []FallbackIffCyclic
<1>1. ASSUME KahnInv
      PROVE  FallbackIffCyclic
  <2>1. CASE phase = "fallback"
    <3>1. Unsorted # {} /\ WaitForEachOther(Unsorted)
      BY <1>1, <2>1 DEF KahnInv, SortedInv
    <3>2. Unsorted \in (SUBSET Nodes) \ {{}}
      BY <3>1 DEF Unsorted
    <3> QED
      BY <2>1, <3>1, <3>2 DEF FallbackIffCyclic, Cyclic, WaitForEachOther
  <2>2. CASE phase = "levels"
    <3>1. CyclesUnsorted /\ Nodes \subseteq ToSet(order)
      BY <1>1, <2>2 DEF KahnInv, SortedInv, Unsorted
    <3>2. ~Cyclic
      BY <3>1 DEF CyclesUnsorted, Cyclic, WaitForEachOther
    <3> QED
      BY <2>2, <3>2 DEF FallbackIffCyclic
  <2> QED
    BY <2>1, <2>2 DEF FallbackIffCyclic
<1> QED
  BY <1>1, AnalysisInvariance, PTL

\* Both loops of Kahn's algorithm order the rules of a view, or give up, as
\* they have to.
THEOREM SortIsCorrect == AnalysisSpec => []SortCorrect
<1>1. SortedAfterProducers /\ FallbackIffCyclic => SortCorrect
  BY DEF SortCorrect
<1> QED
  BY <1>1, ProducersAreSortedFirst, FallbackMeansCycle, PTL

\* The dependency-graph route shows each rule of the view once, also when
\* some of them form a cycle.
THEOREM ShownOrderIsComplete == AnalysisSpec => []ShownOrderComplete
<1>1. KahnInv => ShownOrderComplete
  BY DEF KahnInv, LoopInv, SortedInv, ShownOrderComplete, Nodes
<1> QED
  BY <1>1, AnalysisInvariance, PTL

-----------------------------------------------------------------------------
\* What the steps report.

ReportedRules == {stepResults[i].rule : i \in 1..Len(stepResults)}

ReportInv ==
    /\ stepResults \in Seq(Step)
    /\ computed \in [Elements -> Rules \cup {None}]
    /\ final \in [Elements \cup {NameKey} -> Rules \cup {None}]
    /\ \A i, j \in 1..Len(stepResults) : stepResults[i].rule = stepResults[j].rule => i = j
    /\ Rules \ Nodes \subseteq ReportedRules
    /\ phase = "done" /\ request = "analyze" => Waiting = {}

LEMMA ReportInit == AnalysisInit => ReportInv
<1> SUFFICES ASSUME AnalysisInit
             PROVE  ReportInv
  OBVIOUS
<1>1. PICK s \in Arranged(FALSE, Rules \ Nodes) : stepResults = Reported(s)
  BY DEF AnalysisInit
<1>2. s \in Seq(Rules) /\ ToSet(s) = Rules \ Nodes /\ IsInjective(s)
  BY ArrangedFacts
<1>3. Len(s) \in Nat /\ DOMAIN s = 1..Len(s) /\ \A i \in 1..Len(s) : s[i] \in Rules
  BY <1>2, LenProperties, ElementOfSeq
<1>4. /\ stepResults \in [1..Len(s) -> Step]
      /\ \A i \in 1..Len(s) : stepResults[i].rule = s[i]
  BY <1>1, <1>3 DEF Reported, Step
<1>5. stepResults \in Seq(Step) /\ Len(stepResults) = Len(s)
  <2>1. stepResults \in Seq(Step)
    BY <1>3, <1>4, SeqDef
  <2> QED
    BY <1>3, <1>4, <2>1, LenProperties
<1>6. ReportedRules = Rules \ Nodes
  BY <1>2, <1>3, <1>4, <1>5 DEF ReportedRules, ToSet
<1>7. \A i, j \in 1..Len(stepResults) : stepResults[i].rule = stepResults[j].rule => i = j
  BY <1>2, <1>3, <1>4, <1>5 DEF IsInjective
<1>8. /\ computed \in [Elements -> Rules \cup {None}]
      /\ final \in [Elements \cup {NameKey} -> Rules \cup {None}]
      /\ phase = "sort"
  BY DEF AnalysisInit
<1> QED
  BY <1>5, <1>6, <1>7, <1>8 DEF ReportInv

LEMMA RecordFacts ==
    ASSUME ReportInv, NEW r \in Waiting, NEW status \in {"passed", "skipped"},
           NEW out \in SUBSET Elements, Record(r, status, out), r \in Rules
    PROVE  /\ stepResults' \in Seq(Step)
           /\ computed' \in [Elements -> Rules \cup {None}]
           /\ \A i, j \in 1..Len(stepResults)' :
                 stepResults'[i].rule = stepResults'[j].rule => i = j
           /\ ReportedRules \subseteq ReportedRules'
<1> DEFINE new == [rule |-> r, status |-> status, wrote |-> out]
<1>1. stepResults' = Append(stepResults, new) /\ new \in Step /\ new.rule = r
  BY DEF Record, Step
<1> HIDE DEF new
<1>2. /\ stepResults' \in Seq(Step)
      /\ Len(stepResults) \in Nat
      /\ Len(stepResults)' = Len(stepResults) + 1
      /\ \A i \in 1..Len(stepResults) : stepResults'[i] = stepResults[i]
      /\ stepResults'[Len(stepResults) + 1] = new
  BY <1>1, AppendProperties, LenProperties DEF ReportInv
<1>3. \A i \in 1..Len(stepResults) : stepResults[i].rule # r
  BY DEF Waiting
<1>4. \A i, j \in 1..Len(stepResults)' : stepResults'[i].rule = stepResults'[j].rule => i = j
  <2> SUFFICES ASSUME NEW i \in 1..Len(stepResults)', NEW j \in 1..Len(stepResults)',
                      stepResults'[i].rule = stepResults'[j].rule
               PROVE  i = j
    OBVIOUS
  <2>1. /\ i \in 1..Len(stepResults) \/ i = Len(stepResults) + 1
        /\ j \in 1..Len(stepResults) \/ j = Len(stepResults) + 1
    BY <1>2
  <2> QED
    BY <1>1, <1>2, <1>3, <2>1 DEF ReportInv
<1>5. ReportedRules \subseteq ReportedRules'
  <2>1. 1..Len(stepResults) \subseteq 1..Len(stepResults)'
    BY <1>2
  <2> QED
    BY <1>2, <2>1 DEF ReportedRules
<1>6. computed' \in [Elements -> Rules \cup {None}]
  BY DEF Record, ReportInv
<1> QED
  BY <1>2, <1>4, <1>5, <1>6

LEMMA ReportNext == KahnInv /\ ReportInv /\ [AnalysisNext]_analysisVars => ReportInv'
<1> SUFFICES ASSUME KahnInv, ReportInv, [AnalysisNext]_analysisVars
             PROVE  ReportInv'
  OBVIOUS
<1>1. ASSUME UNCHANGED <<request, def, stepResults, computed, final>>,
             phase' = "done" => \/ phase = "done"
                                \/ request = "graph"
                                \/ Waiting = {}
      PROVE  ReportInv'
  BY <1>1, ConstantGraph DEF ReportInv, ReportedRules, Waiting
<1>2. CASE Sort \/ ShowOrder \/ RunByLevels \/ FallBack
  BY <1>1, <1>2 DEF Sort, ShowOrder, RunByLevels, FallBack
<1>3. CASE Respond
  BY <1>1, <1>3 DEF Respond
<1>4. CASE UNCHANGED analysisVars
  BY <1>1, <1>4 DEF analysisVars
<1>5. ASSUME NEW r \in Rules, OutOfTarget(r) \/ Pass(r) \/ Miss(r)
      PROVE  ReportInv'
  <2>1. def[r] \in RuleDef /\ r \in Waiting /\ phase \in {"levels", "fallback"}
    BY <1>5, RulesAssumption
       DEF KahnInv, SortTypes, OutOfTarget, Pass, Miss, InTarget, IsNext
  <2>2. PICK status \in {"passed", "skipped"}, out \in SUBSET Elements :
            Record(r, status, out)
    BY <1>5, <2>1 DEF RuleDef, OutOfTarget, Pass, Miss
  <2>3. final' \in [Elements \cup {NameKey} -> Rules \cup {None}]
    BY <1>5, <2>1 DEF ReportInv, OutOfTarget, Pass, Miss, KeepOutputs
  <2>4. UNCHANGED <<request, def, phase>>
    BY <2>2 DEF Record
  <2>5. Nodes' = Nodes
    BY <2>4, ConstantGraph
  <2> QED
    BY <2>1, <2>2, <2>3, <2>4, <2>5, RecordFacts DEF ReportInv
<1> QED
  BY <1>2, <1>3, <1>4, <1>5 DEF AnalysisNext

\* No rule is ever reported twice, the disabled ones are reported before the
\* sort begins, and an analysis is done only when no rule waits.
THEOREM ReportInvariance == AnalysisSpec => [](KahnInv /\ ReportInv)
<1> QED
  BY InitInv, NextInv, ReportInit, ReportNext, PTL DEF AnalysisSpec

\* The type invariant.
THEOREM AnalysisTypesCorrect == AnalysisSpec => []AnalysisTypeOK
<1>1. KahnInv /\ ReportInv => AnalysisTypeOK
  BY DEF KahnInv, SortTypes, ReportInv, AnalysisTypeOK
<1> QED
  BY <1>1, ReportInvariance, PTL

\* The result of an analysis has one step for every rule of the view.
THEOREM EveryRuleIsReported == AnalysisSpec => []EveryRuleReportedOnce
<1>1. ASSUME ReportInv
      PROVE  EveryRuleReportedOnce
  <2> SUFFICES ASSUME request = "analyze", phase = "done", NEW r \in Rules
               PROVE  \E i \in 1..Len(stepResults) :
                          \A j \in 1..Len(stepResults) : stepResults[j].rule = r <=> j = i
    BY DEF EveryRuleReportedOnce
  <2>1. r \in ReportedRules
    BY <1>1 DEF ReportInv, ReportedRules, Waiting
  <2> QED
    BY <1>1, <2>1 DEF ReportInv, ReportedRules
<1> QED
  BY <1>1, ReportInvariance, PTL

-----------------------------------------------------------------------------
\* A set with 0 and the successors of its members holds every natural number.
LEMMA Induction ==
    ASSUME NEW T, 0 \in T, \A n \in Nat : n \in T => n + 1 \in T
    PROVE  \A n \in Nat : n \in T
<1> DEFINE R == {ss \in Nat \X Nat : ss[1] < ss[2]}
           Missing == {n \in Nat : n \notin T}
<1>1. SUFFICES ASSUME Missing # {} PROVE FALSE
  OBVIOUS
<1>2. IsWellFoundedOn(R, Nat)
  BY NatLessThanWellFounded DEF OpToRel
<1>3. \E m \in Missing : \A k \in Missing : <<k, m>> \notin R
  <2>1. Missing \subseteq Nat
    OBVIOUS
  <2> HIDE DEF R, Missing
  <2> QED
    BY <1>1, <1>2, <2>1, WFMin
<1>4. PICK m \in Missing : \A k \in Missing : <<k, m>> \notin R
  BY <1>3
<1>5. m # 0 /\ m - 1 \in Nat /\ <<m - 1, m>> \in R
  OBVIOUS
<1>6. m - 1 \in T
  BY <1>4, <1>5
<1> QED
  BY <1>5, <1>6

\* The maximum of a set that has one.
LEMMA MaxIs ==
    ASSUME NEW S, S \subseteq Int, NEW n \in S, \A m \in S : m <= n
    PROVE  Max(S) = n
<1>1. \A x \in S : (\A y \in S : x >= y) => x = n
  OBVIOUS
<1>2. \A y \in S : n >= y
  OBVIOUS
<1> DEFINE P(x) == \A y \in S : x >= y
<1>3. (CHOOSE x \in S : P(x)) \in S /\ P(CHOOSE x \in S : P(x))
  <2> HIDE DEF P
  <2>1. \E x \in S : P(x)
    BY <1>2 DEF P
  <2> QED
    BY <2>1
<1> QED
  BY <1>1, <1>3 DEF Max

\* A set of numbers up to n has one.
LEMMA HasMax ==
    ASSUME NEW n \in Nat, NEW S \in SUBSET (1..n), S # {}
    PROVE  \E x \in S : \A y \in S : y <= x
<1> DEFINE T == {k \in Nat : \A y \in S : y <= n - k}
<1>1. SUFFICES ASSUME \A x \in S : \E y \in S : ~(y <= x) PROVE FALSE
  OBVIOUS
<1>2. 0 \in T
  OBVIOUS
<1>3. ASSUME NEW k \in Nat, k \in T PROVE k + 1 \in T
  <2>1. ASSUME NEW y \in S PROVE y <= n - (k + 1)
    <3>1. y \in 1..n /\ y <= n - k
      BY <1>3
    <3>2. PICK z \in S : ~(z <= y)
      BY <1>1
    <3>3. z \in 1..n /\ z <= n - k
      BY <1>3
    <3> QED
      BY <3>1, <3>2, <3>3
  <2> QED
    BY <2>1
<1>4. n \in T
  <2> HIDE DEF T
  <2> QED
    BY <1>2, <1>3, Induction
<1>5. PICK y \in S : TRUE
  OBVIOUS
<1>6. y <= n - n /\ y \in 1..n
  BY <1>4
<1> QED
  BY <1>6

\* A set of natural numbers has a least, which Min chooses.
LEMMA MinOf ==
    ASSUME NEW S \in SUBSET Nat, S # {}
    PROVE  Min(S) \in S /\ \A y \in S : Min(S) <= y
<1> DEFINE T == {k \in Nat : \A y \in S : y >= k}
           P(x) == \A y \in S : x <= y
<1>1. \E x \in S : P(x)
  <2>1. SUFFICES ASSUME \A x \in S : \E y \in S : ~(x <= y) PROVE FALSE
    OBVIOUS
  <2>2. 0 \in T
    OBVIOUS
  <2>3. ASSUME NEW k \in Nat, k \in T PROVE k + 1 \in T
    <3>1. k \notin S
      BY <2>1, <2>3
    <3>2. \A y \in S : y >= k + 1
      BY <2>3, <3>1
    <3> QED
      BY <3>2
  <2>4. \A n \in Nat : n \in T
    <3> HIDE DEF T
    <3> QED
      BY <2>2, <2>3, Induction
  <2>5. PICK y \in S : TRUE
    OBVIOUS
  <2>6. y >= y + 1
    BY <2>4
  <2> QED
    BY <2>6
<1>2. Min(S) = CHOOSE x \in S : P(x)
  BY DEF Min
<1> HIDE DEF P
<1>3. Min(S) \in S /\ P(Min(S))
  BY <1>1, <1>2
<1> QED
  BY <1>3 DEF P

\* A sequence, whatever its elements are.
IsSeq(s) == \E S : s \in Seq(S)

LEMMA NoElements == IsSeq(<< >>) /\ Len(<< >>) = 0 /\ DOMAIN << >> = {}
  BY DEF IsSeq

LEMMA SeqDomain ==
    ASSUME NEW s, IsSeq(s)
    PROVE  Len(s) \in Nat /\ DOMAIN s = 1..Len(s)
  BY DEF IsSeq

LEMMA Appended ==
    ASSUME NEW s, IsSeq(s), NEW x
    PROVE  /\ IsSeq(Append(s, x))
           /\ Len(Append(s, x)) = Len(s) + 1
           /\ DOMAIN Append(s, x) = 1..(Len(s) + 1)
           /\ Append(s, x)[Len(s) + 1] = x
           /\ \A i \in DOMAIN s : Append(s, x)[i] = s[i]
<1>1. PICK S : s \in Seq(S)
  BY DEF IsSeq
<1>2. s \in Seq(S \cup {x})
  BY <1>1
<1> QED
  BY <1>1, <1>2 DEF IsSeq

-----------------------------------------------------------------------------
\* What a pass goes through, seen as a history of contexts.
Passes == {"analysis", "baseline", "simulated", "steps"}

Context(m, as, rs) == [metrics |-> m, alerts |-> as, results |-> rs]

Blank == Context(Nothing, << >>, << >>)

\* The context after rule r ran in context c on the attributes d.
Ran(p, d, c, r, answered) ==
    IF p = "steps"
    THEN LET e == SimulateStep(r, d, c.metrics, answered)
         IN  Context(e.metrics, c.alerts \o StepAlerts(e.result.out),
                     Append(c.results, e.result))
    ELSE LET e == ExecuteRule(r, d, c.metrics, c.alerts, answered)
         IN  Context(e.metrics, e.alerts, Append(c.results, e.result))

Moves(p, d, c, r, next) ==
    IF Applies(p, r)
    THEN \E answered \in BOOLEAN : next = Ran(p, d, c, r, answered)
    ELSE next = c

\* h[k] is the context of pass p after the first k rules of seq.
History(h, p, seq, d, n) ==
    /\ h[0] = Blank
    /\ \A k \in 1..n : Moves(p, d, h[k - 1], seq[k], h[k])

DataOf(p) ==
    IF p = "analysis" THEN l3 ++ entity
    ELSE IF p = "simulated" THEN ApplyOverrides(entity) ELSE entity

InputsInv == chain \in Seq(RuleIds) /\ entity \in EntityData

PassInv ==
    /\ pass \in Passes \cup {"idle"}
    /\ pass # "idle" => /\ rules = Sequence(pass)
                        /\ data = DataOf(pass)
                        /\ position \in 1..(Len(rules) + 1)

\* Only the rule that the pass is at, and that applies, asks the model.
AskInv ==
    /\ attempt \in 0..(MaxRetries + 1)
    /\ attempt > 0 => Running /\ Applies(pass, Here)

\* The context of a pass is the end of a history of the rules before it ...
NowInv ==
    pass # "idle" =>
        \E h : /\ History(h, pass, rules, data, position - 1)
               /\ h[position - 1] = Context(metrics, alerts, results)

\* ... and what it returned is the outcome of a history of all of them.
OutcomeOf(p, c) == Outcome(p, c.metrics, c.alerts, c.results)

OutcomeInv ==
    /\ DOMAIN outcome \subseteq Passes
    /\ \A p \in DOMAIN outcome :
          \E h : /\ History(h, p, Sequence(p), DataOf(p), Len(Sequence(p)))
                 /\ outcome[p] = OutcomeOf(p, h[Len(Sequence(p))])

HistoryInv == InputsInv /\ PassInv /\ AskInv /\ NowInv /\ OutcomeInv

-----------------------------------------------------------------------------
\* Both orders of the rules are as long as the chain.
LEMMA SequenceIsSeq ==
    ASSUME InputsInv, NEW p
    PROVE  IsSeq(Sequence(p)) /\ Len(Sequence(p)) = Len(chain)
<1>1. CASE p = "steps"
  BY <1>1 DEF InputsInv, Sequence, IsSeq
<1>2. CASE p # "steps"
  <2> DEFINE b == ByPriority(chain)
  <2>1. /\ DOMAIN b = 1..Len(chain) /\ Len(chain) \in Nat
        /\ b = [k \in DOMAIN b |-> b[k]]
    BY DEF ByPriority, InputsInv
  <2> HIDE DEF b
  <2>2. b \in Seq({b[k] : k \in DOMAIN b})
    BY <2>1
  <2>3. Len(b) = Len(chain)
    BY <2>1, <2>2
  <2>4. Sequence(p) = b
    BY <1>2 DEF Sequence, b
  <2> QED
    BY <2>2, <2>3, <2>4 DEF IsSeq
<1> QED
  BY <1>1, <1>2

\* What a pass goes through does not change while requests are served.
LEMMA InputsKept ==
    ASSUME UNCHANGED inputs
    PROVE  /\ \A p : Sequence(p)' = Sequence(p) /\ DataOf(p)' = DataOf(p)
           /\ InputsInv => InputsInv'
  BY DEF inputs, Sequence, DataOf, ApplyOverrides, InputsInv, ByPriority, Source

\* A history goes on with one more context.
LEMMA HistoryExtended ==
    ASSUME NEW n \in Nat, NEW p, NEW seq, NEW d, NEW h, NEW c,
           History(h, p, seq, d, n), Moves(p, d, h[n], seq[n + 1], c)
    PROVE  \E g : History(g, p, seq, d, n + 1) /\ g[n + 1] = c
<1> DEFINE g == [k \in 0..(n + 1) |-> IF k <= n THEN h[k] ELSE c]
<1>1. g[n + 1] = c /\ \A k \in 0..n : g[k] = h[k]
  OBVIOUS
<1> HIDE DEF g
<1>2. g[0] = Blank
  BY <1>1 DEF History
<1>3. ASSUME NEW k \in 1..(n + 1) PROVE Moves(p, d, g[k - 1], seq[k], g[k])
  <2>1. CASE k \in 1..n
    <3>1. k - 1 \in 0..n /\ k \in 0..n
      BY <2>1
    <3> QED
      BY <1>1, <2>1, <3>1 DEF History
  <2>2. CASE k = n + 1
    <3>1. k - 1 = n /\ n \in 0..n
      BY <2>2
    <3> QED
      BY <1>1, <2>2, <3>1
  <2> QED
    BY <2>1, <2>2
<1> QED
  BY <1>1, <1>2, <1>3 DEF History

-----------------------------------------------------------------------------
LEMMA ExecutionInitInv == ExecutionInit => HistoryInv
<1> SUFFICES ASSUME ExecutionInit PROVE HistoryInv
  OBVIOUS
<1>1. InputsInv
  BY ExecutionAssumption DEF ExecutionInit, InputsInv
<1>2. DOMAIN outcome = {}
  BY DEF ExecutionInit, Nothing
<1> QED
  BY <1>1, <1>2, ExecutionAssumption
  DEF HistoryInv, ExecutionInit, PassInv, AskInv, NowInv, OutcomeInv

\* The conjuncts that a step which leaves inputs and outcome alone keeps.
LEMMA OutcomeKept ==
    ASSUME OutcomeInv, UNCHANGED <<inputs, outcome>>
    PROVE  OutcomeInv'
<1>1. \A p : Sequence(p)' = Sequence(p) /\ DataOf(p)' = DataOf(p)
  BY InputsKept
<1> QED
  BY <1>1 DEF OutcomeInv

LEMMA BeginInv ==
    ASSUME HistoryInv, NEW p \in Passes, NEW d, BeginPass(p, d), d = DataOf(p)
    PROVE  HistoryInv'
<1>1. UNCHANGED <<inputs, attempt, outcome>> /\ pass = "idle"
  BY DEF BeginPass
<1>2. InputsInv' /\ Sequence(p)' = Sequence(p) /\ DataOf(p)' = DataOf(p)
  BY <1>1, InputsKept DEF HistoryInv
<1>3. OutcomeInv'
  BY <1>1, OutcomeKept DEF HistoryInv
<1>4. pass' = p /\ rules' = Sequence(p) /\ data' = d /\ position' = 1
  BY DEF BeginPass
<1>5. PassInv'
  <2>1. Len(Sequence(p)) \in Nat
    BY SequenceIsSeq, SeqDomain DEF HistoryInv
  <2> QED
    BY <1>2, <1>4, <2>1 DEF PassInv
<1>6. AskInv'
  <2>1. attempt = 0
    BY <1>1, ExecutionAssumption DEF HistoryInv, AskInv, Running
  <2> QED
    BY <1>1, <2>1, ExecutionAssumption DEF AskInv
<1>7. NowInv'
  <2> DEFINE h == [k \in {0} |-> Blank]
  <2>1. History(h, p, rules', data', 0)
    BY DEF History
  <2>2. h[0] = Context(metrics', alerts', results')
    BY DEF BeginPass, Blank
  <2>3. pass' = p /\ position' - 1 = 0
    BY <1>4
  <2> HIDE DEF h
  <2> QED
    BY <2>1, <2>2, <2>3 DEF NowInv
<1> QED
  BY <1>2, <1>3, <1>5, <1>6, <1>7 DEF HistoryInv

\* A step of the pass to the next rule.
LEMMA MoveInv ==
    ASSUME HistoryInv, Running, UNCHANGED <<inputs, pass, rules, data, outcome>>,
           position' = position + 1, attempt' = 0,
           Moves(pass, data, Context(metrics, alerts, results), Here,
                 Context(metrics', alerts', results'))
    PROVE  HistoryInv'
<1>1. InputsInv' /\ Sequence(pass)' = Sequence(pass) /\ DataOf(pass)' = DataOf(pass)
  <2>1. UNCHANGED inputs /\ pass' = pass
    OBVIOUS
  <2> QED
    BY <2>1, InputsKept DEF HistoryInv, inputs, Sequence, DataOf, ApplyOverrides, ByPriority
<1>2. OutcomeInv'
  BY OutcomeKept DEF HistoryInv
<1>3. position \in Nat \ {0} /\ Len(rules) \in Nat /\ position <= Len(rules) /\ pass # "idle"
  <2>1. Len(Sequence(pass)) \in Nat
    BY SequenceIsSeq, SeqDomain DEF HistoryInv
  <2> QED
    BY <2>1 DEF HistoryInv, PassInv, Running
<1>4. PassInv'
  BY <1>1, <1>3 DEF HistoryInv, PassInv
<1>5. AskInv'
  BY ExecutionAssumption DEF AskInv
<1>6. NowInv'
  <2> DEFINE n == position - 1
             c == Context(metrics, alerts, results)
             next == Context(metrics', alerts', results')
  <2>1. PICK h : History(h, pass, rules, data, n) /\ h[n] = c
    BY <1>3 DEF HistoryInv, NowInv
  <2>2. n \in Nat /\ n + 1 = position
    BY <1>3
  <2>3. Moves(pass, data, h[n], rules[n + 1], next)
    BY <2>1, <2>2 DEF Here
  <2> HIDE DEF n, c, next
  <2>4. PICK g : History(g, pass, rules, data, n + 1) /\ g[n + 1] = next
    BY <2>1, <2>2, <2>3, HistoryExtended
  <2>5. position' - 1 = n + 1
    BY <1>3, <2>2
  <2> QED
    BY <2>4, <2>5 DEF NowInv, next
<1> QED
  BY <1>1, <1>2, <1>4, <1>5, <1>6 DEF HistoryInv

LEMMA ApplyInv ==
    ASSUME HistoryInv, Running, Applies(pass, Here), NEW answered \in BOOLEAN, Apply(answered)
    PROVE  HistoryInv'
<1> DEFINE c == Context(metrics, alerts, results)
           next == Context(metrics', alerts', results')
<1>1. next = Ran(pass, data, c, Here, answered)
  <2>1. CASE pass = "steps"
    BY <2>1 DEF Apply, Finish, Ran, Context
  <2>2. CASE pass # "steps"
    BY <2>2 DEF Apply, Finish, Ran, Context
  <2> QED
    BY <2>1, <2>2
<1>2. /\ UNCHANGED <<inputs, pass, rules, data, outcome>>
      /\ position' = position + 1 /\ attempt' = 0
  BY DEF Apply, Finish
<1>3. Moves(pass, data, c, Here, next)
  BY <1>1 DEF Moves
<1> HIDE DEF c, next
<1> QED
  BY <1>2, <1>3, MoveInv DEF c, next

\* Waiting for the model: only attempt changes.
LEMMA WaitInv ==
    ASSUME HistoryInv, Running, Applies(pass, Here), attempt' \in 0..(MaxRetries + 1),
           UNCHANGED <<inputs, pass, rules, position, context, outcome>>
    PROVE  HistoryInv'
<1>1. InputsInv' /\ Sequence(pass)' = Sequence(pass) /\ DataOf(pass)' = DataOf(pass)
  BY InputsKept DEF HistoryInv, inputs, Sequence, DataOf, ApplyOverrides, ByPriority
<1>2. OutcomeInv'
  BY OutcomeKept DEF HistoryInv
<1>3. PassInv'
  BY <1>1 DEF HistoryInv, PassInv, context
<1>4. AskInv'
  BY DEF AskInv, Running, Here, Applies
<1>5. NowInv'
  BY DEF HistoryInv, NowInv, context
<1> QED
  BY <1>1, <1>2, <1>3, <1>4, <1>5 DEF HistoryInv

LEMMA EndInv ==
    ASSUME HistoryInv, End
    PROVE  HistoryInv'
<1>1. UNCHANGED <<inputs, attempt>> /\ pass' = "idle" /\ pass # "idle" /\ position > Len(rules)
  BY DEF End
<1>2. InputsInv' /\ \A p : Sequence(p)' = Sequence(p) /\ DataOf(p)' = DataOf(p)
  BY <1>1, InputsKept DEF HistoryInv
<1>3. PassInv' /\ NowInv'
  BY <1>1 DEF PassInv, NowInv
<1>4. AskInv'
  <2>1. Len(rules) \in Nat /\ position \in Nat
    BY <1>1, SequenceIsSeq, SeqDomain DEF HistoryInv, PassInv
  <2>2. ~Running
    BY <1>1, <2>1 DEF Running
  <2>3. attempt = 0
    BY <2>2, ExecutionAssumption DEF HistoryInv, AskInv
  <2> QED
    BY <1>1, <2>3, ExecutionAssumption DEF AskInv
<1>5. OutcomeInv'
  <2>1. /\ DOMAIN outcome' = {pass} \cup DOMAIN outcome
        /\ outcome'[pass] = Outcome(pass, metrics, alerts, results)
        /\ \A p \in DOMAIN outcome \ {pass} : outcome'[p] = outcome[p]
    BY DEF End, ++, Entry
  <2>2. pass \in Passes /\ rules = Sequence(pass) /\ data = DataOf(pass)
    BY <1>1 DEF HistoryInv, PassInv
  <2>3. \E h : /\ History(h, pass, Sequence(pass), DataOf(pass), Len(Sequence(pass)))
               /\ outcome'[pass] = OutcomeOf(pass, h[Len(Sequence(pass))])
    <3>1. position - 1 = Len(rules)
      <4>1. Len(rules) \in Nat /\ position \in 1..(Len(rules) + 1)
        BY <1>1, SequenceIsSeq, SeqDomain DEF HistoryInv, PassInv
      <4> QED
        BY <1>1, <4>1
    <3>2. PICK h : /\ History(h, pass, rules, data, Len(rules))
                   /\ h[Len(rules)] = Context(metrics, alerts, results)
      BY <1>1, <3>1 DEF HistoryInv, NowInv
    <3> QED
      BY <2>1, <2>2, <3>2 DEF OutcomeOf, Context
  <2>4. DOMAIN outcome' \subseteq Passes
    BY <2>1, <2>2 DEF HistoryInv, OutcomeInv
  <2>5. ASSUME NEW p \in DOMAIN outcome'
        PROVE  \E h : /\ History(h, p, Sequence(p)', DataOf(p)', Len(Sequence(p)'))
                      /\ outcome'[p] = OutcomeOf(p, h[Len(Sequence(p)')])
    <3>1. CASE p = pass
      BY <1>2, <2>3, <3>1
    <3>2. CASE p # pass
      BY <1>2, <2>1, <3>2 DEF HistoryInv, OutcomeInv
    <3> QED
      BY <3>1, <3>2
  <2> QED
    BY <2>4, <2>5 DEF OutcomeInv
<1> QED
  BY <1>2, <1>3, <1>4, <1>5 DEF HistoryInv

LEMMA ExecutionStepInv ==
    ASSUME HistoryInv, [ExecutionNext]_executionVars
    PROVE  HistoryInv'
<1>1. CASE StartAnalysis
  BY <1>1, BeginInv DEF StartAnalysis, Passes, DataOf
<1>2. CASE StartBaseline
  BY <1>2, BeginInv DEF StartBaseline, Passes, DataOf
<1>3. CASE StartSimulation
  BY <1>3, BeginInv DEF StartSimulation, Passes, DataOf
<1>4. CASE StartSteps
  BY <1>4, BeginInv DEF StartSteps, Passes, DataOf
<1>5. CASE SkipRule
  <2>1. attempt = 0
    BY <1>5, ExecutionAssumption DEF SkipRule, HistoryInv, AskInv
  <2>2. /\ Running /\ UNCHANGED <<inputs, pass, rules, data, outcome>>
        /\ position' = position + 1 /\ attempt' = 0
    BY <1>5, <2>1 DEF SkipRule, context
  <2>3. Moves(pass, data, Context(metrics, alerts, results), Here,
              Context(metrics', alerts', results'))
    BY <1>5 DEF SkipRule, Moves, context
  <2> QED
    BY <2>2, <2>3, MoveInv
<1>6. CASE RunRule
  BY <1>6, ApplyInv DEF RunRule
<1>7. CASE AskModel
  BY <1>7, WaitInv, ExecutionAssumption DEF AskModel
<1>8. CASE ModelAnswers
  BY <1>8, ApplyInv DEF ModelAnswers, HistoryInv, AskInv
<1>9. CASE ModelRetried
  <2>1. Running /\ Applies(pass, Here) /\ attempt' \in 0..(MaxRetries + 1)
    BY <1>9, ExecutionAssumption DEF ModelRetried, HistoryInv, AskInv
  <2> QED
    BY <1>9, <2>1, WaitInv DEF ModelRetried
<1>10. CASE ModelFails
  <2>1. Running /\ Applies(pass, Here)
    BY <1>10, ExecutionAssumption DEF ModelFails, HistoryInv, AskInv
  <2> QED
    BY <1>10, <2>1, ApplyInv DEF ModelFails
<1>11. CASE End
  BY <1>11, EndInv
<1>12. CASE UNCHANGED executionVars
  <2>1. UNCHANGED inputs /\ outcome' = outcome
    BY <1>12 DEF executionVars, inputs
  <2>2. InputsInv' /\ OutcomeInv'
    BY <2>1, InputsKept, OutcomeKept DEF HistoryInv
  <2>3. PassInv'
    BY <1>12, <2>1 DEF HistoryInv, PassInv, executionVars, inputs, Sequence, DataOf,
       ApplyOverrides, ByPriority
  <2>4. AskInv'
    BY <1>12 DEF HistoryInv, AskInv, Running, Here, Applies, executionVars
  <2>5. NowInv'
    BY <1>12 DEF HistoryInv, NowInv, executionVars
  <2> QED
    BY <2>2, <2>3, <2>4, <2>5 DEF HistoryInv
<1> QED
  BY <1>1, <1>2, <1>3, <1>4, <1>5, <1>6, <1>7, <1>8, <1>9, <1>10, <1>11, <1>12
  DEF ExecutionNext

\* However the language model answers, the context of a pass is what a run of
\* its rules leads to, and every outcome is that of a whole run.
THEOREM ExecutionInvariance == ExecutionSpec => []HistoryInv
<1>1. ExecutionInit => HistoryInv
  BY ExecutionInitInv
<1>2. HistoryInv /\ [ExecutionNext]_executionVars => HistoryInv'
  BY ExecutionStepInv
<1> QED
  BY <1>1, <1>2, PTL DEF ExecutionSpec

-----------------------------------------------------------------------------
\* ByPriority sorts: the rules are all kept, in the order of their priorities,
\* and those of the same priority in the order they had.
LEMMA PlaceTypes ==
    ASSUME NEW rs \in Seq(RuleIds), NEW i \in DOMAIN rs
    PROVE  Place(rs, i) \in DOMAIN rs
<1> DEFINE before == {j \in DOMAIN rs : Precedes(rs, j, i)}
<1>1. DOMAIN rs = 1..Len(rs) /\ Len(rs) \in Nat
  OBVIOUS
<1>2. IsFiniteSet(1..Len(rs)) /\ Cardinality(1..Len(rs)) = Len(rs)
  <2>1. \A n \in Nat : IsFiniteSet(1..n) /\ Cardinality(1..n) = IF 1 > n THEN 0 ELSE n - 1 + 1
    BY FS_Interval
  <2>2. \A n \in Nat : (IF 1 > n THEN 0 ELSE n - 1 + 1) = n
    OBVIOUS
  <2> QED
    BY <1>1, <2>1, <2>2
<1>3. ~Precedes(rs, i, i)
  <2>1. Rule[rs[i]].priority \in Int /\ i \in Nat
    BY <1>1, ExecutionAssumption
  <2> QED
    BY <2>1 DEF Precedes
<1>4. before \subseteq (1..Len(rs)) \ {i}
  BY <1>1, <1>3
<1>5. /\ IsFiniteSet((1..Len(rs)) \ {i})
      /\ Cardinality((1..Len(rs)) \ {i}) = Len(rs) - 1
  <2>1. i \in 1..Len(rs)
    BY <1>1
  <2> QED
    BY <1>2, <2>1, FS_RemoveElement
<1>6. IsFiniteSet(before) /\ Cardinality(before) <= Len(rs) - 1 /\ Cardinality(before) \in Nat
  <2> DEFINE others == (1..Len(rs)) \ {i}
  <2>1. before \in SUBSET others /\ IsFiniteSet(others) /\ Cardinality(others) = Len(rs) - 1
    BY <1>4, <1>5
  <2> HIDE DEF before, others
  <2>2. IsFiniteSet(before) /\ Cardinality(before) <= Cardinality(others)
    BY <2>1, FS_Subset
  <2> QED
    BY <2>1, <2>2, FS_CardinalityType
<1> HIDE DEF before
<1>7. 1 + Cardinality(before) \in DOMAIN rs
  BY <1>1, <1>6
<1> QED
  BY <1>7 DEF Place, before

LEMMA PrecedesIsOrder ==
    ASSUME NEW rs \in Seq(RuleIds), NEW i \in DOMAIN rs, NEW j \in DOMAIN rs
    PROVE  /\ i # j => Precedes(rs, i, j) \/ Precedes(rs, j, i)
           /\ ~(Precedes(rs, i, j) /\ Precedes(rs, j, i))
           /\ \A k \in DOMAIN rs :
                 Precedes(rs, k, i) /\ Precedes(rs, i, j) => Precedes(rs, k, j)
<1>1. \A k \in DOMAIN rs : Rule[rs[k]].priority \in Int /\ k \in Int
  BY ExecutionAssumption
<1> QED
  BY <1>1 DEF Precedes

LEMMA PlacesFollow ==
    ASSUME NEW rs \in Seq(RuleIds), NEW i \in DOMAIN rs, NEW j \in DOMAIN rs,
           Precedes(rs, i, j)
    PROVE  Place(rs, i) < Place(rs, j)
<1> DEFINE Before(x) == {k \in DOMAIN rs : Precedes(rs, k, x)}
<1>1. i \in Before(j) /\ i \notin Before(i) /\ Before(i) \subseteq Before(j)
  BY PrecedesIsOrder
<1>2. \A x : IsFiniteSet(Before(x))
  <2>1. DOMAIN rs = 1..Len(rs) /\ Len(rs) \in Nat
    OBVIOUS
  <2>2. IsFiniteSet(DOMAIN rs)
    BY <2>1, FS_Interval
  <2> QED
    BY <2>2, FS_Subset
<1>3. /\ Cardinality(Before(i)) \in Nat /\ Cardinality(Before(j)) \in Nat
      /\ Cardinality(Before(i)) <= Cardinality(Before(j))
      /\ Cardinality(Before(i)) # Cardinality(Before(j))
  <2>1. IsFiniteSet(Before(i)) /\ IsFiniteSet(Before(j))
    BY <1>2
  <2> HIDE DEF Before
  <2> QED
    BY <1>1, <2>1, FS_Subset, FS_CardinalityType
<1>4. Cardinality(Before(i)) < Cardinality(Before(j))
  <2> HIDE DEF Before
  <2> QED
    BY <1>3
<1>5. Place(rs, i) = 1 + Cardinality(Before(i)) /\ Place(rs, j) = 1 + Cardinality(Before(j))
  BY DEF Place
<1> HIDE DEF Before
<1> QED
  BY <1>3, <1>4, <1>5

\* Every place is taken.
LEMMA SourceFacts ==
    ASSUME NEW rs \in Seq(RuleIds), NEW k \in DOMAIN rs
    PROVE  Source(rs, k) \in DOMAIN rs /\ Place(rs, Source(rs, k)) = k
<1> DEFINE S == DOMAIN rs
           place == [i \in S |-> Place(rs, i)]
<1>1. place \in [S -> S]
  BY PlaceTypes
<1>2. ASSUME NEW i \in S, NEW j \in S, place[i] = place[j] PROVE i = j
  <2>1. Place(rs, i) \in Int /\ Place(rs, j) \in Int /\ Place(rs, i) = Place(rs, j)
    BY <1>2, PlaceTypes
  <2> QED
    BY <2>1, PrecedesIsOrder, PlacesFollow
<1>3. place \in Injection(S, S)
  BY <1>1, <1>2 DEF Injection, IsInjective
<1>4. IsFiniteSet(S)
  <2>1. S = 1..Len(rs) /\ Len(rs) \in Nat
    OBVIOUS
  <2> QED
    BY <2>1, FS_Interval
<1>5. place \in Surjection(S, S)
  <2> HIDE DEF S, place
  <2> QED
    BY <1>3, <1>4, FS_Injection
<1>6. \E i \in DOMAIN rs : Place(rs, i) = k
  BY <1>5 DEF Surjection
<1> QED
  BY <1>6 DEF Source

\* The rules are executed in the order of their priorities, and those of the
\* same priority in the order of the schema; none is lost or repeated.
THEOREM SortIsStable ==
    ASSUME NEW rs \in Seq(RuleIds)
    PROVE  /\ DOMAIN ByPriority(rs) = DOMAIN rs
           /\ \A i \in DOMAIN rs :
                 \E k \in DOMAIN rs : Source(rs, k) = i /\ ByPriority(rs)[k] = rs[i]
           /\ \A k, l \in DOMAIN rs :
                 k < l => Precedes(rs, Source(rs, k), Source(rs, l))
<1>1. DOMAIN ByPriority(rs) = DOMAIN rs
  BY DEF ByPriority
<1>2. ASSUME NEW i \in DOMAIN rs
      PROVE  \E k \in DOMAIN rs : Source(rs, k) = i /\ ByPriority(rs)[k] = rs[i]
  <2> DEFINE k == Place(rs, i)
  <2>1. k \in DOMAIN rs
    BY PlaceTypes
  <2>2. Source(rs, k) \in DOMAIN rs /\ Place(rs, Source(rs, k)) = Place(rs, i)
    BY <2>1, SourceFacts
  <2>3. Place(rs, i) \in Int
    BY <2>1
  <2>4. Source(rs, k) = i
    <3> HIDE DEF k
    <3> QED
      BY <2>2, <2>3, PrecedesIsOrder, PlacesFollow
  <2> QED
    BY <2>1, <2>4 DEF ByPriority
<1>3. ASSUME NEW k \in DOMAIN rs, NEW l \in DOMAIN rs, k < l
      PROVE  Precedes(rs, Source(rs, k), Source(rs, l))
  <2>1. /\ Source(rs, k) \in DOMAIN rs /\ Place(rs, Source(rs, k)) = k
        /\ Source(rs, l) \in DOMAIN rs /\ Place(rs, Source(rs, l)) = l
    BY SourceFacts
  <2>2. k \in Int /\ l \in Int
    OBVIOUS
  <2>3. Source(rs, k) # Source(rs, l)
    BY <1>3, <2>1, <2>2
  <2>4. ~Precedes(rs, Source(rs, l), Source(rs, k))
    <3>1. Precedes(rs, Source(rs, l), Source(rs, k)) => l < k
      BY <2>1, PlacesFollow
    <3> QED
      BY <1>3, <2>2, <3>1
  <2> QED
    BY <2>1, <2>3, <2>4, PrecedesIsOrder
<1> QED
  BY <1>1, <1>2, <1>3

\* What a pass goes through are rules of the chain.
LEMMA SequenceRules ==
    ASSUME InputsInv, NEW p, NEW k \in 1..Len(chain)
    PROVE  \E i \in DOMAIN chain : Sequence(p)[k] = chain[i] /\ chain[i] \in RuleIds
<1>1. chain \in Seq(RuleIds) /\ k \in DOMAIN chain
  BY DEF InputsInv
<1>2. CASE p = "steps"
  BY <1>1, <1>2 DEF Sequence
<1>3. CASE p # "steps"
  <2>1. Sequence(p)[k] = chain[Source(chain, k)]
    BY <1>1, <1>3 DEF Sequence, ByPriority
  <2>2. Source(chain, k) \in DOMAIN chain
    BY <1>1, SourceFacts
  <2>3. chain[Source(chain, k)] \in RuleIds
    BY <1>1, <2>2
  <2> QED
    BY <2>1, <2>2, <2>3
<1> QED
  BY <1>2, <1>3

-----------------------------------------------------------------------------
\* Only llm_judge depends on the language model.
NoJudge(r) == Rule[r].then.op # "llm_judge" /\ Rule[r].else_.op # "llm_judge"

LEMMA OperatorIgnoresModel ==
    ASSUME NEW op \in Registered \ {"llm_judge"}, NEW p, NEW ctx, NEW a, NEW b
    PROVE  Execute(op, p, ctx, a) = Execute(op, p, ctx, b)
  BY DEF Execute, Registered

LEMMA ActionIgnoresModel ==
    ASSUME NEW r, NEW act, act.op # "llm_judge", NEW d, NEW m, NEW as, NEW passed,
           NEW a, NEW b
    PROVE  ExecuteAction(r, act, d, m, as, passed, a)
               = ExecuteAction(r, act, d, m, as, passed, b)
<1>1. ActionResult(act, d, m, as, a) = ActionResult(act, d, m, as, b)
  BY OperatorIgnoresModel DEF ActionResult
<1> QED
  BY <1>1 DEF ExecuteAction

LEMMA ExpressionValues ==
    ASSUME NEW atom, NEW ctx
    PROVE  EvaluateExpression(atom, ctx) \in {"raised", "true", "false"}
  BY DEF EvaluateExpression

LEMMA EvaluateValues ==
    ASSUME NEW when, NEW ctx
    PROVE  Evaluate(when, ctx) \in {"raised", "true", "false"}
  BY ExpressionValues DEF Evaluate

\* The arms of execute_rule.
LEMMA RuleRaised ==
    ASSUME NEW r, NEW d, NEW m, NEW as, NEW a,
           Evaluate(Rule[r].when, EvalContext(d, m)) = "raised"
    PROVE  ExecuteRule(r, d, m, as, a) = Effect(r, m, as, FALSE, TRUE, Nothing)
  BY DEF ExecuteRule

LEMMA RuleHolds ==
    ASSUME NEW r, NEW d, NEW m, NEW as, NEW a,
           Evaluate(Rule[r].when, EvalContext(d, m)) = "true"
    PROVE  ExecuteRule(r, d, m, as, a) = ExecuteThen(r, d, m, as, a)
  BY DEF ExecuteRule

LEMMA RuleElse ==
    ASSUME NEW r, NEW d, NEW m, NEW as, NEW a,
           Evaluate(Rule[r].when, EvalContext(d, m)) = "false",
           Rule[r].else_.op # "none"
    PROVE  ExecuteRule(r, d, m, as, a) = ExecuteAction(r, Rule[r].else_, d, m, as, FALSE, a)
  BY DEF ExecuteRule

LEMMA RuleSkipped ==
    ASSUME NEW r, NEW d, NEW m, NEW as, NEW a,
           Evaluate(Rule[r].when, EvalContext(d, m)) = "false",
           Rule[r].else_.op = "none"
    PROVE  ExecuteRule(r, d, m, as, a)
               = Effect(r, m, as, FALSE, FALSE, [skipped |-> TRUE])
  BY DEF ExecuteRule

LEMMA RuleIgnoresModel ==
    ASSUME NEW r, NoJudge(r), NEW d, NEW m, NEW as, NEW a, NEW b
    PROVE  ExecuteRule(r, d, m, as, a) = ExecuteRule(r, d, m, as, b)
<1> DEFINE met == Evaluate(Rule[r].when, EvalContext(d, m))
<1>1. CASE met = "raised"
  BY <1>1, RuleRaised
<1>2. CASE met = "true"
  <2>1. \A s : ExecuteAction(r, Rule[r].then, d, s, as, TRUE, a)
                   = ExecuteAction(r, Rule[r].then, d, s, as, TRUE, b)
    BY ActionIgnoresModel DEF NoJudge
  <2>2. ExecuteThen(r, d, m, as, a) = ExecuteThen(r, d, m, as, b)
    BY <2>1 DEF ExecuteThen
  <2>3. /\ ExecuteRule(r, d, m, as, a) = ExecuteThen(r, d, m, as, a)
        /\ ExecuteRule(r, d, m, as, b) = ExecuteThen(r, d, m, as, b)
    BY <1>2, RuleHolds
  <2> QED
    BY <2>2, <2>3
<1>3. CASE met = "false" /\ Rule[r].else_.op # "none"
  <2>1. ExecuteAction(r, Rule[r].else_, d, m, as, FALSE, a)
            = ExecuteAction(r, Rule[r].else_, d, m, as, FALSE, b)
    BY ActionIgnoresModel DEF NoJudge
  <2>2. /\ ExecuteRule(r, d, m, as, a) = ExecuteAction(r, Rule[r].else_, d, m, as, FALSE, a)
        /\ ExecuteRule(r, d, m, as, b) = ExecuteAction(r, Rule[r].else_, d, m, as, FALSE, b)
    BY <1>3, RuleElse
  <2> QED
    BY <2>1, <2>2
<1>4. CASE met = "false" /\ Rule[r].else_.op = "none"
  BY <1>4, RuleSkipped
<1> QED
  BY <1>1, <1>2, <1>3, <1>4, EvaluateValues

\* The executor and the simulator are deterministic without it, and the same.
LEMMA SameMove ==
    ASSUME NEW p, NEW q, p # "steps", q # "steps", NEW d, NEW c, NEW r, NoJudge(r),
           NEW x, Moves(p, d, c, r, x), NEW y, Moves(q, d, c, r, y)
    PROVE  x = y
<1>1. Applies(p, r) <=> Applies(q, r)
  BY DEF Applies
<1>2. CASE ~Applies(p, r)
  BY <1>1, <1>2 DEF Moves
<1>3. CASE Applies(p, r)
  <2>1. PICK a : x = Ran(p, d, c, r, a)
    BY <1>3 DEF Moves
  <2>2. PICK b : y = Ran(q, d, c, r, b)
    BY <1>1, <1>3 DEF Moves
  <2>3. ExecuteRule(r, d, c.metrics, c.alerts, a) = ExecuteRule(r, d, c.metrics, c.alerts, b)
    BY RuleIgnoresModel
  <2> QED
    BY <2>1, <2>2, <2>3 DEF Ran
<1> QED
  BY <1>2, <1>3

LEMMA SameHistory ==
    ASSUME NEW p, NEW q, p # "steps", q # "steps", NEW d, NEW seq, NEW n \in Nat,
           \A k \in 1..n : NoJudge(seq[k]),
           NEW g, History(g, p, seq, d, n), NEW h, History(h, q, seq, d, n)
    PROVE  g[n] = h[n]
<1> DEFINE T == {k \in Nat : k <= n => g[k] = h[k]}
<1>1. 0 \in T
  BY DEF History
<1>2. ASSUME NEW k \in Nat, k \in T PROVE k + 1 \in T
  <2>1. CASE k + 1 <= n
    <3>1. k + 1 \in 1..n /\ (k + 1) - 1 = k /\ g[k] = h[k]
      BY <1>2, <2>1
    <3>2. /\ Moves(p, d, g[k], seq[k + 1], g[k + 1])
          /\ Moves(q, d, h[k], seq[k + 1], h[k + 1])
      BY <3>1 DEF History
    <3>3. g[k + 1] = h[k + 1]
      BY <3>1, <3>2, SameMove
    <3> QED
      BY <3>3
  <2>2. CASE ~(k + 1 <= n)
    BY <2>2
  <2> QED
    BY <2>1, <2>2
<1>3. n \in T
  <2> HIDE DEF T
  <2> QED
    BY <1>1, <1>2, Induction
<1> QED
  BY <1>3

\* Where there is no model to ask in the chain, nor is there in its sequence.
LEMMA NoModelInSequence ==
    ASSUME InputsInv, NoModel, NEW p, NEW k \in 1..Len(chain)
    PROVE  NoJudge(Sequence(p)[k])
<1>1. PICK i \in DOMAIN chain : Sequence(p)[k] = chain[i]
  BY SequenceRules
<1> QED
  BY <1>1 DEF NoModel, NoJudge

\* The simulator's own copy of the decision adds to execute_dimension's only
\* where that decides nothing.
LEMMA DecisionsAgree ==
    ASSUME NEW m, NEW as, Decision(m, as) # NULL
    PROVE  DetermineDecision(m, as) = Decision(m, as)
<1>1. CASE NeedsLevel(m, as)
  <2>1. Decision(m, as) = Level(m)
    BY <1>1 DEF Decision, NeedsLevel
  <2>2. DetermineDecision(m, as) = Level(m)
    BY <1>1 DEF DetermineDecision, NeedsLevel
  <2> QED
    BY <2>1, <2>2
<1>2. CASE ~NeedsLevel(m, as) /\ Eligible(m) = FALSE
  <2>1. Decision(m, as) = "REJECT"
    BY <1>2 DEF Decision, NeedsLevel
  <2>2. DetermineDecision(m, as) = "REJECT"
    BY <1>2 DEF DetermineDecision, NeedsLevel
  <2> QED
    BY <2>1, <2>2
<1>3. CASE ~NeedsLevel(m, as) /\ Eligible(m) # FALSE /\ Critical(as)
  <2>1. Decision(m, as) = "REVIEW"
    BY <1>3 DEF Decision, NeedsLevel
  <2>2. DetermineDecision(m, as) = "REVIEW"
    BY <1>3 DEF DetermineDecision, NeedsLevel
  <2> QED
    BY <2>1, <2>2
<1>4. CASE ~NeedsLevel(m, as) /\ Eligible(m) # FALSE /\ ~Critical(as)
  BY <1>4 DEF Decision, NeedsLevel
<1> QED
  BY <1>1, <1>2, <1>3, <1>4

\* Who decides: execute_dimension or the simulator's copy.
LEMMA DecideIs ==
    ASSUME NEW m, NEW as
    PROVE  /\ Decide("analysis", m, as) = Decision(m, as)
           /\ Decide("baseline", m, as) = DetermineDecision(m, as)
           /\ Decide("simulated", m, as) = DetermineDecision(m, as)
  BY DEF Decide

\* Writing nothing over a dictionary changes nothing.
LEMMA NothingWritten ==
    ASSUME InputsInv
    PROVE  Nothing ++ entity = entity
<1>1. entity = [k \in DOMAIN entity |-> entity[k]]
  BY ExecutionAssumption DEF InputsInv
<1>2. Nothing ++ entity = [k \in DOMAIN entity |-> entity[k]]
  BY DEF ++, Nothing
<1> QED
  BY <1>1, <1>2

LEMMA SimulationAgreement ==
    ASSUME HistoryInv
    PROVE  SimulationAgrees
<1> DEFINE p == IF overrides = Nothing THEN "simulated" ELSE "baseline"
           n == Len(chain)
           x == outcome["analysis"]
           y == outcome[p]
<1> SUFFICES ASSUME Over("analysis"), Over(p), l3 = Nothing, NoModel
             PROVE  /\ x.raised = y.raised /\ x.metrics = y.metrics
                    /\ x.alerts = y.alerts /\ x.results = y.results
                    /\ x.decision # NULL => x.decision = y.decision
  BY DEF SimulationAgrees
<1>1. DataOf("analysis") = entity /\ DataOf(p) = entity
  BY NothingWritten DEF HistoryInv, DataOf, ApplyOverrides
<1>2. Sequence("analysis") = Sequence(p) /\ p # "steps"
  BY DEF Sequence
<1>3. Len(Sequence(p)) = n /\ n \in Nat
  BY SequenceIsSeq, SeqDomain DEF HistoryInv
<1>4. PICK g : History(g, "analysis", Sequence(p), entity, n) /\ x = OutcomeOf("analysis", g[n])
  BY <1>1, <1>2, <1>3 DEF HistoryInv, OutcomeInv, Over
<1>5. PICK h : History(h, p, Sequence(p), entity, n) /\ y = OutcomeOf(p, h[n])
  BY <1>1, <1>3 DEF HistoryInv, OutcomeInv, Over
<1>6. \A k \in 1..n : NoJudge(Sequence(p)[k])
  BY NoModelInSequence DEF HistoryInv
<1>7. g[n] = h[n]
  <2> HIDE DEF p, n
  <2> QED
    BY <1>2, <1>3, <1>4, <1>5, <1>6, SameHistory
<1> DEFINE m == g[n].metrics
           as == g[n].alerts
           raised == NeedsLevel(m, as) /\ LevelRaises(m)
<1>8. /\ x.raised = raised /\ y.raised = raised
      /\ x.metrics = y.metrics /\ x.alerts = y.alerts /\ x.results = y.results
      /\ x.decision = IF raised THEN NULL ELSE Decide("analysis", m, as)
      /\ y.decision = IF raised THEN NULL ELSE Decide(p, m, as)
  BY <1>2, <1>4, <1>5, <1>7 DEF OutcomeOf, Outcome
<1>9. Decide("analysis", m, as) = Decision(m, as) /\ Decide(p, m, as) = DetermineDecision(m, as)
  BY DecideIs
<1>10. x.decision # NULL => x.decision = y.decision
  <2> HIDE DEF x, y, m, as, raised, p
  <2> QED
    BY <1>8, <1>9, DecisionsAgree
<1> QED
  BY <1>8, <1>10

\* The simulator, with nothing overridden and no metrics of the engine, computes
\* and decides what the analysis does, for any chain without llm_judge.
THEOREM SimulationsAgree == ExecutionSpec => []SimulationAgrees
<1>1. HistoryInv => SimulationAgrees
  BY SimulationAgreement
<1> QED
  BY <1>1, ExecutionInvariance, PTL

-----------------------------------------------------------------------------
\* What one rule does to the metrics, and what its report says of it.
Reports(r, m, e) ==
    /\ e.result.rule = r
    /\ DOMAIN m \subseteq DOMAIN e.metrics
    /\ \A name :
          Wrote(e.result, name) =>
              /\ ~e.result.error
              /\ name \in DOMAIN e.metrics
              /\ e.result.out[name] = e.metrics[name]
    /\ \A name \in DOMAIN e.metrics :
          ~Wrote(e.result, name) =>
              \/ StoredFormula(e.result, name)
              \/ name \in DOMAIN m /\ e.metrics[name] = m[name]

LEMMA MergeFacts ==
    ASSUME NEW f, NEW g
    PROVE  /\ DOMAIN (f ++ g) = DOMAIN f \cup DOMAIN g
           /\ \A k \in DOMAIN f : (f ++ g)[k] = f[k]
           /\ \A k \in DOMAIN g \ DOMAIN f : (f ++ g)[k] = g[k]
  BY DEF ++

LEMMA NothingWrote ==
    ASSUME NEW res, res.out = Nothing, NEW name
    PROVE  ~Wrote(res, name)
  BY DEF Wrote, Nothing

\* The action of a rule that passed is its then, of one that did not its else.
LEMMA ActionReports ==
    ASSUME NEW r, NEW act, NEW m, NEW as, NEW passed \in BOOLEAN, NEW res,
           act = IF passed THEN Rule[r].then ELSE Rule[r].else_,
           NEW e, e = ActionEffect(r, act, m, as, passed, res)
    PROVE  /\ Reports(r, m, e)
           /\ e.result.error \/ e.result.passed = passed
<1> DEFINE kept == [k \in DOMAIN res.out \ {"error", "alert_triggered"} |-> res.out[k]]
           wrote == act.op \in Registered \/ act.op = "generate_decision"
<1>1. CASE act.op = "none" \/ res.raised
  <2>1. /\ e.metrics = m /\ e.result.rule = r /\ e.result.out = Nothing
        /\ e.result.error \/ e.result.passed = passed
    BY <1>1 DEF ActionEffect, Effect
  <2>2. \A name : ~Wrote(e.result, name)
    BY <2>1, NothingWrote
  <2> QED
    BY <2>1, <2>2 DEF Reports
<1>2. CASE ~(act.op = "none" \/ res.raised)
  <2>1. /\ e.metrics = IF wrote THEN kept ++ m ELSE m
        /\ e.result.rule = r /\ e.result.out = res.out
        /\ e.result.passed = passed /\ e.result.error = FALSE
    BY <1>2 DEF ActionEffect, Effect
  <2>2. (IF e.result.passed THEN Rule[e.result.rule].then ELSE Rule[e.result.rule].else_) = act
    <3> QED
      BY <2>1
  <2>3. \A name : Wrote(e.result, name) <=> wrote /\ name \in DOMAIN kept
    <3> QED
      BY <2>1, <2>2 DEF Wrote
  <2>4. CASE wrote
    <3>1. /\ DOMAIN e.metrics = DOMAIN kept \cup DOMAIN m
          /\ \A name \in DOMAIN kept : e.metrics[name] = e.result.out[name]
          /\ \A name \in DOMAIN m : name \notin DOMAIN kept => e.metrics[name] = m[name]
      <4>1. \A name \in DOMAIN kept : kept[name] = e.result.out[name]
        BY <2>1
      <4>2. e.metrics = kept ++ m
        BY <2>1, <2>4
      <4> HIDE DEF kept
      <4>3. /\ DOMAIN (kept ++ m) = DOMAIN kept \cup DOMAIN m
            /\ \A k \in DOMAIN kept : (kept ++ m)[k] = kept[k]
            /\ \A k \in DOMAIN m \ DOMAIN kept : (kept ++ m)[k] = m[k]
        BY MergeFacts
      <4> QED
        BY <4>1, <4>2, <4>3
    <3> HIDE DEF kept, wrote
    <3> QED
      BY <2>1, <2>3, <2>4, <3>1 DEF Reports
  <2>5. CASE ~wrote
    <3> HIDE DEF kept, wrote
    <3> QED
      BY <2>1, <2>3, <2>5 DEF Reports
  <2> QED
    BY <2>4, <2>5
<1> QED
  BY <1>1, <1>2

\* The formula is stored first, so that what the action writes covers it.
LEMMA ThenReports ==
    ASSUME NEW r, NEW d, NEW m, NEW as, NEW a, NEW e, e = ExecuteThen(r, d, m, as, a)
    PROVE  Reports(r, m, e)
<1> DEFINE stored == WithFormula(r, d, m)
<1>1. CASE Rule[r].formula # NULL /\ FormulaValue(r, d, m) = NULL
  <2>1. e.metrics = m /\ e.result.rule = r /\ e.result.out = Nothing
    BY <1>1 DEF ExecuteThen, Effect
  <2>2. \A name : ~Wrote(e.result, name)
    BY <2>1, NothingWrote
  <2> QED
    BY <2>1, <2>2 DEF Reports
<1>2. CASE ~(Rule[r].formula # NULL /\ FormulaValue(r, d, m) = NULL)
  <2>1. e = ExecuteAction(r, Rule[r].then, d, stored, as, TRUE, a)
    BY <1>2 DEF ExecuteThen
  <2>2. PICK res : e = ActionEffect(r, Rule[r].then, stored, as, TRUE, res)
    BY <2>1 DEF ExecuteAction
  <2>3. Reports(r, stored, e) /\ (e.result.error \/ e.result.passed)
    <3> HIDE DEF stored
    <3>1. TRUE \in BOOLEAN /\ Rule[r].then = IF TRUE THEN Rule[r].then ELSE Rule[r].else_
      OBVIOUS
    <3>2. Reports(r, stored, e) /\ (e.result.error \/ e.result.passed = TRUE)
      BY <2>2, <3>1, ActionReports
    <3> QED
      BY <3>2
  <2>4. CASE Rule[r].formula = NULL
    <3>1. stored = m
      BY <2>4 DEF WithFormula
    <3> QED
      BY <2>3, <3>1
  <2>5. CASE Rule[r].formula # NULL
    <3>1. /\ DOMAIN stored = {Rule[r].id_result} \cup DOMAIN m
          /\ \A name \in DOMAIN m : name # Rule[r].id_result => stored[name] = m[name]
      BY <2>5 DEF WithFormula, ++, Entry
    <3>2. StoredFormula(e.result, Rule[r].id_result)
      BY <2>3, <2>5 DEF StoredFormula, Reports
    <3> HIDE DEF stored
    <3> QED
      BY <2>3, <3>1, <3>2 DEF Reports
  <2> QED
    BY <2>4, <2>5
<1> QED
  BY <1>1, <1>2

LEMMA RuleReports ==
    ASSUME NEW r, NEW d, NEW m, NEW as, NEW a, NEW e, e = ExecuteRule(r, d, m, as, a)
    PROVE  Reports(r, m, e)
<1> DEFINE met == Evaluate(Rule[r].when, EvalContext(d, m))
<1>1. CASE met = "raised"
  <2>0. e = Effect(r, m, as, FALSE, TRUE, Nothing)
    BY <1>1, RuleRaised
  <2>1. e.metrics = m /\ e.result.rule = r /\ e.result.out = Nothing
    BY <2>0 DEF Effect
  <2>2. \A name : ~Wrote(e.result, name)
    BY <2>1, NothingWrote
  <2> QED
    BY <2>1, <2>2 DEF Reports
<1>2. CASE met = "true"
  <2>1. e = ExecuteThen(r, d, m, as, a)
    BY <1>2, RuleHolds
  <2> QED
    BY <2>1, ThenReports
<1>3. CASE met = "false" /\ Rule[r].else_.op # "none"
  <2>1. e = ExecuteAction(r, Rule[r].else_, d, m, as, FALSE, a)
    BY <1>3, RuleElse
  <2>2. PICK res : e = ActionEffect(r, Rule[r].else_, m, as, FALSE, res)
    BY <2>1 DEF ExecuteAction
  <2>3. FALSE \in BOOLEAN /\ Rule[r].else_ = IF FALSE THEN Rule[r].then ELSE Rule[r].else_
    OBVIOUS
  <2> QED
    BY <2>2, <2>3, ActionReports
<1>4. CASE met = "false" /\ Rule[r].else_.op = "none"
  <2>0. e = Effect(r, m, as, FALSE, FALSE, [skipped |-> TRUE])
    BY <1>4, RuleSkipped
  <2>1. /\ e.metrics = m /\ e.result.rule = r /\ e.result.passed = FALSE
    BY <2>0 DEF Effect
  <2>2. \A name : ~Wrote(e.result, name)
    BY <1>4, <2>1 DEF Wrote, Registered
  <2> QED
    BY <2>1, <2>2 DEF Reports
<1> QED
  BY <1>1, <1>2, <1>3, <1>4, EvaluateValues

\* Every metric is what its last report says, or a formula that came later.
FromReport(rs, m, name) ==
    \E i \in DOMAIN rs :
        /\ Wrote(rs[i], name) /\ ~rs[i].error /\ rs[i].out[name] = m[name]
        /\ \A k \in DOMAIN rs : k > i => ~Wrote(rs[k], name)

FromFormula(rs, name) ==
    \E i \in DOMAIN rs :
        /\ StoredFormula(rs[i], name)
        /\ \A k \in DOMAIN rs : k >= i => ~Wrote(rs[k], name)

Explained(c) ==
    /\ \A name \in DOMAIN c.metrics :
          FromReport(c.results, c.metrics, name) \/ FromFormula(c.results, name)
    /\ \A i \in DOMAIN c.results : \A name :
          Wrote(c.results[i], name) => name \in DOMAIN c.metrics

LEMMA ExplainedStep ==
    ASSUME NEW c, IsSeq(c.results), Explained(c), NEW r, NEW e, Reports(r, c.metrics, e),
           NEW as
    PROVE  Explained(Context(e.metrics, as, Append(c.results, e.result)))
<1> DEFINE rs == c.results
           n == Len(rs) + 1
           after == Append(rs, e.result)
<1>1. /\ Len(rs) \in Nat /\ DOMAIN rs = 1..Len(rs)
      /\ DOMAIN after = 1..n /\ after[n] = e.result
      /\ \A i \in DOMAIN rs : after[i] = rs[i]
  BY Appended, SeqDomain
<1> HIDE DEF rs, n, after
<1>2. n \in Nat /\ n \in DOMAIN after /\ DOMAIN after = DOMAIN rs \cup {n}
      /\ \A i \in DOMAIN rs : i < n /\ i \in Int
  BY <1>1 DEF n
<1>3. ASSUME NEW name \in DOMAIN e.metrics
      PROVE  FromReport(after, e.metrics, name) \/ FromFormula(after, name)
  <2>1. CASE Wrote(e.result, name)
    <3>1. /\ Wrote(after[n], name) /\ ~after[n].error
          /\ after[n].out[name] = e.metrics[name]
      BY <1>1, <2>1 DEF Reports
    <3>2. \A k \in DOMAIN after : ~(k > n)
      BY <1>1, <1>2
    <3> QED
      BY <1>2, <3>1, <3>2 DEF FromReport
  <2>2. CASE ~Wrote(e.result, name) /\ StoredFormula(e.result, name)
    <3>1. StoredFormula(after[n], name) /\ ~Wrote(after[n], name)
      BY <1>1, <2>2
    <3>2. \A k \in DOMAIN after : k >= n => k = n
      BY <1>1, <1>2
    <3> QED
      BY <1>2, <3>1, <3>2 DEF FromFormula
  <2>3. CASE ~Wrote(e.result, name) /\ ~StoredFormula(e.result, name)
    <3>1. name \in DOMAIN c.metrics /\ e.metrics[name] = c.metrics[name]
      BY <2>3 DEF Reports
    <3>2. ~Wrote(after[n], name)
      BY <1>1, <2>3
    <3>3. CASE FromReport(rs, c.metrics, name)
      <4>1. PICK i \in DOMAIN rs :
                 /\ Wrote(rs[i], name) /\ ~rs[i].error /\ rs[i].out[name] = c.metrics[name]
                 /\ \A k \in DOMAIN rs : k > i => ~Wrote(rs[k], name)
        BY <3>3 DEF FromReport
      <4>2. \A k \in DOMAIN after : k > i => ~Wrote(after[k], name)
        BY <1>1, <1>2, <3>2, <4>1
      <4> QED
        BY <1>1, <1>2, <3>1, <4>1, <4>2 DEF FromReport
    <3>4. CASE FromFormula(rs, name)
      <4>1. PICK i \in DOMAIN rs :
                 /\ StoredFormula(rs[i], name)
                 /\ \A k \in DOMAIN rs : k >= i => ~Wrote(rs[k], name)
        BY <3>4 DEF FromFormula
      <4>2. \A k \in DOMAIN after : k >= i => ~Wrote(after[k], name)
        BY <1>1, <1>2, <3>2, <4>1
      <4> QED
        BY <1>1, <1>2, <4>1, <4>2 DEF FromFormula
    <3> QED
      BY <3>1, <3>3, <3>4 DEF Explained, rs
  <2> QED
    BY <2>1, <2>2, <2>3
<1>4. ASSUME NEW i \in DOMAIN after, NEW name, Wrote(after[i], name)
      PROVE  name \in DOMAIN e.metrics
  <2>1. CASE i = n
    BY <1>1, <1>4, <2>1 DEF Reports
  <2>2. CASE i # n
    BY <1>1, <1>2, <1>4, <2>2 DEF Reports, Explained, rs
  <2> QED
    BY <2>1, <2>2
<1>5. /\ Context(e.metrics, as, after).metrics = e.metrics
      /\ Context(e.metrics, as, after).results = after
  BY DEF Context
<1>6. Explained(Context(e.metrics, as, after))
  BY <1>3, <1>4, <1>5 DEF Explained
<1> QED
  BY <1>6 DEF after, rs

-----------------------------------------------------------------------------
\* Counting the rules that apply.
LEMMA AppliedStep ==
    ASSUME NEW p, NEW seq, NEW k \in Nat
    PROVE  /\ AppliedAmong(p, seq, k) \in Nat
           /\ AppliedAmong(p, seq, k + 1)
                  = IF Applies(p, seq[k + 1]) THEN AppliedAmong(p, seq, k) + 1
                    ELSE AppliedAmong(p, seq, k)
<1> DEFINE A == {i \in 1..k : Applies(p, seq[i])}
           B == {i \in 1..(k + 1) : Applies(p, seq[i])}
<1>1. IsFiniteSet(A)
  <2>1. IsFiniteSet(1..k)
    BY FS_Interval
  <2> QED
    BY <2>1, FS_Subset
<1>2. k + 1 \notin A /\ B = IF Applies(p, seq[k + 1]) THEN A \cup {k + 1} ELSE A
  OBVIOUS
<1>3. /\ Cardinality(A) \in Nat
      /\ Cardinality(A \cup {k + 1}) = Cardinality(A) + 1
  <2> HIDE DEF A
  <2> QED
    BY <1>1, <1>2, FS_CardinalityType, FS_AddElement
<1>4. AppliedAmong(p, seq, k) = Cardinality(A) /\ AppliedAmong(p, seq, k + 1) = Cardinality(B)
  BY DEF AppliedAmong
<1> HIDE DEF A, B
<1> QED
  BY <1>2, <1>3, <1>4

LEMMA AppliedNone ==
    ASSUME NEW p, NEW seq
    PROVE  AppliedAmong(p, seq, 0) = 0
<1>1. {i \in 1..0 : Applies(p, seq[i])} = {}
  OBVIOUS
<1> QED
  BY <1>1, FS_EmptySet DEF AppliedAmong

\* Every applicable rule among the first k is reported, in order.
ReportedAmong(p, seq, k, rs) ==
    /\ Len(rs) = AppliedAmong(p, seq, k)
    /\ \A i \in 1..k : Applies(p, seq[i]) =>
          /\ AppliedAmong(p, seq, i) \in DOMAIN rs
          /\ rs[AppliedAmong(p, seq, i)].rule = seq[i]
    /\ \A j \in DOMAIN rs : \E i \in 1..k : rs[j].rule = seq[i]

Explains(p, seq, k, c) ==
    IsSeq(c.results) /\ Explained(c) /\ ReportedAmong(p, seq, k, c.results)

LEMMA BlankExplains ==
    ASSUME NEW p, NEW seq
    PROVE  Explains(p, seq, 0, Blank)
<1>1. Blank.results = << >> /\ Blank.metrics = Nothing
  BY DEF Blank, Context
<1>2. DOMAIN Nothing = {}
  BY DEF Nothing
<1>3. Explained(Blank)
  BY <1>1, <1>2, NoElements DEF Explained
<1> QED
  BY <1>1, <1>3, NoElements, AppliedNone DEF Explains, ReportedAmong

LEMMA MoveExplains ==
    ASSUME NEW p, p # "steps", NEW seq, NEW d, NEW k \in Nat, NEW c, Explains(p, seq, k, c),
           NEW next, Moves(p, d, c, seq[k + 1], next)
    PROVE  Explains(p, seq, k + 1, next)
<1> DEFINE r == seq[k + 1]
<1>1. CASE ~Applies(p, r)
  <2>1. next = c
    BY <1>1 DEF Moves
  <2>2. AppliedAmong(p, seq, k + 1) = AppliedAmong(p, seq, k)
    BY <1>1, AppliedStep
  <2>3. \A i \in 1..(k + 1) : Applies(p, seq[i]) => i \in 1..k
    BY <1>1
  <2> QED
    BY <2>1, <2>2, <2>3 DEF Explains, ReportedAmong
<1>2. CASE Applies(p, r)
  <2>1. PICK a : next = Ran(p, d, c, r, a)
    BY <1>2 DEF Moves
  <2> DEFINE e == ExecuteRule(r, d, c.metrics, c.alerts, a)
  <2>2. next = Context(e.metrics, e.alerts, Append(c.results, e.result))
    BY <2>1 DEF Ran
  <2>3. Reports(r, c.metrics, e)
    BY RuleReports
  <2> HIDE DEF e
  <2>4. Explained(next)
    BY <2>2, <2>3, ExplainedStep DEF Explains
  <2> DEFINE rs == c.results
             after == Append(rs, e.result)
             n == AppliedAmong(p, seq, k)
  <2>5. next.results = after
    BY <2>2 DEF Context
  <2>6. /\ IsSeq(after) /\ Len(after) = Len(rs) + 1 /\ DOMAIN after = 1..(Len(rs) + 1)
        /\ after[Len(rs) + 1] = e.result /\ \A i \in DOMAIN rs : after[i] = rs[i]
        /\ Len(rs) \in Nat /\ DOMAIN rs = 1..Len(rs)
    BY Appended, SeqDomain DEF Explains
  <2>7. n \in Nat /\ Len(rs) = n /\ AppliedAmong(p, seq, k + 1) = n + 1
    BY <1>2, AppliedStep DEF Explains, ReportedAmong
  <2>8. ASSUME NEW i \in 1..(k + 1), Applies(p, seq[i])
        PROVE  /\ AppliedAmong(p, seq, i) \in DOMAIN after
               /\ after[AppliedAmong(p, seq, i)].rule = seq[i]
    <3>1. CASE i = k + 1
      <4>1. e.result.rule = r
        BY <2>3 DEF Reports
      <4> HIDE DEF after, rs, n
      <4> QED
        BY <2>6, <2>7, <3>1, <4>1
    <3>2. CASE i # k + 1
      <4>1. i \in 1..k
        BY <3>2
      <4>2. /\ AppliedAmong(p, seq, i) \in DOMAIN rs
            /\ rs[AppliedAmong(p, seq, i)].rule = seq[i]
        BY <2>8, <4>1 DEF Explains, ReportedAmong
      <4> HIDE DEF after, rs, n
      <4> QED
        BY <2>6, <4>2
    <3> QED
      BY <3>1, <3>2
  <2>9. ASSUME NEW j \in DOMAIN after PROVE \E i \in 1..(k + 1) : after[j].rule = seq[i]
    <3>1. CASE j \in DOMAIN rs
      <4>1. PICK i \in 1..k : rs[j].rule = seq[i]
        BY <3>1 DEF Explains, ReportedAmong
      <4>2. after[j] = rs[j] /\ i \in 1..(k + 1)
        BY <2>6, <3>1
      <4> QED
        BY <4>1, <4>2
    <3>2. CASE j \notin DOMAIN rs
      <4>1. j = Len(rs) + 1
        <5> HIDE DEF after, rs
        <5> QED
          BY <2>6, <3>2
      <4>2. after[j] = e.result /\ e.result.rule = seq[k + 1] /\ k + 1 \in 1..(k + 1)
        BY <2>3, <2>6, <4>1 DEF Reports
      <4> QED
        BY <4>2
    <3> QED
      BY <3>1, <3>2
  <2> HIDE DEF rs, after, n
  <2> QED
    BY <2>4, <2>5, <2>6, <2>7, <2>8, <2>9 DEF Explains, ReportedAmong
<1> QED
  BY <1>1, <1>2

LEMMA HistoryExplains ==
    ASSUME NEW p, p # "steps", NEW seq, NEW d, NEW n \in Nat, NEW h, History(h, p, seq, d, n)
    PROVE  Explains(p, seq, n, h[n])
<1> DEFINE T == {k \in Nat : k <= n => Explains(p, seq, k, h[k])}
<1>1. 0 \in T
  BY BlankExplains DEF History
<1>2. ASSUME NEW k \in Nat, k \in T PROVE k + 1 \in T
  <2>1. CASE k + 1 <= n
    <3>1. k + 1 \in 1..n /\ (k + 1) - 1 = k /\ Explains(p, seq, k, h[k])
      BY <1>2, <2>1
    <3>2. Moves(p, d, h[k], seq[k + 1], h[k + 1])
      BY <3>1 DEF History
    <3>3. Explains(p, seq, k + 1, h[k + 1])
      BY <3>1, <3>2, MoveExplains
    <3> QED
      BY <3>3
  <2>2. CASE ~(k + 1 <= n)
    BY <2>2
  <2> QED
    BY <2>1, <2>2
<1>3. n \in T
  <2> HIDE DEF T
  <2> QED
    BY <1>1, <1>2, Induction
<1> QED
  BY <1>3

\* What LastWriter finds in the reports of an outcome.
LEMMA LastWriterIs ==
    ASSUME NEW p, IsSeq(outcome[p].results), NEW name
    PROVE  LET rs == outcome[p].results
               last == LastWriter(p, name)
           IN  /\ last = 0 => \A k \in DOMAIN rs : ~Wrote(rs[k], name)
               /\ \A i \in DOMAIN rs :
                     Wrote(rs[i], name) /\ (\A k \in DOMAIN rs : k > i => ~Wrote(rs[k], name))
                         => last = i
               /\ last = 0 \/ (last \in DOMAIN rs /\ Wrote(rs[last], name))
<1> DEFINE rs == outcome[p].results
           writers == {i \in DOMAIN rs : Wrote(rs[i], name)}
<1>1. DOMAIN rs = 1..Len(rs) /\ Len(rs) \in Nat
  BY SeqDomain
<1>2. LastWriter(p, name) = IF writers = {} THEN 0 ELSE Max(writers)
  BY DEF LastWriter
<1>3. ASSUME NEW i \in writers, \A k \in DOMAIN rs : k > i => ~Wrote(rs[k], name)
      PROVE  Max(writers) = i
  <2>1. writers \subseteq Int /\ \A m \in writers : m <= i
    BY <1>1, <1>3
  <2> HIDE DEF writers
  <2> QED
    BY <2>1, MaxIs
<1>4. ASSUME writers # {} PROVE LastWriter(p, name) \in 1..Len(rs) /\ LastWriter(p, name) \in writers
  <2>1. \E i \in writers : \A k \in writers : k <= i
    BY <1>1, <1>4, HasMax
  <2>2. PICK i \in writers : \A k \in writers : k <= i
    BY <2>1
  <2>3. Max(writers) = i
    <3>1. writers \subseteq Int
      BY <1>1
    <3> HIDE DEF writers
    <3> QED
      BY <2>2, <3>1, MaxIs
  <2> QED
    BY <1>1, <1>2, <1>4, <2>3
<1>5. LastWriter(p, name) = 0 => writers = {}
  BY <1>1, <1>4
<1>6. ASSUME NEW i \in DOMAIN rs, Wrote(rs[i], name),
             \A k \in DOMAIN rs : k > i => ~Wrote(rs[k], name)
      PROVE  LastWriter(p, name) = i
  <2>1. i \in writers
    BY <1>6
  <2>2. Max(writers) = i
    BY <1>3, <1>6, <2>1
  <2> QED
    BY <1>2, <2>1, <2>2
<1>7. LastWriter(p, name) = 0 => \A k \in DOMAIN rs : ~Wrote(rs[k], name)
  BY <1>5
<1>8. \/ LastWriter(p, name) = 0
      \/ /\ LastWriter(p, name) \in DOMAIN rs
         /\ Wrote(rs[LastWriter(p, name)], name)
  <2>1. CASE writers = {}
    BY <1>2, <2>1
  <2>2. CASE writers # {}
    <3>1. LastWriter(p, name) \in writers
      BY <1>4, <2>2
    <3> QED
      BY <3>1
  <2> QED
    BY <2>1, <2>2
<1> QED
  BY <1>6, <1>7, <1>8
\* The outcome of a pass other than that of a group's steps, explained.
LEMMA OutcomeExplained ==
    ASSUME HistoryInv, NEW p \in {"analysis", "baseline", "simulated"}, Over(p)
    PROVE  \E c : /\ outcome[p] = OutcomeOf(p, c)
                  /\ Explains(p, Sequence(p), Len(Sequence(p)), c)
                  /\ Len(Sequence(p)) \in Nat
                  /\ DOMAIN Sequence(p) = 1..Len(Sequence(p))
<1>1. Len(Sequence(p)) \in Nat /\ DOMAIN Sequence(p) = 1..Len(Sequence(p))
  BY SequenceIsSeq, SeqDomain DEF HistoryInv
<1>2. PICK h : /\ History(h, p, Sequence(p), DataOf(p), Len(Sequence(p)))
               /\ outcome[p] = OutcomeOf(p, h[Len(Sequence(p))])
  BY DEF HistoryInv, OutcomeInv, Over
<1>3. Explains(p, Sequence(p), Len(Sequence(p)), h[Len(Sequence(p))])
  BY <1>1, <1>2, HistoryExplains
<1> QED
  BY <1>1, <1>2, <1>3

LEMMA ResultsExplanation ==
    ASSUME HistoryInv
    PROVE  ResultsExplainMetrics
<1> SUFFICES ASSUME NEW p \in {"analysis", "baseline", "simulated"}, Over(p)
             PROVE  LET rs == outcome[p].results
                        m == outcome[p].metrics
                        seq == Sequence(p)
                    IN  /\ Len(rs) = AppliedAmong(p, seq, Len(seq))
                        /\ \A k \in DOMAIN seq :
                               Applies(p, seq[k]) => rs[AppliedAmong(p, seq, k)].rule = seq[k]
                        /\ \A name \in DOMAIN m :
                               LET last == LastWriter(p, name)
                               IN  \/ /\ last # 0
                                      /\ ~rs[last].error
                                      /\ rs[last].out[name] = m[name]
                                   \/ \E i \in DOMAIN rs :
                                         i > last /\ StoredFormula(rs[i], name)
  BY DEF ResultsExplainMetrics
<1> DEFINE rs == outcome[p].results
           m == outcome[p].metrics
           seq == Sequence(p)
           n == Len(seq)
<1>1. PICK c : outcome[p] = OutcomeOf(p, c) /\ Explains(p, seq, n, c) /\ DOMAIN seq = 1..n
  BY OutcomeExplained
<1>2. rs = c.results /\ m = c.metrics
  BY <1>1 DEF OutcomeOf, Outcome
<1>3. IsSeq(rs) /\ Explained(c) /\ ReportedAmong(p, seq, n, rs)
  BY <1>1, <1>2 DEF Explains
<1>4. DOMAIN rs = 1..Len(rs) /\ Len(rs) \in Nat
  BY <1>3, SeqDomain
<1>5. ASSUME NEW name \in DOMAIN m
      PROVE  LET last == LastWriter(p, name)
             IN  \/ last # 0 /\ ~rs[last].error /\ rs[last].out[name] = m[name]
                 \/ \E i \in DOMAIN rs : i > last /\ StoredFormula(rs[i], name)
  <2> DEFINE last == LastWriter(p, name)
  <2>1. /\ last = 0 => \A k \in DOMAIN rs : ~Wrote(rs[k], name)
        /\ \A i \in DOMAIN rs :
              Wrote(rs[i], name) /\ (\A k \in DOMAIN rs : k > i => ~Wrote(rs[k], name))
                  => last = i
        /\ last = 0 \/ (last \in DOMAIN rs /\ Wrote(rs[last], name))
    BY <1>3, LastWriterIs
  <2>2. FromReport(rs, m, name) \/ FromFormula(rs, name)
    BY <1>2, <1>3 DEF Explained
  <2> HIDE DEF last, rs, m
  <2>3. CASE FromReport(rs, m, name)
    <3>1. PICK i \in DOMAIN rs :
               /\ Wrote(rs[i], name) /\ ~rs[i].error /\ rs[i].out[name] = m[name]
               /\ \A k \in DOMAIN rs : k > i => ~Wrote(rs[k], name)
      BY <2>3 DEF FromReport
    <3>2. last = i /\ i # 0
      BY <1>4, <2>1, <3>1
    <3> QED
      BY <3>1, <3>2 DEF last
  <2>4. CASE FromFormula(rs, name)
    <3>1. PICK i \in DOMAIN rs :
               /\ StoredFormula(rs[i], name)
               /\ \A k \in DOMAIN rs : k >= i => ~Wrote(rs[k], name)
      BY <2>4 DEF FromFormula
    <3>2. i > last
      BY <1>4, <2>1, <3>1
    <3> QED
      BY <3>1, <3>2 DEF last
  <2> QED
    BY <2>2, <2>3, <2>4
<1>6. /\ Len(rs) = AppliedAmong(p, seq, n)
      /\ \A k \in DOMAIN seq : Applies(p, seq[k]) => rs[AppliedAmong(p, seq, k)].rule = seq[k]
  BY <1>1, <1>3 DEF ReportedAmong
<1> QED
  BY <1>5, <1>6

\* Every applicable rule of a chain of any length is reported once and in
\* order, and the reports explain every computed metric.
THEOREM ResultsExplained == ExecutionSpec => []ResultsExplainMetrics
<1>1. HistoryInv => ResultsExplainMetrics
  BY ResultsExplanation
<1> QED
  BY <1>1, ExecutionInvariance, PTL

-----------------------------------------------------------------------------
\* Eligibility is what the last report that wrote it says: no formula is
\* stored under its name.
LEMMA EligibilityIsReported ==
    ASSUME HistoryInv, NEW p \in {"analysis", "baseline", "simulated"}, Over(p)
    PROVE  LET last == LastWriter(p, "eligible")
           IN  Eligible(outcome[p].metrics)
                   = IF last = 0 THEN NULL ELSE outcome[p].results[last].out["eligible"]
<1> DEFINE rs == outcome[p].results
           m == outcome[p].metrics
           seq == Sequence(p)
           n == Len(seq)
           last == LastWriter(p, "eligible")
<1>1. PICK c : outcome[p] = OutcomeOf(p, c) /\ Explains(p, seq, n, c)
  BY OutcomeExplained
<1>2. rs = c.results /\ m = c.metrics
  BY <1>1 DEF OutcomeOf, Outcome
<1>3. IsSeq(rs) /\ Explained(c) /\ ReportedAmong(p, seq, n, rs)
  BY <1>1, <1>2 DEF Explains
<1>4. ASSUME NEW i \in DOMAIN rs PROVE ~StoredFormula(rs[i], "eligible")
  <2>1. PICK k \in 1..n : rs[i].rule = seq[k]
    BY <1>3 DEF ReportedAmong
  <2>2. n = Len(chain)
    BY SequenceIsSeq DEF HistoryInv
  <2>3. seq[k] \in RuleIds
    BY <2>2, SequenceRules DEF HistoryInv
  <2> HIDE DEF rs, seq
  <2> QED
    BY <2>1, <2>3, ExecutionAssumption DEF StoredFormula
<1>5. /\ last = 0 => \A k \in DOMAIN rs : ~Wrote(rs[k], "eligible")
      /\ \A i \in DOMAIN rs :
            Wrote(rs[i], "eligible") /\ (\A k \in DOMAIN rs : k > i => ~Wrote(rs[k], "eligible"))
                => last = i
      /\ last = 0 \/ (last \in DOMAIN rs /\ Wrote(rs[last], "eligible"))
  BY <1>3, LastWriterIs
<1>6. "eligible" \in DOMAIN m => FromReport(rs, m, "eligible")
  BY <1>2, <1>3, <1>4 DEF Explained, FromFormula
<1>7. last # 0 => "eligible" \in DOMAIN m
  BY <1>2, <1>3, <1>5 DEF Explained
<1>8. ASSUME "eligible" \in DOMAIN m
      PROVE  last # 0 /\ rs[last].out["eligible"] = m["eligible"]
  <2>1. PICK i \in DOMAIN rs :
             /\ Wrote(rs[i], "eligible") /\ rs[i].out["eligible"] = m["eligible"]
             /\ \A k \in DOMAIN rs : k > i => ~Wrote(rs[k], "eligible")
    BY <1>6, <1>8 DEF FromReport
  <2> HIDE DEF last, rs, m
  <2> QED
    BY <1>5, <2>1
<1> HIDE DEF last, rs, m
<1>9. Eligible(m) = IF last = 0 THEN NULL ELSE rs[last].out["eligible"]
  BY <1>7, <1>8 DEF Eligible, Get
<1> QED
  BY <1>9 DEF last, rs, m

\* Both decisions are a rejection or a review after a critical alert, and a
\* rejection where eligibility was refused.
LEMMA DecisionStands ==
    ASSUME NEW m, NEW as
    PROVE  /\ Critical(as) => Decision(m, as) \in {"REJECT", "REVIEW"}
           /\ Decision(m, as) \in Approvals => Eligible(m) = TRUE
           /\ Eligible(m) = FALSE => Decision(m, as) = "REJECT"
<1>1. CASE NeedsLevel(m, as)
  BY <1>1 DEF NeedsLevel
<1>2. CASE ~NeedsLevel(m, as) /\ Eligible(m) = FALSE
  <2>1. Decision(m, as) = "REJECT"
    BY <1>2 DEF Decision, NeedsLevel
  <2> QED
    BY <2>1 DEF Approvals
<1>3. CASE ~NeedsLevel(m, as) /\ Eligible(m) # FALSE /\ Critical(as)
  <2>1. Decision(m, as) = "REVIEW"
    BY <1>3 DEF Decision, NeedsLevel
  <2> QED
    BY <1>3, <2>1 DEF Approvals
<1>4. CASE ~NeedsLevel(m, as) /\ Eligible(m) # FALSE /\ ~Critical(as)
  <2>1. Decision(m, as) = NULL
    BY <1>4 DEF Decision, NeedsLevel
  <2> QED
    BY <1>4, <2>1, ExecutionAssumption DEF Approvals
<1> QED
  BY <1>1, <1>2, <1>3, <1>4

LEMMA DetermineDecisionStands ==
    ASSUME NEW m, NEW as
    PROVE  /\ Critical(as) => DetermineDecision(m, as) \in {"REJECT", "REVIEW"}
           /\ Eligible(m) = FALSE => DetermineDecision(m, as) = "REJECT"
<1>1. CASE Eligible(m) = FALSE
  BY <1>1 DEF DetermineDecision, NeedsLevel
<1>2. CASE Eligible(m) # FALSE /\ Critical(as)
  BY <1>2 DEF DetermineDecision, NeedsLevel
<1> QED
  BY <1>1, <1>2

LEMMA RejectionStanding ==
    ASSUME HistoryInv
    PROVE  RejectionStands
<1> SUFFICES ASSUME NEW p \in {"analysis", "baseline", "simulated"}, Ended(p)
             PROVE  LET last == LastWriter(p, "eligible")
                        granted == IF last = 0 THEN NULL
                                   ELSE outcome[p].results[last].out["eligible"]
                    IN  /\ Critical(outcome[p].alerts) =>
                               outcome[p].decision \in {"REJECT", "REVIEW"}
                        /\ p = "analysis" /\ outcome[p].decision \in Approvals => granted = TRUE
                        /\ granted = FALSE => outcome[p].decision = "REJECT"
  BY DEF RejectionStands
<1> DEFINE m == outcome[p].metrics
           as == outcome[p].alerts
           last == LastWriter(p, "eligible")
           granted == IF last = 0 THEN NULL ELSE outcome[p].results[last].out["eligible"]
<1>1. granted = Eligible(m)
  BY EligibilityIsReported DEF Ended
<1>2. outcome[p].decision = Decide(p, m, as)
  <2>1. PICK c : outcome[p] = OutcomeOf(p, c)
    BY OutcomeExplained DEF Ended
  <2> DEFINE raised == p # "steps" /\ NeedsLevel(c.metrics, c.alerts) /\ LevelRaises(c.metrics)
  <2>2. /\ outcome[p].raised = raised /\ m = c.metrics /\ as = c.alerts
        /\ outcome[p].decision = IF raised THEN NULL ELSE Decide(p, c.metrics, c.alerts)
    BY <2>1 DEF OutcomeOf, Outcome
  <2> HIDE DEF raised, m, as
  <2> QED
    BY <2>2 DEF Ended
<1>3. \/ p = "analysis" /\ outcome[p].decision = Decision(m, as)
      \/ p # "analysis" /\ outcome[p].decision = DetermineDecision(m, as)
  BY <1>2, DecideIs
<1>4. Critical(as) => outcome[p].decision \in {"REJECT", "REVIEW"}
  BY <1>3, DecisionStands, DetermineDecisionStands
<1>5. p = "analysis" /\ outcome[p].decision \in Approvals => granted = TRUE
  BY <1>1, <1>3, DecisionStands
<1>6. granted = FALSE => outcome[p].decision = "REJECT"
  BY <1>1, <1>3, DecisionStands, DetermineDecisionStands
<1> QED
  BY <1>4, <1>5, <1>6

\* However long the chain, nothing is approved past a rejection or a critical
\* alert, whoever decides.
THEOREM RejectionsStand == ExecutionSpec => []RejectionStands
<1>1. HistoryInv => RejectionStands
  BY RejectionStanding
<1> QED
  BY <1>1, ExecutionInvariance, PTL

-----------------------------------------------------------------------------
\* What a run that overrides attributes cannot reach.  Two dictionaries are
\* the same at a name if both have it, with the same value, or neither has.
Same(x, y, name) ==
    /\ name \in DOMAIN x <=> name \in DOMAIN y
    /\ name \in DOMAIN x => x[name] = y[name]

LEMMA SameGet ==
    ASSUME NEW x, NEW y, NEW name, Same(x, y, name), NEW default
    PROVE  Get(x, name, default) = Get(y, name, default)
  BY DEF Same, Get

LEMMA SameMerge ==
    ASSUME NEW f, NEW g, NEW x, NEW y, NEW name,
           Same(f, g, name), name \in DOMAIN f \/ Same(x, y, name)
    PROVE  Same(f ++ x, g ++ y, name)
<1>1. /\ DOMAIN (f ++ x) = DOMAIN f \cup DOMAIN x
      /\ \A k \in DOMAIN f : (f ++ x)[k] = f[k]
      /\ \A k \in DOMAIN x \ DOMAIN f : (f ++ x)[k] = x[k]
  BY MergeFacts
<1>2. /\ DOMAIN (g ++ y) = DOMAIN g \cup DOMAIN y
      /\ \A k \in DOMAIN g : (g ++ y)[k] = g[k]
      /\ \A k \in DOMAIN y \ DOMAIN g : (g ++ y)[k] = y[k]
  BY MergeFacts
<1> QED
  BY <1>1, <1>2 DEF Same

\* A condition reads its fields, an operator the names listed for it.
LEMMA ConditionReads ==
    ASSUME NEW when, DOMAIN when.atoms \subseteq Nat, NEW x, NEW y,
           \A i \in DOMAIN when.atoms : Same(x, y, when.atoms[i].field)
    PROVE  Evaluate(when, x) = Evaluate(when, y)
<1>1. \A i \in DOMAIN when.atoms :
         EvaluateExpression(when.atoms[i], x) = EvaluateExpression(when.atoms[i], y)
  BY SameGet DEF EvaluateExpression
<1> DEFINE goOn == IF when.all THEN "true" ELSE "false"
           stops(ctx) == {i \in DOMAIN when.atoms : EvaluateExpression(when.atoms[i], ctx) # goOn}
           at(ctx) == EvaluateExpression(when.atoms[Min(stops(ctx))], ctx)
<1>2. stops(x) = stops(y)
  BY <1>1
<1>3. \A ctx : Evaluate(when, ctx) = IF when.atoms = << >> THEN "true"
                                     ELSE IF stops(ctx) = {} THEN goOn ELSE at(ctx)
  BY DEF Evaluate
<1>4. stops(x) # {} => at(x) = at(y)
  <2>1. SUFFICES ASSUME stops(x) # {} PROVE at(x) = at(y)
    OBVIOUS
  <2>2. stops(x) \in SUBSET Nat
    OBVIOUS
  <2>3. Min(stops(x)) \in stops(x)
    <3> HIDE DEF stops
    <3> QED
      BY <2>1, <2>2, MinOf
  <2>4. Min(stops(x)) \in DOMAIN when.atoms
    BY <2>3
  <2>5. Min(stops(x)) = Min(stops(y))
    BY <1>2
  <2> HIDE DEF stops
  <2> QED
    BY <1>1, <2>4, <2>5
<1> QED
  BY <1>2, <1>3, <1>4
LEMMA DecisionTableReads ==
    ASSUME NEW p, NEW x, NEW y,
           \A n \in OperatorReads("decision_table", p) : Same(x, y, n)
    PROVE  DecisionTable(p, x) = DecisionTable(p, y)
<1> DEFINE actual(ctx) == [i \in DOMAIN p.columns |-> Get(ctx, p.columns[i], NULL)]
<1>1. OperatorReads("decision_table", p) = {p.columns[i] : i \in DOMAIN p.columns}
  BY DEF OperatorReads
<1>2. \A i \in DOMAIN p.columns : Get(x, p.columns[i], NULL) = Get(y, p.columns[i], NULL)
  BY <1>1, SameGet
<1>3. actual(x) = actual(y)
  BY <1>2
<1> QED
  BY <1>3 DEF DecisionTable

LEMMA WeightedSumReads ==
    ASSUME NEW p, NEW x, NEW y,
           \A n \in OperatorReads("weighted_sum", p) : Same(x, y, n)
    PROVE  WeightedSum(p, x) = WeightedSum(p, y)
<1> DEFINE part(ctx) == [i \in DOMAIN p.weights |->
                            LET value == Get(ctx, p.weights[i].input, NULL)
                            IN  IF value = NULL THEN 0 ELSE p.weights[i].weight * value]
<1>1. OperatorReads("weighted_sum", p)
          = {p.grade_input} \cup {p.weights[i].input : i \in DOMAIN p.weights}
  BY DEF OperatorReads
<1>2. /\ Get(x, p.grade_input, NULL) = Get(y, p.grade_input, NULL)
      /\ \A i \in DOMAIN p.weights : Get(x, p.weights[i].input, NULL) = Get(y, p.weights[i].input, NULL)
  BY <1>1, SameGet
<1>3. part(x) = part(y)
  BY <1>2
<1> QED
  BY <1>2, <1>3 DEF WeightedSum

LEMMA SwitchReads ==
    ASSUME NEW p, NEW x, NEW y, Same(x, y, p.value)
    PROVE  Switch(p, x) = Switch(p, y) /\ Binning(p, x) = Binning(p, y)
<1>1. Get(x, p.value, NULL) = Get(y, p.value, NULL)
  BY SameGet
<1> QED
  BY <1>1 DEF Switch, Binning

LEMMA ScorecardReads ==
    ASSUME NEW p, NEW x, NEW y,
           \A n \in OperatorReads("scorecard", p) : Same(x, y, n)
    PROVE  Scorecard(p, x) = Scorecard(p, y)
<1> DEFINE named == {i \in DOMAIN p.factors : p.factors[i].name # NULL}
           weight == [i \in DOMAIN p.factors |-> p.factors[i].weight]
           part(ctx) == [i \in named |-> LET value == Get(ctx, p.factors[i].name, 0)
                                         IN  IF value = NULL THEN 0 ELSE value * weight[i]]
<1>1. OperatorReads("scorecard", p) = {p.factors[i].name : i \in DOMAIN p.factors}
  BY DEF OperatorReads
<1>2. \A i \in DOMAIN p.factors : Get(x, p.factors[i].name, 0) = Get(y, p.factors[i].name, 0)
  BY <1>1, SameGet
<1>3. part(x) = part(y)
  BY <1>2
<1> QED
  BY <1>3 DEF Scorecard

LEMMA ScoreReads ==
    ASSUME NEW p, NEW x, NEW y,
           \A n \in OperatorReads("calculate_credit_score", p) \ {"alerts"} : Same(x, y, n),
           ("critical" \in Get(x, "alerts", {})) <=> ("critical" \in Get(y, "alerts", {}))
    PROVE  CalculateCreditScore(p, x) = CalculateCreditScore(p, y)
<1>1. OperatorReads("calculate_credit_score", p) \ {"alerts"}
          = {"business_stability_score", "tax_compliance_score",
             "network_centrality_score", "reputation_score", "guarantee_chain_depth"}
  BY DEF OperatorReads
<1>2. /\ Get(x, "business_stability_score", 50) = Get(y, "business_stability_score", 50)
      /\ Get(x, "tax_compliance_score", 60) = Get(y, "tax_compliance_score", 60)
      /\ Get(x, "network_centrality_score", 50) = Get(y, "network_centrality_score", 50)
      /\ Get(x, "reputation_score", 80) = Get(y, "reputation_score", 80)
      /\ Get(x, "guarantee_chain_depth", 0) = Get(y, "guarantee_chain_depth", 0)
  BY <1>1, SameGet
<1> QED
  BY <1>2 DEF CalculateCreditScore

LEMMA LimitAndRateReads ==
    ASSUME NEW p, NEW x, NEW y
    PROVE  /\ (\A n \in OperatorReads("calculate_credit_limit", p) : Same(x, y, n)) =>
                  CalculateCreditLimit(p, x) = CalculateCreditLimit(p, y)
           /\ (\A n \in OperatorReads("determine_interest_rate", p) : Same(x, y, n)) =>
                  DetermineInterestRate(p, x) = DetermineInterestRate(p, y)
           /\ (\A n \in OperatorReads("compute_formula", p) : Same(x, y, n)) =>
                  ComputeFormula(p, x) = ComputeFormula(p, y)
<1>1. /\ OperatorReads("calculate_credit_limit", p)
             = {"credit_grade", "registered_capital", "guarantee_chain_depth"}
      /\ OperatorReads("determine_interest_rate", p) = {"credit_score"}
      /\ OperatorReads("compute_formula", p) = {p.source}
  BY DEF OperatorReads
<1>2. ASSUME \A n \in OperatorReads("calculate_credit_limit", p) : Same(x, y, n)
      PROVE  CalculateCreditLimit(p, x) = CalculateCreditLimit(p, y)
  <2>1. /\ Get(x, "credit_grade", 50) = Get(y, "credit_grade", 50)
        /\ Get(x, "registered_capital", 0) = Get(y, "registered_capital", 0)
        /\ Get(x, "guarantee_chain_depth", 0) = Get(y, "guarantee_chain_depth", 0)
    BY <1>1, <1>2, SameGet
  <2> QED
    BY <2>1 DEF CalculateCreditLimit
<1>3. ASSUME \A n \in OperatorReads("determine_interest_rate", p) : Same(x, y, n)
      PROVE  DetermineInterestRate(p, x) = DetermineInterestRate(p, y)
  <2>1. Get(x, "credit_score", 50) = Get(y, "credit_score", 50)
    BY <1>1, <1>3, SameGet
  <2> QED
    BY <2>1 DEF DetermineInterestRate
<1>4. ASSUME \A n \in OperatorReads("compute_formula", p) : Same(x, y, n)
      PROVE  ComputeFormula(p, x) = ComputeFormula(p, y)
  <2>1. Get(x, p.source, NULL) = Get(y, p.source, NULL)
    BY <1>1, <1>4, SameGet
  <2> QED
    BY <2>1 DEF ComputeFormula
<1> QED
  BY <1>2, <1>3, <1>4

\* An operator's result is determined by the names it is said to read.
LEMMA OperatorReadsAll ==
    ASSUME NEW op \in Registered, NEW p, NEW a, NEW x, NEW y,
           \A n \in OperatorReads(op, p) : Same(x, y, n)
    PROVE  Execute(op, p, x, a) = Execute(op, p, y, a)
<1>1. CASE op = "decision_table"
  <2>1. \A ctx : Execute("decision_table", p, ctx, a) = DecisionTable(p, ctx)
    BY DEF Execute
  <2> QED
    BY <1>1, <2>1, DecisionTableReads
<1>2. CASE op = "weighted_sum"
  <2>1. \A ctx : Execute("weighted_sum", p, ctx, a) = WeightedSum(p, ctx)
    BY DEF Execute
  <2> QED
    BY <1>2, <2>1, WeightedSumReads
<1>3. CASE op \in {"switch", "binning"}
  <2>1. \A ctx : /\ Execute("switch", p, ctx, a) = Switch(p, ctx)
                 /\ Execute("binning", p, ctx, a) = Binning(p, ctx)
    BY DEF Execute
  <2>2. OperatorReads(op, p) = {p.value}
    BY <1>3 DEF OperatorReads
  <2> QED
    BY <1>3, <2>1, <2>2, SwitchReads
<1>4. CASE op = "scorecard"
  <2>1. \A ctx : Execute("scorecard", p, ctx, a) = Scorecard(p, ctx)
    BY DEF Execute
  <2> QED
    BY <1>4, <2>1, ScorecardReads
<1>5. CASE op = "calculate_credit_score"
  <2>1. \A ctx : Execute("calculate_credit_score", p, ctx, a) = CalculateCreditScore(p, ctx)
    BY DEF Execute
  <2>2. "alerts" \in OperatorReads("calculate_credit_score", p)
    BY DEF OperatorReads
  <2>3. Get(x, "alerts", {}) = Get(y, "alerts", {})
    BY <1>5, <2>2, SameGet
  <2>4. CalculateCreditScore(p, x) = CalculateCreditScore(p, y)
    BY <1>5, <2>3, ScoreReads
  <2> QED
    BY <1>5, <2>1, <2>4
<1>6. CASE op \in {"calculate_credit_limit", "determine_interest_rate", "compute_formula"}
  <2>1. \A ctx : /\ Execute("calculate_credit_limit", p, ctx, a) = CalculateCreditLimit(p, ctx)
                 /\ Execute("determine_interest_rate", p, ctx, a) = DetermineInterestRate(p, ctx)
                 /\ Execute("compute_formula", p, ctx, a) = ComputeFormula(p, ctx)
    BY DEF Execute
  <2> QED
    BY <1>6, <2>1, LimitAndRateReads
<1>7. CASE op \in {"set_flag", "approve_eligibility", "reject_eligibility", "trigger_alert",
                   "graph_traversal", "llm_judge"}
  BY <1>7 DEF Execute, SetFlag, ApproveEligibility, RejectEligibility, TriggerAlert, GraphTraversal
<1> QED
  BY <1>1, <1>2, <1>3, <1>4, <1>5, <1>6, <1>7 DEF Registered
\* Two contexts, on their attributes, that are the same at the names in N, the
\* alerts included if their name is one of them.
SameAt(N, d, c, d2, c2) ==
    /\ \A n \in N : /\ Same(EvalContext(d, c.metrics), EvalContext(d2, c2.metrics), n)
                    /\ Same(c.metrics, c2.metrics, n)
    /\ "alerts" \in N => c.alerts = c2.alerts

LEMMA ActionReads ==
    ASSUME NEW act, NEW a, NEW d, NEW c, NEW d2, NEW c2,
           SameAt(OperatorReads(act.op, act.params), d, c, d2, c2)
    PROVE  ActionResult(act, d, c.metrics, c.alerts, a)
               = ActionResult(act, d2, c2.metrics, c2.alerts, a)
<1> DEFINE N == OperatorReads(act.op, act.params)
           m == c.metrics
           m2 == c2.metrics
           own == Entry("alerts", {c.alerts[i] : i \in DOMAIN c.alerts})
           own2 == Entry("alerts", {c2.alerts[i] : i \in DOMAIN c2.alerts})
           x == own ++ EvalContext(d, m)
           y == own2 ++ EvalContext(d2, m2)
<1>1. CASE act.op \in Registered
  <2>1. ASSUME NEW n \in N PROVE Same(x, y, n)
    <3>1. Same(EvalContext(d, m), EvalContext(d2, m2), n)
      BY DEF SameAt
    <3>2. Same(own, own2, n)
      <4>1. CASE n = "alerts"
        <5>1. own = own2
          BY <4>1 DEF SameAt
        <5> QED
          BY <5>1 DEF Same
      <4>2. CASE n # "alerts"
        <5>1. DOMAIN own = {"alerts"} /\ DOMAIN own2 = {"alerts"}
          BY DEF Entry
        <5> QED
          BY <4>2, <5>1 DEF Same
      <4> QED
        BY <4>1, <4>2
    <3> HIDE DEF own, own2
    <3> QED
      BY <3>1, <3>2, SameMerge
  <2>2. /\ ActionResult(act, d, m, c.alerts, a) = Execute(act.op, act.params, x, a)
        /\ ActionResult(act, d2, m2, c2.alerts, a) = Execute(act.op, act.params, y, a)
    BY <1>1 DEF ActionResult
  <2> HIDE DEF x, y
  <2> QED
    BY <1>1, <2>1, <2>2, OperatorReadsAll
<1>2. CASE act.op \notin Registered
  <2>1. /\ ActionResult(act, d, m, c.alerts, a) = LegacyAction(act, m)
        /\ ActionResult(act, d2, m2, c2.alerts, a) = LegacyAction(act, m2)
    BY <1>2 DEF ActionResult
  <2>2. CASE act.op # "generate_decision"
    BY <2>1, <2>2 DEF LegacyAction
  <2>3. CASE act.op = "generate_decision"
    <3>1. N = {"credit_score", "guarantee_chain_depth"}
      BY <2>3 DEF OperatorReads
    <3>2. /\ Get(m, "credit_score", 0) = Get(m2, "credit_score", 0)
          /\ Get(m, "guarantee_chain_depth", 0) = Get(m2, "guarantee_chain_depth", 0)
      BY <3>1, SameGet DEF SameAt
    <3>3. DecisionRaises(m) = DecisionRaises(m2) /\ GeneratedDecision(m) = GeneratedDecision(m2)
      BY <3>2 DEF DecisionRaises, GeneratedDecision
    <3> QED
      BY <2>1, <3>3 DEF LegacyAction
  <2> QED
    BY <2>2, <2>3
<1> QED
  BY <1>1, <1>2

\* Effects that report the same and write the same over what they had.
SameEffect(e, c, e2, c2) ==
    /\ e.result = e2.result
    /\ \A n : Same(c.metrics, c2.metrics, n) => Same(e.metrics, e2.metrics, n)
    /\ c.alerts = c2.alerts => e.alerts = e2.alerts

LEMMA SameActionEffect ==
    ASSUME NEW r, NEW act, NEW passed, NEW res, NEW c, NEW c2
    PROVE  SameEffect(ActionEffect(r, act, c.metrics, c.alerts, passed, res), c,
                      ActionEffect(r, act, c2.metrics, c2.alerts, passed, res), c2)
<1> DEFINE kept == [k \in DOMAIN res.out \ {"error", "alert_triggered"} |-> res.out[k]]
           wrote == act.op \in Registered \/ act.op = "generate_decision"
           raised == act.op \in Registered /\ "alert_triggered" \in DOMAIN res.out
           m == c.metrics
           m2 == c2.metrics
           e == ActionEffect(r, act, m, c.alerts, passed, res)
           e2 == ActionEffect(r, act, m2, c2.alerts, passed, res)
<1>1. CASE act.op = "none" \/ res.raised
  <2>1. /\ e.result = e2.result /\ e.metrics = m /\ e2.metrics = m2
        /\ e.alerts = c.alerts /\ e2.alerts = c2.alerts
    BY <1>1 DEF ActionEffect, Effect
  <2> HIDE DEF e, e2
  <2>2. SameEffect(e, c, e2, c2)
    BY <2>1 DEF SameEffect
  <2> QED
    BY <2>2 DEF e, e2
<1>2. CASE ~(act.op = "none" \/ res.raised)
  <2>1. /\ e.result = e2.result
        /\ e.metrics = IF wrote THEN kept ++ m ELSE m
        /\ e2.metrics = IF wrote THEN kept ++ m2 ELSE m2
        /\ e.alerts = IF raised THEN Append(c.alerts, res.out.level) ELSE c.alerts
        /\ e2.alerts = IF raised THEN Append(c2.alerts, res.out.level) ELSE c2.alerts
    BY <1>2 DEF ActionEffect, Effect
  <2>2. \A n : Same(kept, kept, n)
    BY DEF Same
  <2> HIDE DEF e, e2, kept, wrote, raised
  <2>3. \A n : Same(m, m2, n) => Same(kept ++ m, kept ++ m2, n)
    BY <2>2, SameMerge
  <2>4. SameEffect(e, c, e2, c2)
    BY <2>1, <2>3 DEF SameEffect
  <2> QED
    BY <2>4 DEF e, e2
<1> QED
  BY <1>1, <1>2

LEMMA SameAction ==
    ASSUME NEW r, NEW act, NEW passed, NEW a, NEW d, NEW c, NEW d2, NEW c2,
           SameAt(OperatorReads(act.op, act.params), d, c, d2, c2)
    PROVE  SameEffect(ExecuteAction(r, act, d, c.metrics, c.alerts, passed, a), c,
                      ExecuteAction(r, act, d2, c2.metrics, c2.alerts, passed, a), c2)
<1>1. ActionResult(act, d, c.metrics, c.alerts, a) = ActionResult(act, d2, c2.metrics, c2.alerts, a)
  BY ActionReads
<1> QED
  BY <1>1, SameActionEffect DEF ExecuteAction
\* What is the same below more metrics that are the same.
LEMMA SameBelow ==
    ASSUME NEW n, NEW d, NEW d2, NEW m, NEW m2, Same(m, m2, n), Same(m ++ d, m2 ++ d2, n),
           NEW s, NEW s2, Same(s, s2, n), n \in DOMAIN m => n \in DOMAIN s
    PROVE  Same(s ++ d, s2 ++ d2, n)
<1>1. CASE n \in DOMAIN s
  BY <1>1, SameMerge
<1>2. CASE n \notin DOMAIN s
  <2>1. n \notin DOMAIN m /\ n \notin DOMAIN m2
    BY <1>2 DEF Same
  <2>2. /\ DOMAIN (m ++ d) = DOMAIN m \cup DOMAIN d
        /\ \A k \in DOMAIN d \ DOMAIN m : (m ++ d)[k] = d[k]
    BY MergeFacts
  <2>3. /\ DOMAIN (m2 ++ d2) = DOMAIN m2 \cup DOMAIN d2
        /\ \A k \in DOMAIN d2 \ DOMAIN m2 : (m2 ++ d2)[k] = d2[k]
    BY MergeFacts
  <2>4. Same(d, d2, n)
    BY <2>1, <2>2, <2>3 DEF Same
  <2> QED
    BY <2>4, SameMerge
<1> QED
  BY <1>1, <1>2

LEMMA SameThen ==
    ASSUME NEW r \in RuleIds, NEW a, NEW d, NEW c, NEW d2, NEW c2,
           SameAt(Reads(r), d, c, d2, c2)
    PROVE  SameEffect(ExecuteThen(r, d, c.metrics, c.alerts, a), c,
                      ExecuteThen(r, d2, c2.metrics, c2.alerts, a), c2)
<1> DEFINE m == c.metrics
           m2 == c2.metrics
           key == Rule[r].id_result
           e == ExecuteThen(r, d, m, c.alerts, a)
           e2 == ExecuteThen(r, d2, m2, c2.alerts, a)
           N == OperatorReads(Rule[r].then.op, Rule[r].then.params)
<1>1. N \subseteq Reads(r)
  BY DEF Reads
<1>2. CASE Rule[r].formula = NULL
  <2>1. SameAt(N, d, c, d2, c2)
    BY <1>1 DEF SameAt
  <2>2. /\ e = ExecuteAction(r, Rule[r].then, d, m, c.alerts, TRUE, a)
        /\ e2 = ExecuteAction(r, Rule[r].then, d2, m2, c2.alerts, TRUE, a)
    BY <1>2 DEF ExecuteThen, WithFormula
  <2> HIDE DEF e, e2
  <2>3. SameEffect(e, c, e2, c2)
    BY <2>1, <2>2, SameAction
  <2> QED
    BY <2>3 DEF e, e2
<1>3. CASE Rule[r].formula # NULL
  <2>1. Rule[r].formula \in Reads(r)
    BY <1>3 DEF Reads
  <2>2. FormulaValue(r, d, m) = FormulaValue(r, d2, m2)
    BY <2>1, SameGet DEF SameAt, FormulaValue
  <2>3. CASE FormulaValue(r, d, m) = NULL
    <3>1. /\ e.result = e2.result /\ e.metrics = m /\ e2.metrics = m2
          /\ e.alerts = c.alerts /\ e2.alerts = c2.alerts
      BY <1>3, <2>2, <2>3 DEF ExecuteThen, Effect
    <3> HIDE DEF e, e2
    <3>2. SameEffect(e, c, e2, c2)
      BY <3>1 DEF SameEffect
    <3> QED
      BY <3>2 DEF e, e2
  <2>4. CASE FormulaValue(r, d, m) # NULL
    <3> DEFINE f == Entry(key, FormulaValue(r, d, m))
               s == f ++ m
               s2 == f ++ m2
               b == Context(s, c.alerts, c.results)
               b2 == Context(s2, c2.alerts, c2.results)
    <3>1. s = WithFormula(r, d, m) /\ s2 = WithFormula(r, d2, m2)
      BY <1>3, <2>2 DEF WithFormula
    <3>2. /\ b.metrics = s /\ b.alerts = c.alerts
          /\ b2.metrics = s2 /\ b2.alerts = c2.alerts
      BY DEF Context
    <3> HIDE DEF f
    <3>3. DOMAIN s = DOMAIN f \cup DOMAIN m
      BY MergeFacts
    <3>4. \A n : Same(f, f, n)
      BY DEF Same
    <3>5. \A n : Same(m, m2, n) => Same(s, s2, n)
      BY <3>4, SameMerge
    <3> HIDE DEF b, b2, s, s2
    <3>6. SameAt(N, d, b, d2, b2)
      <4>1. ASSUME NEW n \in N
            PROVE  Same(EvalContext(d, s), EvalContext(d2, s2), n) /\ Same(s, s2, n)
        <5>1. Same(m ++ d, m2 ++ d2, n) /\ Same(m, m2, n)
          BY <1>1 DEF SameAt, EvalContext
        <5>2. Same(s, s2, n)
          BY <3>5, <5>1
        <5>3. Same(s ++ d, s2 ++ d2, n)
          BY <3>3, <5>1, <5>2, SameBelow
        <5> QED
          BY <5>2, <5>3 DEF EvalContext
      <4> QED
        BY <1>1, <3>2, <4>1 DEF SameAt
    <3>7. /\ e = ExecuteAction(r, Rule[r].then, d, b.metrics, b.alerts, TRUE, a)
          /\ e2 = ExecuteAction(r, Rule[r].then, d2, b2.metrics, b2.alerts, TRUE, a)
      BY <1>3, <2>2, <2>4, <3>1, <3>2 DEF ExecuteThen
    <3> HIDE DEF e, e2
    <3>8. SameEffect(e, b, e2, b2)
      BY <3>6, <3>7, SameAction
    <3>9. SameEffect(e, c, e2, c2)
      BY <3>2, <3>5, <3>8 DEF SameEffect
    <3> QED
      BY <3>9 DEF e, e2
  <2> QED
    BY <2>3, <2>4
<1> QED
  BY <1>2, <1>3

\* A rule that reads the same does the same.
LEMMA SameRule ==
    ASSUME NEW r \in RuleIds, NEW a, NEW d, NEW c, NEW d2, NEW c2,
           SameAt(Reads(r), d, c, d2, c2)
    PROVE  SameEffect(ExecuteRule(r, d, c.metrics, c.alerts, a), c,
                      ExecuteRule(r, d2, c2.metrics, c2.alerts, a), c2)
<1> DEFINE when == Rule[r].when
           x == EvalContext(d, c.metrics)
           y == EvalContext(d2, c2.metrics)
           met == Evaluate(when, x)
           e == ExecuteRule(r, d, c.metrics, c.alerts, a)
           e2 == ExecuteRule(r, d2, c2.metrics, c2.alerts, a)
<1>1. met = Evaluate(when, y)
  <2>1. \A i \in DOMAIN when.atoms : when.atoms[i].field \in Reads(r)
    BY DEF Reads
  <2>2. \A i \in DOMAIN when.atoms : Same(x, y, when.atoms[i].field)
    BY <2>1 DEF SameAt
  <2>3. DOMAIN when.atoms \subseteq Nat
    BY ExecutionAssumption
  <2> HIDE DEF when, x, y
  <2> QED
    BY <2>2, <2>3, ConditionReads
<1>2. ASSUME NEW passed, NEW error, NEW out,
             e = Effect(r, c.metrics, c.alerts, passed, error, out),
             e2 = Effect(r, c2.metrics, c2.alerts, passed, error, out)
      PROVE  SameEffect(e, c, e2, c2)
  <2>1. /\ e.result = e2.result /\ e.metrics = c.metrics /\ e2.metrics = c2.metrics
        /\ e.alerts = c.alerts /\ e2.alerts = c2.alerts
    BY <1>2 DEF Effect
  <2> HIDE DEF e, e2
  <2> QED
    BY <2>1 DEF SameEffect
<1>3. CASE met = "raised"
  <2>1. /\ e = Effect(r, c.metrics, c.alerts, FALSE, TRUE, Nothing)
        /\ e2 = Effect(r, c2.metrics, c2.alerts, FALSE, TRUE, Nothing)
    BY <1>1, <1>3, RuleRaised
  <2> HIDE DEF e, e2
  <2>2. SameEffect(e, c, e2, c2)
    BY <1>2, <2>1
  <2> QED
    BY <2>2 DEF e, e2
<1>4. CASE met = "true"
  <2>1. /\ e = ExecuteThen(r, d, c.metrics, c.alerts, a)
        /\ e2 = ExecuteThen(r, d2, c2.metrics, c2.alerts, a)
    BY <1>1, <1>4, RuleHolds
  <2> HIDE DEF e, e2
  <2>2. SameEffect(e, c, e2, c2)
    BY <2>1, SameThen
  <2> QED
    BY <2>2 DEF e, e2
<1>5. CASE met = "false" /\ Rule[r].else_.op # "none"
  <2>1. /\ e = ExecuteAction(r, Rule[r].else_, d, c.metrics, c.alerts, FALSE, a)
        /\ e2 = ExecuteAction(r, Rule[r].else_, d2, c2.metrics, c2.alerts, FALSE, a)
    BY <1>1, <1>5, RuleElse
  <2>2. OperatorReads(Rule[r].else_.op, Rule[r].else_.params) \subseteq Reads(r)
    BY DEF Reads
  <2>3. SameAt(OperatorReads(Rule[r].else_.op, Rule[r].else_.params), d, c, d2, c2)
    BY <2>2 DEF SameAt
  <2> HIDE DEF e, e2
  <2>4. SameEffect(e, c, e2, c2)
    BY <2>1, <2>3, SameAction
  <2> QED
    BY <2>4 DEF e, e2
<1>6. CASE met = "false" /\ Rule[r].else_.op = "none"
  <2>1. /\ e = Effect(r, c.metrics, c.alerts, FALSE, FALSE, [skipped |-> TRUE])
        /\ e2 = Effect(r, c2.metrics, c2.alerts, FALSE, FALSE, [skipped |-> TRUE])
    BY <1>1, <1>6, RuleSkipped
  <2> HIDE DEF e, e2
  <2>2. SameEffect(e, c, e2, c2)
    BY <1>2, <2>1
  <2> QED
    BY <2>2 DEF e, e2
<1>7. met \in {"raised", "true", "false"}
  BY EvaluateValues
<1> QED
  BY <1>3, <1>4, <1>5, <1>6, <1>7
\* A context only ever gets more reports.
Adds(c, next) == next = c \/ \E x : next.results = Append(c.results, x)

LEMMA MovesReport ==
    ASSUME NEW p, NEW d, NEW c, NEW r, NEW next, Moves(p, d, c, r, next)
    PROVE  Adds(c, next)
<1>1. CASE ~Applies(p, r)
  BY <1>1 DEF Moves, Adds
<1>2. CASE Applies(p, r)
  <2>1. PICK a : next = Ran(p, d, c, r, a)
    BY <1>2 DEF Moves
  <2> DEFINE e == IF p = "steps" THEN SimulateStep(r, d, c.metrics, a)
                  ELSE ExecuteRule(r, d, c.metrics, c.alerts, a)
  <2>2. next.results = Append(c.results, e.result)
    BY <2>1 DEF Ran, Context
  <2> QED
    BY <2>2 DEF Adds
<1> QED
  BY <1>1, <1>2

ReportsIn(c, later) ==
    \A j \in DOMAIN c.results : j \in DOMAIN later.results /\ later.results[j] = c.results[j]

LEMMA ResultsAreSeq ==
    ASSUME NEW p, NEW seq, NEW d, NEW n \in Nat, NEW h, History(h, p, seq, d, n)
    PROVE  IsSeq(h[n].results)
<1> DEFINE T == {k \in Nat : k <= n => IsSeq(h[k].results)}
<1>1. 0 \in T
  <2>1. h[0] = Blank
    BY DEF History
  <2> QED
    BY <2>1, NoElements DEF Blank, Context
<1>2. ASSUME NEW k \in Nat, k \in T PROVE k + 1 \in T
  <2>1. CASE k + 1 <= n
    <3>1. k + 1 \in 1..n /\ (k + 1) - 1 = k /\ IsSeq(h[k].results)
      BY <1>2, <2>1
    <3>2. Moves(p, d, h[k], seq[k + 1], h[k + 1])
      BY <3>1 DEF History
    <3>3. Adds(h[k], h[k + 1])
      BY <3>2, MovesReport
    <3>4. \A x : IsSeq(Append(h[k].results, x))
      BY <3>1, Appended
    <3>5. IsSeq(h[k + 1].results)
      BY <3>1, <3>3, <3>4 DEF Adds
    <3> QED
      BY <3>5
  <2>2. CASE ~(k + 1 <= n)
    BY <2>2
  <2> QED
    BY <2>1, <2>2
<1>3. n \in T
  <2> HIDE DEF T
  <2> QED
    BY <1>1, <1>2, Induction
<1> QED
  BY <1>3

LEMMA ReportsKept ==
    ASSUME NEW p, NEW seq, NEW d, NEW n \in Nat, NEW h, History(h, p, seq, d, n),
           NEW k \in 0..n
    PROVE  ReportsIn(h[k], h[n])
<1> SUFFICES ASSUME NEW j \in DOMAIN h[k].results
             PROVE  j \in DOMAIN h[n].results /\ h[n].results[j] = h[k].results[j]
  BY DEF ReportsIn
<1> DEFINE Kept(i) == j \in DOMAIN h[i].results /\ h[i].results[j] = h[k].results[j]
           T == {i \in Nat : k <= i /\ i <= n => Kept(i)}
<1>1. 0 \in T
  <2>1. k <= 0 => k = 0
    OBVIOUS
  <2> QED
    BY <2>1
<1>2. ASSUME NEW i \in Nat, i \in T PROVE i + 1 \in T
  <2>1. SUFFICES ASSUME k <= i + 1, i + 1 <= n PROVE Kept(i + 1)
    OBVIOUS
  <2>2. CASE k = i + 1
    BY <2>2
  <2>3. CASE k # i + 1
    <3>1. Kept(i) /\ i \in 0..n /\ i + 1 \in 1..n /\ (i + 1) - 1 = i
      BY <1>2, <2>1, <2>3
    <3>2. History(h, p, seq, d, i)
      BY <3>1 DEF History
    <3>3. IsSeq(h[i].results)
      BY <3>2, ResultsAreSeq
    <3>4. Moves(p, d, h[i], seq[i + 1], h[i + 1])
      BY <3>1 DEF History
    <3>5. Adds(h[i], h[i + 1])
      BY <3>4, MovesReport
    <3>6. CASE h[i + 1] = h[i]
      BY <3>1, <3>6
    <3>7. CASE \E x : h[i + 1].results = Append(h[i].results, x)
      <4>1. PICK x : h[i + 1].results = Append(h[i].results, x)
        BY <3>7
      <4>2. /\ DOMAIN Append(h[i].results, x) = 1..(Len(h[i].results) + 1)
            /\ \A l \in DOMAIN h[i].results : Append(h[i].results, x)[l] = h[i].results[l]
            /\ Len(h[i].results) \in Nat /\ DOMAIN h[i].results = 1..Len(h[i].results)
        BY <3>3, Appended, SeqDomain
      <4> QED
        BY <3>1, <4>1, <4>2
    <3> QED
      BY <3>5, <3>6, <3>7 DEF Adds
  <2> QED
    BY <2>2, <2>3
<1>3. n \in T
  <2> HIDE DEF T
  <2> QED
    BY <1>1, <1>2, Induction
<1> QED
  BY <1>3

\* Context c is what effect e made of the one before, and its report is rs[i].
Effected(c, e, rs, i) ==
    /\ c.metrics = e.metrics /\ c.alerts = e.alerts
    /\ i \in DOMAIN rs /\ rs[i] = e.result

\* What an applicable rule without llm_judge does, and where its report is
\* found among those of the whole pass.
LEMMA StepReported ==
    ASSUME NEW p, p # "steps", NEW seq, NEW d, NEW n \in Nat, NEW h, History(h, p, seq, d, n),
           NEW k \in 1..n, Applies(p, seq[k]), NoJudge(seq[k])
    PROVE  Effected(h[k], ExecuteRule(seq[k], d, h[k - 1].metrics, h[k - 1].alerts, FALSE),
                    h[n].results, AppliedAmong(p, seq, k))
<1> DEFINE c == h[k - 1]
           Effects(a) == ExecuteRule(seq[k], d, c.metrics, c.alerts, a)
           e == Effects(FALSE)
           after == Append(c.results, e.result)
           i == AppliedAmong(p, seq, k)
<1>1. PICK a : h[k] = Ran(p, d, c, seq[k], a)
  BY DEF History, Moves
<1>2. Effects(a) = e
  BY RuleIgnoresModel
<1>3. h[k].metrics = e.metrics /\ h[k].alerts = e.alerts /\ h[k].results = after
  <2>1. h[k] = Context(e.metrics, e.alerts, after)
    BY <1>1, <1>2 DEF Ran
  <2> HIDE DEF e, after
  <2> QED
    BY <2>1 DEF Context
<1>4. Explains(p, seq, k - 1, c)
  <2>1. k - 1 \in Nat /\ History(h, p, seq, d, k - 1)
    BY DEF History
  <2> QED
    BY <2>1, HistoryExplains
<1>5. k - 1 \in Nat /\ (k - 1) + 1 = k
  OBVIOUS
<1>6. i = Len(c.results) + 1
  <2>1. AppliedAmong(p, seq, (k - 1) + 1) = AppliedAmong(p, seq, k - 1) + 1
    BY <1>5, AppliedStep
  <2> QED
    BY <1>4, <1>5, <2>1 DEF Explains, ReportedAmong
<1>7. i \in DOMAIN h[k].results /\ h[k].results[i] = e.result
  <2>1. /\ Len(c.results) \in Nat
        /\ DOMAIN after = 1..(Len(c.results) + 1) /\ after[Len(c.results) + 1] = e.result
    BY <1>4, Appended, SeqDomain DEF Explains
  <2> HIDE DEF after, i
  <2> QED
    BY <1>3, <1>6, <2>1
<1>8. k \in 0..n
  OBVIOUS
<1>9. i \in DOMAIN h[n].results /\ h[n].results[i] = e.result
  <2>1. ReportsIn(h[k], h[n])
    BY <1>8, ReportsKept
  <2> HIDE DEF i, e
  <2> QED
    BY <1>7, <2>1 DEF ReportsIn
<1> QED
  BY <1>3, <1>9 DEF Effected

\* Alerts are raised only by a rule that reports it.
AlertsAfter(as, e) ==
    \/ e.alerts = as
    \/ "alert_triggered" \in DOMAIN e.result.out /\ \E level : e.alerts = Append(as, level)

LEMMA ActionAlerts ==
    ASSUME NEW r, NEW act, NEW m, NEW as, NEW passed, NEW res, NEW e,
           e = ActionEffect(r, act, m, as, passed, res)
    PROVE  AlertsAfter(as, e)
  BY DEF ActionEffect, Effect, AlertsAfter

LEMMA RuleAlerts ==
    ASSUME NEW r, NEW d, NEW m, NEW as, NEW a, NEW e, e = ExecuteRule(r, d, m, as, a)
    PROVE  AlertsAfter(as, e)
<1> DEFINE met == Evaluate(Rule[r].when, EvalContext(d, m))
<1>1. CASE met = "raised"
  <2>1. e = Effect(r, m, as, FALSE, TRUE, Nothing)
    BY <1>1, RuleRaised
  <2> QED
    BY <2>1 DEF Effect, AlertsAfter
<1>2. CASE met = "true"
  <2>1. e = ExecuteThen(r, d, m, as, a)
    BY <1>2, RuleHolds
  <2>2. CASE Rule[r].formula # NULL /\ FormulaValue(r, d, m) = NULL
    BY <2>1, <2>2 DEF ExecuteThen, Effect, AlertsAfter
  <2>3. CASE ~(Rule[r].formula # NULL /\ FormulaValue(r, d, m) = NULL)
    <3>1. PICK s, res : e = ActionEffect(r, Rule[r].then, s, as, TRUE, res)
      BY <2>1, <2>3 DEF ExecuteThen, ExecuteAction
    <3> QED
      BY <3>1, ActionAlerts
  <2> QED
    BY <2>2, <2>3
<1>3. CASE met = "false" /\ Rule[r].else_.op # "none"
  <2>1. e = ExecuteAction(r, Rule[r].else_, d, m, as, FALSE, a)
    BY <1>3, RuleElse
  <2>2. PICK res : e = ActionEffect(r, Rule[r].else_, m, as, FALSE, res)
    BY <2>1 DEF ExecuteAction
  <2> QED
    BY <2>2, ActionAlerts
<1>4. CASE met = "false" /\ Rule[r].else_.op = "none"
  <2>1. e = Effect(r, m, as, FALSE, FALSE, [skipped |-> TRUE])
    BY <1>4, RuleSkipped
  <2> QED
    BY <2>1 DEF Effect, AlertsAfter
<1> QED
  BY <1>1, <1>2, <1>3, <1>4, EvaluateValues
\* A baseline and a what-if on a chain without llm_judge, both over.
Compared(g, h, seq, n) ==
    /\ n \in Nat /\ DOMAIN seq = 1..n
    /\ \A k \in 1..n : seq[k] \in RuleIds /\ NoJudge(seq[k])
    /\ History(g, "baseline", seq, entity, n)
    /\ outcome["baseline"].results = g[n].results
    /\ History(h, "simulated", seq, ApplyOverrides(entity), n)
    /\ outcome["simulated"].results = h[n].results

BaselineStep(g, seq, k) ==
    ExecuteRule(seq[k], entity, g[k - 1].metrics, g[k - 1].alerts, FALSE)

SimulatedStep(h, seq, k) ==
    ExecuteRule(seq[k], ApplyOverrides(entity), h[k - 1].metrics, h[k - 1].alerts, FALSE)

LEMMA SameApplied ==
    ASSUME NEW seq, NEW k
    PROVE  /\ Applies("baseline", seq[k]) <=> Applies("simulated", seq[k])
           /\ AppliedAmong("baseline", seq, k) = AppliedAmong("simulated", seq, k)
<1>1. \A r : Applies("baseline", r) <=> Applies("simulated", r)
  BY DEF Applies
<1>2. {i \in 1..k : Applies("baseline", seq[i])} = {i \in 1..k : Applies("simulated", seq[i])}
  BY <1>1
<1> QED
  BY <1>1, <1>2 DEF AppliedAmong

LEMMA ComparedStep ==
    ASSUME NEW g, NEW h, NEW seq, NEW n, Compared(g, h, seq, n),
           NEW k \in 1..n, Applies("simulated", seq[k])
    PROVE  /\ Effected(g[k], BaselineStep(g, seq, k), outcome["baseline"].results,
                       AppliedAmong("baseline", seq, k))
           /\ Effected(h[k], SimulatedStep(h, seq, k), outcome["simulated"].results,
                       AppliedAmong("baseline", seq, k))
<1>1. /\ Applies("baseline", seq[k]) /\ NoJudge(seq[k]) /\ n \in Nat
      /\ AppliedAmong("baseline", seq, k) = AppliedAmong("simulated", seq, k)
  BY SameApplied DEF Compared
<1>2. Effected(g[k], BaselineStep(g, seq, k), g[n].results, AppliedAmong("baseline", seq, k))
  BY <1>1, StepReported DEF Compared, BaselineStep
<1>3. Effected(h[k], SimulatedStep(h, seq, k), h[n].results, AppliedAmong("simulated", seq, k))
  BY <1>1, StepReported DEF Compared, SimulatedStep
<1> QED
  BY <1>1, <1>2, <1>3 DEF Compared

\* Touched holds what a rule wrote or may have written in either run.
LEMMA TouchedCovers ==
    ASSUME NEW r, NEW p \in {"baseline", "simulated"},
           NEW i \in DOMAIN outcome["baseline"].results,
           NEW res, res = outcome[p].results[i], res.rule = r
    PROVE  /\ Rule[r].id_result \in Touched(r)
           /\ DOMAIN res.out \subseteq Touched(r)
           /\ "alert_triggered" \in DOMAIN res.out => "alerts" \in Touched(r)
<1> DEFINE outs == {outcome[q].results[j] : j \in DOMAIN outcome["baseline"].results,
                                            q \in {"baseline", "simulated"}}
           names == UNION {DOMAIN x.out : x \in {y \in outs : y.rule = r}}
<1>1. res \in outs
  OBVIOUS
<1>2. Touched(r) = names \cup {Rule[r].id_result}
                   \cup (IF "alert_triggered" \in names THEN {"alerts"} ELSE {})
  BY DEF Touched
<1> HIDE DEF outs
<1>3. DOMAIN res.out \subseteq names
  BY <1>1
<1> HIDE DEF names
<1> QED
  BY <1>2, <1>3

LEMMA ComparedTouched ==
    ASSUME NEW g, NEW h, NEW seq, NEW n, Compared(g, h, seq, n),
           NEW k \in 1..n, Applies("simulated", seq[k]),
           NEW e \in {BaselineStep(g, seq, k), SimulatedStep(h, seq, k)}
    PROVE  /\ Rule[seq[k]].id_result \in Touched(seq[k])
           /\ DOMAIN e.result.out \subseteq Touched(seq[k])
           /\ "alert_triggered" \in DOMAIN e.result.out => "alerts" \in Touched(seq[k])
<1> DEFINE i == AppliedAmong("baseline", seq, k)
<1>1. /\ i \in DOMAIN outcome["baseline"].results
      /\ outcome["baseline"].results[i] = BaselineStep(g, seq, k).result
      /\ outcome["simulated"].results[i] = SimulatedStep(h, seq, k).result
  <2>1. /\ Effected(g[k], BaselineStep(g, seq, k), outcome["baseline"].results, i)
        /\ Effected(h[k], SimulatedStep(h, seq, k), outcome["simulated"].results, i)
    BY ComparedStep
  <2> HIDE DEF i
  <2> QED
    BY <2>1 DEF Effected
<1>2. e.result.rule = seq[k]
  <2>1. \E d, c : e = ExecuteRule(seq[k], d, c.metrics, c.alerts, FALSE)
    BY DEF BaselineStep, SimulatedStep
  <2>2. \E m : Reports(seq[k], m, e)
    BY <2>1, RuleReports
  <2> QED
    BY <2>2 DEF Reports
<1> HIDE DEF i
<1>3. \E p \in {"baseline", "simulated"} : e.result = outcome[p].results[i]
  BY <1>1
<1> QED
  BY <1>1, <1>2, <1>3, TouchedCovers

\* What a rule leaves alone: names that it is not reported to have written.
LEMMA Untouched ==
    ASSUME NEW r, NEW d, NEW c, NEW a,
           NEW e, e = ExecuteRule(r, d, c.metrics, c.alerts, a),
           NEW name, name \notin DOMAIN e.result.out, name # Rule[r].id_result
    PROVE  Same(e.metrics, c.metrics, name)
<1>1. Reports(r, c.metrics, e)
  BY RuleReports
<1>2. ~Wrote(e.result, name) /\ ~StoredFormula(e.result, name)
  BY <1>1 DEF Wrote, StoredFormula, Reports
<1> QED
  BY <1>1, <1>2 DEF Reports, Same
\* Outside of what the overrides reach through the first k places, the two
\* runs have computed the same.
UnreachedSame(g, h, R, k) ==
    /\ \A name : name \notin R => Same(g[k].metrics, h[k].metrics, name)
    /\ "alerts" \notin R => g[k].alerts = h[k].alerts

LEMMA ReachedMembers ==
    ASSUME NEW seq, NEW places, NEW k, NEW x
    PROVE  x \in ReachedFrom(seq, places, k)
               <=> \/ x \in DOMAIN overrides /\ (x \in DOMAIN entity => entity[x] # overrides[x])
                   \/ \E j \in places : j < k /\ x \in Touched(seq[j])
  BY DEF ReachedFrom

LEMMA ReachedGrows ==
    ASSUME NEW seq, NEW places \in SUBSET Nat, NEW k \in Nat
    PROVE  /\ ReachedFrom(seq, places, k) \subseteq ReachedFrom(seq, places, k + 1)
           /\ k \in places => Touched(seq[k]) \subseteq ReachedFrom(seq, places, k + 1)
           /\ k \notin places => ReachedFrom(seq, places, k + 1) = ReachedFrom(seq, places, k)
<1>1. \A j \in places : j < k => j < k + 1
  OBVIOUS
<1>2. \A j \in places : j < k + 1 => j < k \/ j = k
  OBVIOUS
<1>3. k < k + 1
  OBVIOUS
<1> DEFINE R(l) == ReachedFrom(seq, places, l)
           Changed(x) == x \in DOMAIN overrides /\ (x \in DOMAIN entity => entity[x] # overrides[x])
<1>4. \A l, x : x \in R(l) <=> Changed(x) \/ \E j \in places : j < l /\ x \in Touched(seq[j])
  BY ReachedMembers
<1> HIDE DEF R, Changed
<1>5. R(k) \subseteq R(k + 1)
  <2>1. ASSUME NEW x \in R(k) PROVE x \in R(k + 1)
    BY <1>1, <1>4
  <2> QED
    BY <2>1
<1>6. ASSUME k \in places PROVE Touched(seq[k]) \subseteq R(k + 1)
  BY <1>3, <1>4, <1>6
<1>7. ASSUME k \notin places PROVE R(k + 1) = R(k)
  <2>1. ASSUME NEW x \in R(k + 1) PROVE x \in R(k)
    BY <1>2, <1>4, <1>7
  <2> QED
    BY <1>5, <2>1
<1> QED
  BY <1>5, <1>6, <1>7 DEF R

LEMMA UnchangedAttributes ==
    ASSUME NEW seq, NEW places, NEW k, NEW name, name \notin ReachedFrom(seq, places, k)
    PROVE  Same(entity, ApplyOverrides(entity), name)
<1>1. name \in DOMAIN overrides => name \in DOMAIN entity /\ entity[name] = overrides[name]
  BY DEF ReachedFrom
<1>2. /\ DOMAIN (overrides ++ entity) = DOMAIN overrides \cup DOMAIN entity
      /\ \A n \in DOMAIN overrides : (overrides ++ entity)[n] = overrides[n]
      /\ \A n \in DOMAIN entity \ DOMAIN overrides : (overrides ++ entity)[n] = entity[n]
  BY MergeFacts
<1> QED
  BY <1>1, <1>2 DEF Same, ApplyOverrides

LEMMA UnreachedStep ==
    ASSUME NEW g, NEW h, NEW seq, NEW n, Compared(g, h, seq, n),
           NEW places \in SUBSET Nat, ClosedUnderReading(seq, places),
           NEW k \in Nat, k + 1 \in 1..n,
           UnreachedSame(g, h, ReachedFrom(seq, places, k + 1), k)
    PROVE  UnreachedSame(g, h, ReachedFrom(seq, places, (k + 1) + 1), k + 1)
<1> DEFINE i == k + 1
           r == seq[i]
           R == ReachedFrom(seq, places, i)
           S == ReachedFrom(seq, places, i + 1)
           c == g[k]
           c2 == h[k]
           e == BaselineStep(g, seq, i)
           e2 == SimulatedStep(h, seq, i)
<1>1. /\ i \in Nat /\ i - 1 = k /\ R \subseteq S /\ i \in 1..n
      /\ i \in places => Touched(r) \subseteq S
  BY ReachedGrows
<1>4. /\ \A name : name \notin R => Same(c.metrics, c2.metrics, name)
      /\ "alerts" \notin R => c.alerts = c2.alerts
  BY DEF UnreachedSame
<1>2. CASE ~Applies("simulated", r)
  <2>1. /\ Moves("baseline", entity, g[i - 1], r, g[i])
        /\ Moves("simulated", ApplyOverrides(entity), h[i - 1], r, h[i])
    BY <1>1 DEF Compared, History
  <2>2. ~Applies("baseline", r)
    BY <1>2, SameApplied
  <2>3. g[i] = c /\ h[i] = c2
    BY <1>1, <1>2, <2>1, <2>2 DEF Moves
  <2> HIDE DEF R, S, i
  <2>4. UnreachedSame(g, h, S, i)
    BY <1>1, <1>4, <2>3 DEF UnreachedSame
  <2> QED
    BY <2>4 DEF S, i
<1>3. CASE Applies("simulated", r)
  <2>1. /\ g[i].metrics = e.metrics /\ g[i].alerts = e.alerts
        /\ h[i].metrics = e2.metrics /\ h[i].alerts = e2.alerts
    <3>1. \E rs, j : Effected(g[i], e, rs, j)
      BY <1>1, <1>3, ComparedStep
    <3>2. \E rs, j : Effected(h[i], e2, rs, j)
      BY <1>1, <1>3, ComparedStep
    <3> QED
      BY <3>1, <3>2 DEF Effected
  <2>2. /\ e = ExecuteRule(r, entity, c.metrics, c.alerts, FALSE)
        /\ e2 = ExecuteRule(r, ApplyOverrides(entity), c2.metrics, c2.alerts, FALSE)
    BY <1>1 DEF BaselineStep, SimulatedStep
  <2>3. CASE i \in places
    <3>1. /\ DOMAIN e.result.out \subseteq Touched(r)
          /\ DOMAIN e2.result.out \subseteq Touched(r)
          /\ "alert_triggered" \in DOMAIN e.result.out \cup DOMAIN e2.result.out
                 => "alerts" \in Touched(r)
          /\ Rule[r].id_result \in Touched(r)
      BY <1>1, <1>3, ComparedTouched
    <3> HIDE DEF e, e2, S, R, r, i, c, c2
    <3>2. ASSUME NEW name, name \notin S
          PROVE  Same(e.metrics, e2.metrics, name)
      <4>1. Same(c.metrics, c2.metrics, name)
        BY <1>1, <1>4, <3>2
      <4>2. /\ name \notin DOMAIN e.result.out /\ name \notin DOMAIN e2.result.out
            /\ name # Rule[r].id_result
        BY <1>1, <2>3, <3>1, <3>2
      <4>3. Same(e.metrics, c.metrics, name) /\ Same(e2.metrics, c2.metrics, name)
        BY <2>2, <4>2, Untouched
      <4> QED
        BY <4>1, <4>3 DEF Same
    <3>3. ASSUME "alerts" \notin S PROVE e.alerts = e2.alerts
      <4>1. c.alerts = c2.alerts
        BY <1>1, <1>4, <3>3
      <4>2. ~("alert_triggered" \in DOMAIN e.result.out \cup DOMAIN e2.result.out)
        BY <1>1, <2>3, <3>1, <3>3
      <4>3. e.alerts = c.alerts /\ e2.alerts = c2.alerts
        BY <2>2, <4>2, RuleAlerts DEF AlertsAfter
      <4> QED
        BY <4>1, <4>3
    <3>4. UnreachedSame(g, h, S, i)
      BY <2>1, <3>2, <3>3 DEF UnreachedSame
    <3> QED
      BY <3>4 DEF S, i
  <2>4. CASE i \notin places
    <3>1. Reads(r) \cap R = {} /\ S = R
      <4>1. i \in DOMAIN seq
        BY <1>1 DEF Compared
      <4>2. S = R
        BY <1>1, <2>4, ReachedGrows
      <4> QED
        BY <1>3, <2>4, <4>1, <4>2 DEF ClosedUnderReading
    <3>2. SameAt(Reads(r), entity, c, ApplyOverrides(entity), c2)
      <4> HIDE DEF R, r, c, c2
      <4>1. ASSUME NEW name \in Reads(r)
            PROVE  /\ Same(c.metrics, c2.metrics, name)
                   /\ Same(EvalContext(entity, c.metrics),
                           EvalContext(ApplyOverrides(entity), c2.metrics), name)
        <5>1. name \notin R
          BY <3>1
        <5>2. Same(c.metrics, c2.metrics, name)
          BY <1>4, <5>1
        <5>3. Same(entity, ApplyOverrides(entity), name)
          BY <5>1, UnchangedAttributes DEF R
        <5> QED
          BY <5>2, <5>3, SameMerge DEF EvalContext
      <4>2. "alerts" \in Reads(r) => c.alerts = c2.alerts
        BY <1>4, <3>1
      <4> QED
        BY <4>1, <4>2 DEF SameAt
    <3>3. r \in RuleIds
      BY <1>1 DEF Compared
    <3>4. SameEffect(e, c, e2, c2)
      <4> HIDE DEF e, e2, r, c, c2
      <4> QED
        BY <2>2, <3>2, <3>3, SameRule
    <3> HIDE DEF e, e2, c, c2, R, S, i
    <3>5. UnreachedSame(g, h, S, i)
      BY <1>4, <2>1, <3>1, <3>4 DEF UnreachedSame, SameEffect
    <3> QED
      BY <3>5 DEF S, i
  <2> QED
    BY <2>3, <2>4
<1> QED
  BY <1>2, <1>3
LEMMA UnreachedHistory ==
    ASSUME NEW g, NEW h, NEW seq, NEW n, Compared(g, h, seq, n),
           NEW places \in SUBSET Nat, ClosedUnderReading(seq, places)
    PROVE  UnreachedSame(g, h, ReachedFrom(seq, places, n + 1), n)
<1> DEFINE Is(k) == UnreachedSame(g, h, ReachedFrom(seq, places, k + 1), k)
           T == {k \in Nat : k <= n => Is(k)}
<1>1. n \in Nat
  BY DEF Compared
<1>2. 0 \in T
  <2>1. g[0] = h[0]
    BY DEF Compared, History
  <2>2. Is(0)
    BY <2>1 DEF UnreachedSame, Same
  <2> QED
    BY <2>2
<1>3. ASSUME NEW k \in Nat, k \in T PROVE k + 1 \in T
  <2>1. CASE k + 1 <= n
    <3>1. Is(k) /\ k + 1 \in 1..n
      BY <1>1, <1>3, <2>1
    <3>2. Is(k + 1)
      BY <3>1, UnreachedStep
    <3> QED
      BY <3>2
  <2>2. CASE ~(k + 1 <= n)
    BY <2>2
  <2> QED
    BY <2>1, <2>2
<1>4. n \in T
  <2> HIDE DEF T
  <2> QED
    BY <1>1, <1>2, <1>3, Induction
<1> QED
  BY <1>1, <1>4

\* The least of the closed sets of places is closed itself.
LEMMA LeastIsClosed ==
    ASSUME NEW seq, NEW least,
           least = {k \in DOMAIN seq : \A places \in SUBSET (DOMAIN seq) :
                                          ClosedUnderReading(seq, places) => k \in places}
    PROVE  ClosedUnderReading(seq, least)
<1> SUFFICES ASSUME NEW k \in DOMAIN seq \ least, Applies("simulated", seq[k])
             PROVE  Reads(seq[k]) \cap ReachedFrom(seq, least, k) = {}
  BY DEF ClosedUnderReading
<1>1. PICK places \in SUBSET (DOMAIN seq) : ClosedUnderReading(seq, places) /\ k \notin places
  OBVIOUS
<1>2. Reads(seq[k]) \cap ReachedFrom(seq, places, k) = {}
  BY <1>1 DEF ClosedUnderReading
<1>3. least \subseteq places
  BY <1>1
<1>4. ReachedFrom(seq, least, k) \subseteq ReachedFrom(seq, places, k)
  BY <1>3, ReachedMembers
<1> QED
  BY <1>2, <1>4

LEMMA OverridesExplanation ==
    ASSUME HistoryInv
    PROVE  OverridesExplainDiffs
<1> DEFINE seq == Sequence("simulated")
           n == Len(seq)
           closed == {places \in SUBSET (DOMAIN seq) : ClosedUnderReading(seq, places)}
           least == {k \in DOMAIN seq : \A places \in closed : k \in places}
<1> SUFFICES ASSUME Over("baseline"), Over("simulated"), NoModel
             PROVE  /\ Comparison \subseteq Reached
                    /\ outcome["baseline"].alerts # outcome["simulated"].alerts =>
                           "alerts" \in Reached
  BY DEF OverridesExplainDiffs
<1>1. n \in Nat /\ DOMAIN seq = 1..n /\ n = Len(chain) /\ Sequence("baseline") = seq
  BY SequenceIsSeq, SeqDomain DEF HistoryInv, Sequence
<1>2. PICK g : /\ History(g, "baseline", seq, entity, n)
               /\ outcome["baseline"] = OutcomeOf("baseline", g[n])
  BY <1>1 DEF HistoryInv, OutcomeInv, Over, DataOf
<1>3. PICK h : /\ History(h, "simulated", seq, ApplyOverrides(entity), n)
               /\ outcome["simulated"] = OutcomeOf("simulated", h[n])
  BY <1>1 DEF HistoryInv, OutcomeInv, Over, DataOf
<1>4. /\ outcome["baseline"].metrics = g[n].metrics /\ outcome["simulated"].metrics = h[n].metrics
      /\ outcome["baseline"].alerts = g[n].alerts /\ outcome["simulated"].alerts = h[n].alerts
      /\ outcome["baseline"].results = g[n].results /\ outcome["simulated"].results = h[n].results
  BY <1>2, <1>3 DEF OutcomeOf, Outcome
<1>5. Compared(g, h, seq, n)
  <2>1. ASSUME NEW k \in 1..n PROVE seq[k] \in RuleIds /\ NoJudge(seq[k])
    BY <1>1, SequenceRules, NoModelInSequence DEF HistoryInv
  <2> HIDE DEF seq, n
  <2> QED
    BY <1>1, <1>2, <1>3, <1>4, <2>1 DEF Compared
<1>6. ClosedUnderReading(seq, least)
  <2>1. least = {k \in DOMAIN seq : \A places \in SUBSET (DOMAIN seq) :
                                       ClosedUnderReading(seq, places) => k \in places}
    OBVIOUS
  <2> HIDE DEF least, seq
  <2> QED
    BY <2>1, LeastIsClosed
<1>7. least \in SUBSET Nat
  BY <1>1
<1>8. Reached = ReachedFrom(seq, least, n + 1)
  BY DEF Reached
<1> HIDE DEF seq, n, least
<1>9. UnreachedSame(g, h, Reached, n)
  BY <1>5, <1>6, <1>7, <1>8, UnreachedHistory
<1>10. ASSUME NEW name \in Comparison PROVE name \in Reached
  <2>1. Get(g[n].metrics, name, NULL) # Get(h[n].metrics, name, NULL)
    BY <1>4, <1>10 DEF Comparison, Diffs
  <2>2. ~Same(g[n].metrics, h[n].metrics, name)
    BY <2>1, SameGet
  <2> QED
    BY <1>9, <2>2 DEF UnreachedSame
<1>11. outcome["baseline"].alerts # outcome["simulated"].alerts => "alerts" \in Reached
  BY <1>4, <1>9 DEF UnreachedSame
<1> QED
  BY <1>10, <1>11

\* A what-if on a chain without llm_judge, whatever it overrides, changes only
\* what the changed attributes reach through the rules that read them.
THEOREM OverridesExplain == ExecutionSpec => []OverridesExplainDiffs
<1>1. HistoryInv => OverridesExplainDiffs
  BY OverridesExplanation
<1> QED
  BY <1>1, ExecutionInvariance, PTL

-----------------------------------------------------------------------------
\* The simulation of a group's steps beside the analysis of the same rules.
LEMMA AtomsAgree ==
    ASSUME NEW r \in RuleIds, NEW x, NEW y,
           \A i \in DOMAIN Rule[r].when.atoms : Same(x, y, Rule[r].when.atoms[i].field),
           EvaluateClause(Rule[r].when, y) # "raised"
    PROVE  Evaluate(Rule[r].when, x) = EvaluateClause(Rule[r].when, y)
<1> DEFINE when == Rule[r].when
           At(i) == EvaluateExpression(when.atoms[i], y)
           outcomes == {At(i) : i \in DOMAIN when.atoms}
           goOn == IF when.all THEN "true" ELSE "false"
           stops == {i \in DOMAIN when.atoms : At(i) # goOn}
<1>1. \A i \in DOMAIN when.atoms : Same(x, y, when.atoms[i].field)
  OBVIOUS
<1>2. /\ DOMAIN when.atoms \subseteq Nat
      /\ DOMAIN when.atoms = {} => when.atoms = << >>
      /\ when.atoms = << >> => DOMAIN when.atoms = {}
  <2>1. when.atoms = [i \in DOMAIN when.atoms |-> when.atoms[i]]
    BY ConditionAssumption
  <2>2. DOMAIN when.atoms = {} => when.atoms = << >>
    BY <2>1
  <2>3. DOMAIN when.atoms \subseteq Nat
    BY ExecutionAssumption
  <2> QED
    BY <2>2, <2>3
<1>3. Evaluate(when, x) = Evaluate(when, y)
  <2> HIDE DEF when
  <2> QED
    BY <1>1, <1>2, ConditionReads
<1>4. EvaluateClause(when, y) # "raised"
  OBVIOUS
<1> SUFFICES Evaluate(when, x) = EvaluateClause(when, y)
  OBVIOUS
<1> HIDE DEF when
<1>5. \A i \in DOMAIN when.atoms : At(i) \in {"raised", "true", "false"}
  BY ExpressionValues
<1>6. Evaluate(when, y) = IF when.atoms = << >> THEN "true"
                          ELSE IF stops = {} THEN goOn ELSE At(Min(stops))
  BY DEF Evaluate
<1>7. stops # {} => Min(stops) \in stops
  <2>1. stops \in SUBSET Nat
    BY <1>2
  <2> HIDE DEF stops
  <2> QED
    BY <2>1, MinOf
<1>8. CASE outcomes = {}
  <2>1. EvaluateClause(when, y) = "true"
    BY <1>8 DEF EvaluateClause
  <2>2. DOMAIN when.atoms = {}
    BY <1>8
  <2> QED
    BY <1>2, <1>3, <1>6, <2>1, <2>2
<1>9. CASE outcomes # {}
  <2>1. "raised" \notin outcomes
    <3>1. "raised" \in outcomes => EvaluateClause(when, y) = "raised"
      BY <1>9 DEF EvaluateClause
    <3> QED
      BY <1>4, <3>1
  <2>2. EvaluateClause(when, y)
            = IF when.all THEN IF "false" \in outcomes THEN "false" ELSE "true"
              ELSE IF "true" \in outcomes THEN "true" ELSE "false"
    BY <1>9, <2>1 DEF EvaluateClause
  <2>3. \A i \in DOMAIN when.atoms : At(i) \in {"true", "false"}
    BY <1>5, <2>1
  <2>4. when.atoms # << >>
    BY <1>2, <1>9
  <2> HIDE DEF At
  <2>5. CASE when.all
    <3>1. goOn = "true" /\ (stops = {} <=> "false" \notin outcomes)
      BY <2>3, <2>5
    <3>2. stops # {} => At(Min(stops)) = "false"
      BY <1>7, <2>3, <3>1
    <3> QED
      BY <1>3, <1>6, <2>2, <2>4, <2>5, <3>1, <3>2
  <2>6. CASE ~when.all
    <3>1. goOn = "false" /\ (stops = {} <=> "true" \notin outcomes)
      BY <2>3, <2>6
    <3>2. stops # {} => At(Min(stops)) = "true"
      BY <1>7, <2>3, <3>1
    <3> QED
      BY <1>3, <1>6, <2>2, <2>4, <2>6, <3>1, <3>2
  <2> QED
    BY <2>5, <2>6
<1> QED
  BY <1>8, <1>9

\* What plain says of a rule in StepsAgree.
Plain(r) ==
    /\ Rule[r].enabled /\ Rule[r].in_scope /\ Rule[r].formula = NULL
    /\ Rule[r].else_.op = "none"
    /\ Rule[r].then.op \in Registered \ {"llm_judge"}
    /\ \A k \in DOMAIN Rule[r].when.atoms : Rule[r].when.atoms[k].field \notin Private
    /\ \/ Rule[r].then.op = "calculate_credit_score"
       \/ OperatorReads(Rule[r].then.op, Rule[r].then.params) \cap Private = {}

\* The second dictionary has no alerts, and both are the same at every name that
\* is not private.
SameMetrics(m, m2) ==
    /\ \A name : name \notin Private => Same(m, m2, name)
    /\ "alerts" \notin DOMAIN m2

\* An operator that reads no private name returns the same to both; so does
\* calculate_credit_score when there is no alert.
LEMMA OperatorsAgree ==
    ASSUME NEW r, Plain(r), NEW x, NEW y, SameMetrics(x, y), NEW a, NEW b
    PROVE  Execute(Rule[r].then.op, Rule[r].then.params, Entry("alerts", {}) ++ x, a)
               = Execute(Rule[r].then.op, Rule[r].then.params, y, b)
<1> DEFINE op == Rule[r].then.op
           p == Rule[r].then.params
           own == Entry("alerts", {})
           z == own ++ x
<1>0. DOMAIN own = {"alerts"} /\ own["alerts"] = {}
  BY DEF Entry
<1>1. /\ op \in Registered \ {"llm_judge"}
      /\ op = "calculate_credit_score" \/ OperatorReads(op, p) \cap Private = {}
  BY DEF Plain
<1> HIDE DEF own, op, p
<1>2. /\ DOMAIN z = DOMAIN own \cup DOMAIN x
      /\ \A k \in DOMAIN own : z[k] = own[k]
      /\ \A k \in DOMAIN x \ DOMAIN own : z[k] = x[k]
  BY MergeFacts
<1>3. /\ "alerts" \in Private /\ "alerts" \notin DOMAIN y
      /\ \A name : name \notin Private => Same(x, y, name)
  BY DEF Private, SameMetrics
<1>4. \A name : name \notin Private => Same(z, y, name)
  BY <1>0, <1>2, <1>3 DEF Same
<1>5. Execute(op, p, y, a) = Execute(op, p, y, b)
  BY <1>1, OperatorIgnoresModel
<1>6. CASE OperatorReads(op, p) \cap Private = {}
  <2>1. \A n \in OperatorReads(op, p) : Same(z, y, n)
    BY <1>4, <1>6
  <2> HIDE DEF z
  <2>2. Execute(op, p, z, a) = Execute(op, p, y, a)
    BY <1>1, <2>1, OperatorReadsAll
  <2> QED
    BY <1>5, <2>2 DEF z, own, op, p
<1>7. CASE op = "calculate_credit_score"
  <2>1. \A n \in OperatorReads("calculate_credit_score", p) \ {"alerts"} : Same(z, y, n)
    <3>1. (OperatorReads("calculate_credit_score", p) \ {"alerts"}) \cap Private = {}
      BY DEF OperatorReads, Private
    <3> QED
      BY <1>4, <3>1
  <2>2. "critical" \notin Get(z, "alerts", {}) /\ "critical" \notin Get(y, "alerts", {})
    BY <1>0, <1>2, <1>3 DEF Get
  <2>3. \A ctx : Execute("calculate_credit_score", p, ctx, a) = CalculateCreditScore(p, ctx)
    BY DEF Execute
  <2> HIDE DEF z
  <2>4. CalculateCreditScore(p, z) = CalculateCreditScore(p, y)
    BY <2>1, <2>2, ScoreReads
  <2>5. Execute(op, p, z, a) = Execute(op, p, y, a)
    BY <1>7, <2>3, <2>4
  <2> QED
    BY <1>5, <2>5 DEF z, own, op, p
<1> QED
  BY <1>1, <1>6, <1>7
\* What a plain rule does in an analysis without alerts, and as a step.
LEMMA PlainThen ==
    ASSUME NEW r, Plain(r), NEW d, NEW m, NEW a
    PROVE  ExecuteThen(r, d, m, << >>, a)
               = ActionEffect(r, Rule[r].then, m, << >>, TRUE,
                     Execute(Rule[r].then.op, Rule[r].then.params,
                             Entry("alerts", {}) ++ EvalContext(d, m), a))
<1>1. ExecuteThen(r, d, m, << >>, a) = ExecuteAction(r, Rule[r].then, d, m, << >>, TRUE, a)
  BY DEF Plain, ExecuteThen, WithFormula
<1>2. {<< >>[i] : i \in DOMAIN << >>} = {}
  BY NoElements
<1>3. ActionResult(Rule[r].then, d, m, << >>, a)
          = Execute(Rule[r].then.op, Rule[r].then.params,
                    Entry("alerts", {}) ++ EvalContext(d, m), a)
  BY <1>2 DEF Plain, ActionResult
<1> QED
  BY <1>1, <1>3 DEF ExecuteAction

LEMMA PlainStep ==
    ASSUME NEW r, Plain(r), NEW d, NEW m, NEW b, NEW res,
           res = Execute(Rule[r].then.op, Rule[r].then.params, EvalContext(d, m), b),
           NEW e, e = SimulateStep(r, d, m, b), NEW met,
           met = EvaluateClause(Rule[r].when, EvalContext(d, m))
    PROVE  /\ met = "raised" => e.result.error
           /\ met = "false" => e.metrics = [skipped |-> TRUE] ++ m
           /\ met = "true" /\ ~res.raised => e.metrics = res.out ++ m /\ e.result.out = res.out
<1> DEFINE out == StepAction(Rule[r].then, EvalContext(d, m), b)
<1>1. ~res.raised => out = res.out
  BY DEF Plain, StepAction
<1>2. CASE met = "raised"
  <2>1. e = Effect(r, m, << >>, FALSE, TRUE, Nothing)
    BY <1>2 DEF SimulateStep
  <2> QED
    BY <1>2, <2>1 DEF Effect
<1>3. CASE met = "false"
  <2>1. e = Effect(r, [skipped |-> TRUE] ++ m, << >>, FALSE, FALSE, [skipped |-> TRUE])
    BY <1>3 DEF SimulateStep
  <2> QED
    BY <1>3, <2>1 DEF Effect
<1>4. CASE met = "true"
  <2>1. e = Effect(r, out ++ m, << >>, TRUE, FALSE, out)
    BY <1>4 DEF SimulateStep
  <2> HIDE DEF out
  <2> QED
    BY <1>1, <1>4, <2>1 DEF Effect
<1> QED
  BY <1>2, <1>3, <1>4

Simulated(c, e, rs) == c.metrics = e.metrics /\ \E j \in DOMAIN rs : rs[j] = e.result

LEMMA StepsReported ==
    ASSUME NEW seq, NEW d, NEW n \in Nat, NEW h, History(h, "steps", seq, d, n),
           NEW k \in 1..n, Applies("steps", seq[k])
    PROVE  \E b : Simulated(h[k], SimulateStep(seq[k], d, h[k - 1].metrics, b), h[n].results)
<1> DEFINE c == h[k - 1]
<1>1. PICK b : h[k] = Ran("steps", d, c, seq[k], b)
  BY DEF History, Moves
<1> DEFINE e == SimulateStep(seq[k], d, c.metrics, b)
           after == Append(c.results, e.result)
<1>2. h[k].metrics = e.metrics /\ h[k].results = after
  BY <1>1 DEF Ran, Context
<1>3. IsSeq(c.results)
  <2>1. k - 1 \in Nat /\ History(h, "steps", seq, d, k - 1)
    BY DEF History
  <2> QED
    BY <2>1, ResultsAreSeq
<1>4. Len(c.results) + 1 \in DOMAIN after /\ after[Len(c.results) + 1] = e.result
  <2> HIDE DEF e
  <2>1. /\ DOMAIN after = 1..(Len(c.results) + 1) /\ after[Len(c.results) + 1] = e.result
        /\ Len(c.results) \in Nat
    BY <1>3, Appended, SeqDomain
  <2> QED
    BY <2>1
<1>5. ReportsIn(h[k], h[n])
  <2>1. k \in 0..n
    OBVIOUS
  <2> QED
    BY <2>1, ReportsKept
<1>6. \E j \in DOMAIN h[n].results : h[n].results[j] = e.result
  <2> HIDE DEF after, e, c
  <2> QED
    BY <1>2, <1>4, <1>5 DEF ReportsIn
<1> QED
  BY <1>2, <1>6 DEF Simulated

Quiet(h, n) == \A k \in 0..n : h[k].alerts = << >>

\* Alerts are never taken back: where there is none in the end there never was.
LEMMA NoAlertsBefore ==
    ASSUME NEW p, p # "steps", NEW seq, NEW d, NEW n \in Nat, NEW h, History(h, p, seq, d, n),
           h[n].alerts = << >>
    PROVE  Quiet(h, n)
<1> DEFINE Grown(i) == /\ IsSeq(h[i].alerts)
                       /\ \A k \in 0..i : h[k].alerts # << >> => h[i].alerts # << >>
           T == {i \in Nat : i <= n => Grown(i)}
<1>1. 0 \in T
  <2>1. h[0].alerts = << >>
    BY DEF History, Blank, Context
  <2>2. \A k \in 0..0 : k = 0
    OBVIOUS
  <2> QED
    BY <2>1, <2>2, NoElements
<1>2. ASSUME NEW i \in Nat, i \in T PROVE i + 1 \in T
  <2>1. CASE i + 1 <= n
    <3>1. i + 1 \in 1..n /\ (i + 1) - 1 = i /\ Grown(i)
      BY <1>2, <2>1
    <3>2. Moves(p, d, h[i], seq[i + 1], h[i + 1])
      BY <3>1 DEF History
    <3>3. h[i + 1].alerts = h[i].alerts \/ \E x : h[i + 1].alerts = Append(h[i].alerts, x)
      <4>1. CASE ~Applies(p, seq[i + 1])
        BY <3>2, <4>1 DEF Moves
      <4>2. CASE Applies(p, seq[i + 1])
        <5>1. PICK a : h[i + 1] = Ran(p, d, h[i], seq[i + 1], a)
          BY <3>2, <4>2 DEF Moves
        <5> DEFINE e == ExecuteRule(seq[i + 1], d, h[i].metrics, h[i].alerts, a)
        <5>2. h[i + 1].alerts = e.alerts
          BY <5>1 DEF Ran, Context
        <5>3. AlertsAfter(h[i].alerts, e)
          BY RuleAlerts
        <5> HIDE DEF e
        <5> QED
          BY <5>2, <5>3 DEF AlertsAfter
      <4> QED
        BY <4>1, <4>2
    <3>4. \A x : /\ IsSeq(Append(h[i].alerts, x))
                 /\ Len(Append(h[i].alerts, x)) = Len(h[i].alerts) + 1
                 /\ Len(h[i].alerts) \in Nat
      BY <3>1, Appended, SeqDomain
    <3>5. \A x : Append(h[i].alerts, x) # << >>
      <4>1. ASSUME NEW x, Append(h[i].alerts, x) = << >> PROVE FALSE
        <5>1. Len(Append(h[i].alerts, x)) = 0
          BY <4>1, NoElements
        <5> QED
          BY <3>4, <5>1
      <4> QED
        BY <4>1
    <3>6. IsSeq(h[i + 1].alerts) /\ (h[i].alerts # << >> => h[i + 1].alerts # << >>)
      BY <3>1, <3>3, <3>4, <3>5
    <3>7. \A k \in 0..(i + 1) : h[k].alerts # << >> => h[i + 1].alerts # << >>
      <4>1. \A k \in 0..(i + 1) : k \in 0..i \/ k = i + 1
        OBVIOUS
      <4> QED
        BY <3>1, <3>6, <4>1
    <3> QED
      BY <3>6, <3>7
  <2>2. CASE ~(i + 1 <= n)
    BY <2>2
  <2> QED
    BY <2>1, <2>2
<1>3. n \in T
  <2> HIDE DEF T
  <2> QED
    BY <1>1, <1>2, Induction
<1> QED
  BY <1>3 DEF Quiet
\* What an operator returns, written over the metrics with its private names
\* and without two of them.
LEMMA SameWritten ==
    ASSUME NEW m, NEW m2, SameMetrics(m, m2), NEW out, "alerts" \notin DOMAIN out
    PROVE  SameMetrics([k \in DOMAIN out \ {"error", "alert_triggered"} |-> out[k]] ++ m,
                       out ++ m2)
<1> DEFINE kept == [k \in DOMAIN out \ {"error", "alert_triggered"} |-> out[k]]
<1>1. \A name : name \notin Private => Same(kept, out, name)
  BY DEF Same, Private
<1>2. \A name : name \notin Private => Same(kept ++ m, out ++ m2, name)
  <2> HIDE DEF kept
  <2> QED
    BY <1>1, SameMerge DEF SameMetrics
<1>3. "alerts" \notin DOMAIN (out ++ m2)
  <2>1. DOMAIN (out ++ m2) = DOMAIN out \cup DOMAIN m2
    BY MergeFacts
  <2> QED
    BY <2>1 DEF SameMetrics
<1> QED
  BY <1>2, <1>3 DEF SameMetrics

LEMMA SameSkipped ==
    ASSUME NEW m, NEW m2, SameMetrics(m, m2)
    PROVE  SameMetrics(m, [skipped |-> TRUE] ++ m2)
<1> DEFINE f == [skipped |-> TRUE]
<1>1. DOMAIN f = {"skipped"}
  OBVIOUS
<1> HIDE DEF f
<1>2. /\ DOMAIN (f ++ m2) = DOMAIN f \cup DOMAIN m2
      /\ \A k \in DOMAIN m2 \ DOMAIN f : (f ++ m2)[k] = m2[k]
  BY MergeFacts
<1>3. \A name : name \notin Private => Same(m, f ++ m2, name)
  BY <1>1, <1>2 DEF Same, SameMetrics, Private
<1>4. "alerts" \notin DOMAIN (f ++ m2)
  BY <1>1, <1>2 DEF SameMetrics
<1> QED
  BY <1>3, <1>4 DEF SameMetrics, f

\* What ActionEffect writes for the operator of a plain rule.
WrittenBy(res) == [k \in DOMAIN res.out \ {"error", "alert_triggered"} |-> res.out[k]]

LEMMA PlainEffect ==
    ASSUME NEW r, Plain(r), NEW m, NEW res, NEW e,
           e = ActionEffect(r, Rule[r].then, m, << >>, TRUE, res), ~e.result.error
    PROVE  ~res.raised /\ e.metrics = WrittenBy(res) ++ m
<1> DEFINE act == Rule[r].then
           as == << >>
<1>1. act.op \in Registered /\ act.op # "none"
  BY DEF Plain, Registered
<1> HIDE DEF act, as
<1>2. CASE res.raised
  <2>1. ActionEffect(r, act, m, as, TRUE, res) = Effect(r, m, as, FALSE, TRUE, Nothing)
    BY <1>1, <1>2 DEF ActionEffect
  <2>2. Effect(r, m, as, FALSE, TRUE, Nothing).result.error
    BY DEF Effect
  <2> QED
    BY <2>1, <2>2 DEF act, as
<1>3. CASE ~res.raised
  <2>1. ActionEffect(r, act, m, as, TRUE, res).metrics = WrittenBy(res) ++ m
    BY <1>1, <1>3 DEF ActionEffect, Effect, WrittenBy
  <2> QED
    BY <1>3, <2>1 DEF act, as
<1> QED
  BY <1>2, <1>3 DEF act, as

\* A plain rule that raises nothing does the same in both.
LEMMA BesideRule ==
    ASSUME NEW r \in RuleIds, Plain(r), "alerts" \notin DOMAIN entity,
           NEW m, NEW m2, SameMetrics(m, m2),
           NEW e, e = ExecuteRule(r, entity, m, << >>, FALSE), ~e.result.error,
           NEW b, NEW e2, e2 = SimulateStep(r, entity, m2, b), ~e2.result.error,
           "alerts" \notin DOMAIN e2.result.out
    PROVE  SameMetrics(e.metrics, e2.metrics)
<1> DEFINE x == EvalContext(entity, m)
           y == EvalContext(entity, m2)
           met == EvaluateClause(Rule[r].when, y)
           op == Rule[r].then.op
           p == Rule[r].then.params
           own == Entry("alerts", {}) ++ x
           res == Execute(op, p, own, FALSE)
           res2 == Execute(op, p, y, b)
<1>1. \A name : name \notin Private => Same(x, y, name)
  <2>1. \A name : Same(entity, entity, name)
    BY DEF Same
  <2> QED
    BY <2>1, SameMerge DEF SameMetrics, EvalContext
<1>2. "alerts" \notin DOMAIN y
  <2>1. DOMAIN (m2 ++ entity) = DOMAIN m2 \cup DOMAIN entity
    BY MergeFacts
  <2> QED
    BY <2>1 DEF SameMetrics, EvalContext
<1>3. /\ met = "raised" => e2.result.error
      /\ met = "false" => e2.metrics = [skipped |-> TRUE] ++ m2
      /\ met = "true" /\ ~res2.raised =>
             e2.metrics = res2.out ++ m2 /\ e2.result.out = res2.out
  BY PlainStep
<1>4. met # "raised"
  BY <1>3
<1>5. Evaluate(Rule[r].when, x) = met
  <2>1. \A i \in DOMAIN Rule[r].when.atoms : Same(x, y, Rule[r].when.atoms[i].field)
    BY <1>1 DEF Plain
  <2> HIDE DEF x, y
  <2> QED
    BY <1>4, <2>1, AtomsAgree
<1>6. Evaluate(Rule[r].when, x) \in {"raised", "true", "false"}
  BY EvaluateValues
<1>7. CASE met = "false"
  <2>1. e = Effect(r, m, << >>, FALSE, FALSE, [skipped |-> TRUE])
    <3>1. Evaluate(Rule[r].when, EvalContext(entity, m)) = "false" /\ Rule[r].else_.op = "none"
      BY <1>5, <1>7 DEF Plain
    <3> QED
      BY <3>1, RuleSkipped
  <2>2. e.metrics = m
    <3>1. Effect(r, m, << >>, FALSE, FALSE, [skipped |-> TRUE]).metrics = m
      BY DEF Effect
    <3> QED
      BY <2>1, <3>1
  <2>3. e2.metrics = [skipped |-> TRUE] ++ m2
    BY <1>3, <1>7
  <2> QED
    BY <2>2, <2>3, SameSkipped
<1>8. CASE met = "true"
  <2>1. e = ActionEffect(r, Rule[r].then, m, << >>, TRUE, res)
    <3>1. Evaluate(Rule[r].when, EvalContext(entity, m)) = "true"
      BY <1>5, <1>8
    <3>2. e = ExecuteThen(r, entity, m, << >>, FALSE)
      BY <3>1, RuleHolds
    <3> QED
      BY <3>2, PlainThen
  <2>2. res = res2
    <3>1. SameMetrics(x, y)
      BY <1>1, <1>2 DEF SameMetrics
    <3> HIDE DEF x, y
    <3>2. \A s, t : Execute(op, p, Entry("alerts", {}) ++ x, s) = Execute(op, p, y, t)
      BY <3>1, OperatorsAgree
    <3> QED
      BY <3>2
  <2> HIDE DEF res, res2
  <2>3. ~res.raised /\ e.metrics = WrittenBy(res) ++ m
    BY <2>1, PlainEffect
  <2>4. e2.metrics = res.out ++ m2 /\ "alerts" \notin DOMAIN res.out
    BY <1>3, <1>8, <2>2, <2>3
  <2> QED
    BY <2>3, <2>4, SameWritten DEF WrittenBy
<1> QED
  BY <1>4, <1>5, <1>6, <1>7, <1>8

\* An analysis and the steps of the same plain rules, nothing of which raised.
Beside(g, h, seq, n) ==
    /\ n \in Nat /\ "alerts" \notin DOMAIN entity
    /\ \A k \in 1..n : seq[k] \in RuleIds /\ Plain(seq[k])
    /\ History(g, "analysis", seq, entity, n)
    /\ History(h, "steps", seq, entity, n)
    /\ \A i \in DOMAIN g[n].results : ~g[n].results[i].error
    /\ \A i \in DOMAIN h[n].results :
          ~h[n].results[i].error /\ "alerts" \notin DOMAIN h[n].results[i].out
    /\ Quiet(g, n)

LEMMA BesideStep ==
    ASSUME NEW g, NEW h, NEW seq, NEW n, Beside(g, h, seq, n), NEW k \in 1..n,
           SameMetrics(g[k - 1].metrics, h[k - 1].metrics)
    PROVE  SameMetrics(g[k].metrics, h[k].metrics)
<1> DEFINE r == seq[k]
           m == g[k - 1].metrics
           m2 == h[k - 1].metrics
           e == ExecuteRule(r, entity, m, << >>, FALSE)
<1>1. n \in Nat /\ r \in RuleIds /\ Plain(r) /\ "alerts" \notin DOMAIN entity
  BY DEF Beside
<1>2. Applies("analysis", r) /\ Applies("steps", r) /\ NoJudge(r)
  BY <1>1 DEF Plain, Applies, NoJudge
<1>3. g[k - 1].alerts = << >>
  BY <1>1 DEF Beside, Quiet
<1>4. Effected(g[k], ExecuteRule(r, entity, m, g[k - 1].alerts, FALSE), g[n].results,
               AppliedAmong("analysis", seq, k))
  <2>1. History(g, "analysis", seq, entity, n)
    BY DEF Beside
  <2> QED
    BY <1>1, <1>2, <2>1, StepReported
<1>5. g[k].metrics = e.metrics /\ ~e.result.error
  <2>1. Effected(g[k], e, g[n].results, AppliedAmong("analysis", seq, k))
    BY <1>3, <1>4
  <2> HIDE DEF e
  <2> QED
    BY <2>1 DEF Effected, Beside
<1>6. PICK b : Simulated(h[k], SimulateStep(r, entity, m2, b), h[n].results)
  <2>1. History(h, "steps", seq, entity, n)
    BY DEF Beside
  <2> QED
    BY <1>1, <1>2, <2>1, StepsReported
<1> DEFINE e2 == SimulateStep(r, entity, m2, b)
<1>7. h[k].metrics = e2.metrics /\ ~e2.result.error /\ "alerts" \notin DOMAIN e2.result.out
  <2>1. Simulated(h[k], e2, h[n].results)
    BY <1>6
  <2> HIDE DEF e2
  <2> QED
    BY <2>1 DEF Simulated, Beside
<1>8. SameMetrics(e.metrics, e2.metrics)
  <2> HIDE DEF r
  <2> QED
    BY <1>1, <1>5, <1>7, BesideRule
<1> QED
  BY <1>5, <1>7, <1>8

LEMMA BesideHistory ==
    ASSUME NEW g, NEW h, NEW seq, NEW n, Beside(g, h, seq, n)
    PROVE  SameMetrics(g[n].metrics, h[n].metrics)
<1> DEFINE T == {k \in Nat : k <= n => SameMetrics(g[k].metrics, h[k].metrics)}
<1>1. 0 \in T
  <2>1. g[0].metrics = << >> /\ h[0].metrics = << >>
    BY DEF Beside, History, Blank, Context, Nothing
  <2>2. DOMAIN << >> = {}
    BY NoElements
  <2>3. SameMetrics(<< >>, << >>)
    BY <2>2 DEF SameMetrics, Same
  <2> QED
    BY <2>1, <2>3
<1>2. ASSUME NEW k \in Nat, k \in T PROVE k + 1 \in T
  <2>1. CASE k + 1 <= n
    <3>1. k + 1 \in 1..n /\ (k + 1) - 1 = k /\ SameMetrics(g[k].metrics, h[k].metrics)
      BY <1>2, <2>1 DEF Beside
    <3>2. SameMetrics(g[k + 1].metrics, h[k + 1].metrics)
      BY <3>1, BesideStep
    <3> QED
      BY <3>2
  <2>2. CASE ~(k + 1 <= n)
    BY <2>2
  <2> QED
    BY <2>1, <2>2
<1>3. n \in T
  <2>1. n \in Nat
    BY DEF Beside
  <2> HIDE DEF T
  <2> QED
    BY <1>1, <1>2, <2>1, Induction
<1> QED
  BY <1>3 DEF Beside

Kept(m) == [k \in DOMAIN m \ Private |-> m[k]]

LEMMA KeptAgree ==
    ASSUME NEW m, NEW m2, SameMetrics(m, m2)
    PROVE  Kept(m2) = Kept(m)
<1>1. DOMAIN m \ Private = DOMAIN m2 \ Private
  BY DEF SameMetrics, Same
<1>2. \A k \in DOMAIN m \ Private : m[k] = m2[k]
  BY DEF SameMetrics, Same
<1> QED
  BY <1>1, <1>2 DEF Kept

LEMMA StepsAgreement ==
    ASSUME HistoryInv
    PROVE  StepsAgree
<1> DEFINE n == Len(chain)
           calm == \A p \in {"analysis", "steps"} : \A i \in DOMAIN outcome[p].results :
                       /\ ~outcome[p].results[i].error
                       /\ "alerts" \notin DOMAIN outcome[p].results[i].out
<1> SUFFICES ASSUME Over("analysis"), Over("steps"),
                    l3 = Nothing, "alerts" \notin DOMAIN entity,
                    \A i \in DOMAIN chain : Plain(chain[i]), ByPriority(chain) = chain,
                    calm, outcome["analysis"].alerts = << >>
             PROVE  Kept(outcome["steps"].metrics) = Kept(outcome["analysis"].metrics)
  BY DEF StepsAgree, Plain, Kept
<1>1. DataOf("analysis") = entity /\ DataOf("steps") = entity
  BY NothingWritten DEF HistoryInv, DataOf
<1>2. Sequence("analysis") = chain /\ Sequence("steps") = chain
  BY DEF Sequence
<1>3. chain \in Seq(RuleIds) /\ n \in Nat /\ DOMAIN chain = 1..n
  BY DEF HistoryInv, InputsInv
<1>4. PICK g : /\ History(g, "analysis", chain, entity, n)
               /\ outcome["analysis"] = OutcomeOf("analysis", g[n])
  BY <1>1, <1>2 DEF HistoryInv, OutcomeInv, Over
<1>5. PICK h : /\ History(h, "steps", chain, entity, n)
               /\ outcome["steps"] = OutcomeOf("steps", h[n])
  BY <1>1, <1>2 DEF HistoryInv, OutcomeInv, Over
<1>6. /\ outcome["analysis"].metrics = g[n].metrics
      /\ outcome["analysis"].alerts = g[n].alerts
      /\ outcome["analysis"].results = g[n].results
  BY <1>4 DEF OutcomeOf, Outcome
<1>7. /\ outcome["steps"].metrics = h[n].metrics
      /\ outcome["steps"].results = h[n].results
  BY <1>5 DEF OutcomeOf, Outcome
<1>8. Quiet(g, n)
  <2>1. "analysis" # "steps" /\ g[n].alerts = << >>
    BY <1>6
  <2> HIDE DEF n
  <2> QED
    BY <1>3, <1>4, <2>1, NoAlertsBefore
<1>9. Beside(g, h, chain, n)
  <2>1. \A k \in 1..n : chain[k] \in RuleIds /\ Plain(chain[k])
    BY <1>3
  <2>2. \A i \in DOMAIN g[n].results : ~g[n].results[i].error
    BY <1>6
  <2>3. \A i \in DOMAIN h[n].results :
            ~h[n].results[i].error /\ "alerts" \notin DOMAIN h[n].results[i].out
    BY <1>7
  <2> HIDE DEF n, calm
  <2> QED
    BY <1>3, <1>4, <1>5, <1>8, <2>1, <2>2, <2>3 DEF Beside
<1>10. SameMetrics(g[n].metrics, h[n].metrics)
  <2> HIDE DEF n
  <2> QED
    BY <1>9, BesideHistory
<1> QED
  BY <1>6, <1>7, <1>10, KeptAgree

\* For any chain of plain rules, the steps of the group compute what the
\* analysis of the same entity does, when nothing raises and no alert is there.
THEOREM StepsDoAgree == ExecutionSpec => []StepsAgree
<1>1. HistoryInv => StepsAgree
  BY StepsAgreement
<1> QED
  BY <1>1, ExecutionInvariance, PTL
=============================================================================
