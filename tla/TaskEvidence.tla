---------------------------- MODULE TaskEvidence ----------------------------
(***************************************************************************)
(* Evidence records: what a provider's answer becomes, how the engine      *)
(* merges it into the run, and what of it counts.  A record's content hash *)
(* covers the object and its citation; both are an object and a version.   *)
(***************************************************************************)
EXTENDS TaskPlan

Record(id, hash, task, need, stance, qualified) ==
  [id |-> id, hash |-> hash, task |-> task, need |-> need, stance |-> stance,
   qualification |-> IF qualified THEN "QUALIFIED" ELSE "NEEDS_REVIEW"]

Stance(need) ==
  IF need.stances \in {{"COUNTER"}, {"CONFLICTING"}}
  THEN CHOOSE s \in need.stances : TRUE ELSE "SUPPORTING"

\* HttpEvidenceProvider: one search for the task, one coverage request per need,
\* a record for each need and object.  found is what the search returns, each
\* with its verification; eligible are the needs whose coverage is ELIGIBLE.
External(task, found, eligible) ==
  LET recordsOf(need) ==
        [i \in DOMAIN found |->
           Record(IF Cardinality(DOMAIN task.needs) = 1 THEN <<found[i].object>>
                                                        ELSE <<found[i].object, need>>,
                  <<found[i].object, found[i].version>>, task.id, need,
                  Stance(task.needs[need]),
                  need \in eligible /\ found[i].supported)]
  IN FlattenSeq([k \in DOMAIN SetToSeq(DOMAIN task.needs) |->
                   recordsOf(SetToSeq(DOMAIN task.needs)[k])])

\* DeterministicEvidenceProvider: two records per need under ids of their own,
\* which _qualify judges by their stance.
Runtime(task, round) ==
  LET recordOf(need, stance) ==
        Record(<<task.id, need, stance, round>>, <<stance, task.id>>, task.id, need, stance,
               stance \in task.needs[need].stances)
  IN FlattenSeq([k \in DOMAIN SetToSeq(DOMAIN task.needs) |->
                   LET need == SetToSeq(DOMAIN task.needs)[k]
                   IN <<recordOf(need, "SUPPORTING"), recordOf(need, "COUNTER")>>])

-----------------------------------------------------------------------------
(* The merge: by id and content hash, over tasks.                          *)

SameKey(r, s) == r.id = s.id /\ r.hash = s.hash
Has(records, r) == \E i \in DOMAIN records : SameKey(records[i], r)

\* A record that is there stays, unless the new one qualifies differently.
Updated(records, r) ==
  [i \in DOMAIN records |->
     IF SameKey(records[i], r) /\ records[i].qualification # r.qualification
     THEN r ELSE records[i]]

\* Mutant: a provider's answer is not compared with itself.
MergedUnchecked(evidence, records) ==
  evidence \o SelectSeq(records, LAMBDA r : ~Has(evidence, r))

MergedEvidence(evidence, records) ==
  FoldLeft(LAMBDA all, r : IF Has(all, r) THEN Updated(all, r) ELSE Append(all, r),
           evidence, records)

\* What a replan leaves: the records of the tasks that it does not reset.
WithoutTasks(evidence, ids) ==
  FoldLeft(LAMBDA kept, r : IF r.task \in ids THEN kept ELSE Append(kept, r), << >>, evidence)

-----------------------------------------------------------------------------
RecordsOf(evidence) == {evidence[i] : i \in DOMAIN evidence}
Qualifying(evidence) == {r \in RecordsOf(evidence) : r.qualification = "QUALIFIED"}
QualifiedFor(evidence, task) == {r \in Qualifying(evidence) : r.task = task.id}

\* The synthesizer's own _requirement_is_qualified counts records, not their ids
\* (and, for the engine's, a mutant).
MetByRecords(evidence, task, need) ==
  Cardinality({i \in DOMAIN evidence :
                 evidence[i] \in QualifiedFor(evidence, task) /\ evidence[i].need = need})
    >= task.needs[need].minimum

\* _requirement_is_qualified: distinct ids count.
Met(evidence, task, need) ==
  Cardinality({r.id : r \in {s \in QualifiedFor(evidence, task) : s.need = need}})
    >= task.needs[need].minimum

TaskQualified(evidence, task) == \A need \in DOMAIN task.needs : Met(evidence, task, need)

NeedsOf(tasks) == UNION {{<<t.id, need>> : need \in DOMAIN t.needs} : t \in TasksOf(tasks)}

Unresolved(tasks, evidence) ==
  UNION {{<<t.id, need>> : need \in {n \in DOMAIN t.needs : ~Met(evidence, t, n)}} :
           t \in TasksOf(tasks)}

\* evidence_by_id keeps the last record of an id.
ById(evidence, id) ==
  evidence[CHOOSE i \in DOMAIN evidence :
             evidence[i].id = id /\ \A j \in DOMAIN evidence : evidence[j].id = id => j <= i]
=============================================================================
