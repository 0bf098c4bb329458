----------------------- MODULE CompletionMemoryProofs -----------------------
(***************************************************************************)
(* Where every process runs one execute call at a time, as a polling       *)
(* worker does, memory entries list only theses that finished a run; and   *)
(* they list all of them, for the targets whose entry was not written      *)
(* between another's read and write.                                       *)
(***************************************************************************)
EXTENDS CompletionMemory, TLAPS

OneExecutor == \A e, f \in Executors : ProcessOf[e] = ProcessOf[f] => e = f
Reading == {"set", "take", "write", "clear", "again"}
Written == {"clear", "again"}

\* The entry e built lists its thesis; every other thesis it lists is finished.
Built(e) ==
  /\ work[e] \in own[e].theses
  /\ \A x \in own[e].theses : (x = work[e] \/ x \in finished) /\ TargetOf[x[1]] = Target(e)

ExecutorOK(e) ==
  /\ pc[e] # "idle" => work[e] \in Theses
  /\ pc[e] \in Written => work[e] \in finished
  /\ pc[e] \in Reading => Built(e)
  /\ pc[e] = "take" => Attribute(e) = Entry(Target(e), own[e])
  /\ pc[e] = "write" => taken[e] = Entry(Target(e), own[e])

AnalystOK(a) ==
  /\ apc[a] # "idle" => subject[a] \in Runs
  /\ apc[a] \in {"entry", "save"} => decision[a] \in Decisions
  /\ apc[a] = "save" => ListsFinished(TargetOf[subject[a]], entryCopy[a])

MInv ==
  /\ TypeOK
  /\ ListsFinishedRuns
  /\ \A e \in Executors : ExecutorOK(e)
  /\ \A a \in Analysts : AnalystOK(a)

\* Who may still write the entry of t has read all that it lists.
ExecutorRead(e, t) ==
  pc[e] \in Reading /\ Owns(e) /\ Target(e) = t => memory[t].theses \subseteq own[e].theses
AnalystRead(a, t) ==
  apc[a] = "save" /\ TargetOf[subject[a]] = t => memory[t].theses \subseteq entryCopy[a].theses
Complete(t) ==
  /\ \A x \in finished : TargetOf[x[1]] = t => x \in memory[t].theses
  /\ \A e \in Executors : ExecutorRead(e, t)
  /\ \A a \in Analysts : AnalystRead(a, t)

RInv == MInv /\ \A t \in Targets : t \notin crossed => Complete(t)

-----------------------------------------------------------------------------
(* Entries.                                                                *)

\* An entry without theses, and one with a thesis or a decision more, are entries.
LEMMA EmptyEntry == Empty \in Memory /\ NoEntry \in Entries
  BY DEF Empty, Memory, NoEntry, Entry, Entries

LEMMA AddThesis ==
  ASSUME NEW m \in Memory, NEW x \in Theses
  PROVE  WithThesis(m, x) \in Memory /\ WithThesis(m, x).theses = m.theses \cup {x}
  BY DEF WithThesis, Memory

LEMMA AddDecision ==
  ASSUME NEW m \in Memory, NEW d \in Decisions
  PROVE  WithDecision(m, d) \in Memory /\ WithDecision(m, d).theses = m.theses
  BY DEF WithDecision, Memory

\* Entry is a pair.
LEMMA EntryFields ==
  ASSUME NEW t \in Targets, NEW m \in Memory
  PROVE  Entry(t, m) \in Entries /\ Entry(t, m).target = t /\ Entry(t, m).memory = m
  BY DEF Entry, Entries

-----------------------------------------------------------------------------
(* Types.                                                                  *)

\* The initial state.
LEMMA InitRInv == Init => RInv
<1> SUFFICES ASSUME Init PROVE RInv
  OBVIOUS
<1>1. TypeOK
  BY EmptyEntry DEF Init, TypeOK
<1>2. ListsFinishedRuns
  BY DEF Init, ListsFinishedRuns, ListsFinished, Empty
<1>3. \A e \in Executors : ExecutorOK(e)
  BY DEF Init, ExecutorOK, Reading, Written
<1>4. \A a \in Analysts : AnalystOK(a)
  BY DEF Init, AnalystOK
<1>5. \A t \in Targets : Complete(t)
  BY DEF Init, Complete, ExecutorRead, AnalystRead, Reading
<1> QED BY <1>1, <1>2, <1>3, <1>4, <1>5 DEF RInv, MInv

\* Leaving a call resets what belongs to it.
LEMMA LeaveTypes ==
  ASSUME TypeOK, NEW S \in SUBSET Executors, Leave(S)
  PROVE  /\ pc' \in [Executors ->
              {"idle", "build", "set", "take", "write", "clear", "again", "release"}]
         /\ work' \in [Executors -> Theses \cup {Nothing}]
         /\ own' \in [Executors -> Memory]
         /\ taken' \in [Executors -> Entries]
  BY EmptyEntry DEF TypeOK, Leave

\* A write of an entry keeps the types.
LEMMA PutTypes ==
  ASSUME TypeOK, NEW x, NEW t \in Targets, NEW m \in Memory, Put(x, t, m)
  PROVE  memory' \in [Targets -> Memory] /\ crossed' \in SUBSET Targets
  BY DEF Put, TypeOK

\* The thesis of an executor at work, and its target.
LEMMA WorkTypes ==
  ASSUME TypeOK, NEW e \in Executors, ExecutorOK(e), pc[e] # "idle"
  PROVE  /\ work[e] \in Theses /\ work[e][1] \in Runs /\ work[e][2] \in Nat
         /\ work[e] = <<work[e][1], work[e][2]>>
         /\ Target(e) \in Targets
  BY TargetAssumption DEF ExecutorOK, Theses, Target

\* Every step of an executor keeps the types.
LEMMA ExecutorTypes ==
  ASSUME TypeOK, NEW e \in Executors, ExecutorOK(e), Execute(e)
  PROVE  TypeOK'
<1> USE DEF TypeOK, Goto, store, history, analyst
<1>1. CASE Arrive(e)
  <2>1. PICK r \in Runs : /\ holder' = [holder EXCEPT ![r] = e]
                          /\ work' = [work EXCEPT ![e] = <<r, made + 1>>]
    BY <1>1 DEF Arrive
  <2>2. <<r, made + 1>> \in Theses
    BY DEF Theses
  <2>3. work' \in [Executors -> Theses \cup {Nothing}]
    BY <2>1, <2>2
  <2>4. holder' \in [Runs -> Executors \cup {Nobody}]
    BY <2>1
  <2> QED BY <1>1, <2>3, <2>4 DEF Arrive
<1>2. CASE ReadMemory(e)
  <2>1. WithThesis(memory[Target(e)], work[e]) \in Memory
    BY <1>2, WorkTypes, AddThesis DEF ReadMemory
  <2> QED BY <1>2, <2>1 DEF ReadMemory
<1>3. CASE SetCompletion(e)
  <2>1. Entry(Target(e), own[e]) \in Entries
    BY <1>3, WorkTypes, EntryFields DEF SetCompletion
  <2> QED BY <1>3, <2>1, ProcessAssumption DEF SetCompletion
<1>4. CASE TakeCompletion(e)
  BY <1>4, ProcessAssumption DEF TakeCompletion, Attribute
<1>5. CASE WriteFinal(e)
  <2>1. work[e] \in Theses /\ work[e][1] \in Runs /\ work[e][2] \in Nat
        /\ Target(e) \in Targets
    BY <1>5, WorkTypes DEF WriteFinal
  <2>2. thesis' \in [Runs -> Nat] /\ finished' \subseteq Theses
    BY <1>5, <2>1 DEF WriteFinal, Finish
  <2>3. memory' \in [Targets -> Memory] /\ crossed' \in SUBSET Targets
    <3>1. CASE UNCHANGED <<memory, crossed>>
      BY <3>1
    <3>2. CASE Put(e, taken[e].target, taken[e].memory)
      <4>1. taken[e] = Entry(Target(e), own[e]) /\ own[e] \in Memory
        BY <1>5 DEF WriteFinal, ExecutorOK
      <4>2. taken[e].target = Target(e) /\ taken[e].memory = own[e]
        BY <2>1, <4>1, EntryFields
      <4> QED BY <2>1, <3>2, <4>1, <4>2, PutTypes
    <3> QED BY <1>5, <3>1, <3>2 DEF WriteFinal
  <2> QED BY <1>5, <2>2, <2>3 DEF WriteFinal
<1>6. CASE ClearCompletion(e)
  BY <1>6, EmptyEntry DEF ClearCompletion
<1>7. CASE SaveAgain(e)
  <2>1. memory' \in [Targets -> Memory] /\ crossed' \in SUBSET Targets
    <3>1. CASE UNCHANGED <<memory, crossed>>
      BY <3>1
    <3>2. CASE Put(e, Target(e), own[e])
      BY <1>7, <3>2, PutTypes, WorkTypes DEF SaveAgain
    <3> QED BY <1>7, <3>1, <3>2 DEF SaveAgain
  <2> QED BY <1>7, <2>1 DEF SaveAgain
<1>8. CASE Release(e)
  <2>1. holder' \in [Runs -> Executors \cup {Nobody}]
    BY <1>8 DEF Release
  <2> QED BY <1>8, <2>1, LeaveTypes DEF Release
<1>9. CASE Raise(e)
  BY <1>9 DEF Raise
<1> QED BY <1>1, <1>2, <1>3, <1>4, <1>5, <1>6, <1>7, <1>8, <1>9 DEF Execute

\* Every step of an analyst keeps the types.
LEMMA AnalystTypes ==
  ASSUME TypeOK, NEW a \in Analysts, AnalystOK(a), Decide(a)
  PROVE  TypeOK'
<1> USE TargetAssumption DEF TypeOK, AGoto, store, history, executor
<1>0. apc[a] # "idle" => subject[a] \in Runs
  BY DEF AnalystOK
<1>1. CASE ReadRun(a)
  BY <1>1 DEF ReadRun
<1>2. CASE ReadEntry(a)
  BY <1>0, <1>2 DEF ReadEntry
<1>3. CASE SaveEntry(a)
  <2>1. /\ WithDecision(entryCopy[a], decision[a]) \in Memory
        /\ TargetOf[subject[a]] \in Targets
    BY <1>0, <1>3, AddDecision DEF SaveEntry, AnalystOK
  <2>2. memory' \in [Targets -> Memory] /\ crossed' \in SUBSET Targets
    BY <1>3, <2>1, PutTypes DEF SaveEntry
  <2> QED BY <1>3, <2>2 DEF SaveEntry
<1>4. CASE ReadToReplan(a)
  BY <1>4 DEF ReadToReplan
<1>5. CASE PersistCopy(a)
  <2>1. thesis' \in [Runs -> Nat]
    BY <1>0, <1>5 DEF PersistCopy
  <2> QED BY <1>5, <2>1, EmptyEntry DEF PersistCopy, Reset
<1>6. CASE Abort(a)
  BY <1>6, EmptyEntry DEF Abort, Reset
<1> QED BY <1>1, <1>2, <1>3, <1>4, <1>5, <1>6 DEF Decide

\* Every step keeps the types.
LEMMA NextTypes ==
  ASSUME MInv, [Next]_vars
  PROVE  TypeOK'
<1>1. ASSUME NEW p \in Processes, Crash(p) PROVE TypeOK'
  <2>1. Threads(p) \in SUBSET Executors /\ TypeOK
    BY DEF Threads, MInv
  <2>2. completion' \in [Processes -> Entries]
    BY <1>1, <2>1, EmptyEntry DEF Crash, TypeOK
  <2>3. Leave(Threads(p)) /\ UNCHANGED <<store, history, holder, analyst>>
    BY <1>1 DEF Crash
  <2> QED BY <2>1, <2>2, <2>3, LeaveTypes DEF TypeOK, store, history, analyst
<1>2. ASSUME NEW r \in Runs, ExpireLease(r) PROVE TypeOK'
  BY <1>2 DEF ExpireLease, MInv, TypeOK, store, history, analyst, executor
<1>3. ASSUME UNCHANGED vars PROVE TypeOK'
  BY <1>3 DEF vars, MInv, TypeOK, store, history, analyst, executor
<1> QED BY <1>1, <1>2, <1>3, ExecutorTypes, AnalystTypes DEF Next, MInv

-----------------------------------------------------------------------------
(* What a step leaves alone.                                               *)

\* An executor that a step does not touch stays sound.
LEMMA ExecutorKeeps ==
  ASSUME NEW e \in Executors, ExecutorOK(e),
         pc'[e] = pc[e], work'[e] = work[e], own'[e] = own[e], taken'[e] = taken[e],
         pc[e] = "take" => Attribute(e)' = Attribute(e),
         finished \subseteq finished'
  PROVE  ExecutorOK(e)'
<1>1. (pc[e] # "idle" => work[e] \in Theses)'
  BY DEF ExecutorOK
<1>2. (pc[e] \in Written => work[e] \in finished)'
  BY DEF ExecutorOK
<1>3. (pc[e] \in Reading => Built(e))'
  BY DEF ExecutorOK, Built, Target
<1>4. (pc[e] = "take" => Attribute(e) = Entry(Target(e), own[e]))'
  BY DEF ExecutorOK, Target, Entry
<1>5. (pc[e] = "write" => taken[e] = Entry(Target(e), own[e]))'
  BY DEF ExecutorOK, Target, Entry
<1> QED BY <1>1, <1>2, <1>3, <1>4, <1>5 DEF ExecutorOK

\* An analyst that a step does not touch stays sound.
LEMMA AnalystKeeps ==
  ASSUME NEW a \in Analysts, AnalystOK(a),
         apc'[a] = apc[a], subject'[a] = subject[a], decision'[a] = decision[a],
         entryCopy'[a] = entryCopy[a],
         finished \subseteq finished'
  PROVE  AnalystOK(a)'
  BY DEF AnalystOK, ListsFinished

\* A sound entry in the place of one leaves all entries sound.
LEMMA EntriesKeep ==
  ASSUME TypeOK, ListsFinishedRuns, finished \subseteq finished',
         \/ memory' = memory
         \/ \E x, t, m : Put(x, t, m) /\ ListsFinished(t, m)'
  PROVE  ListsFinishedRuns'
<1>1. ASSUME NEW t \in Targets, memory'[t] = memory[t] PROVE ListsFinished(t, memory[t])'
  BY <1>1 DEF ListsFinishedRuns, ListsFinished
<1>2. CASE memory' = memory
  BY <1>1, <1>2 DEF ListsFinishedRuns
<1>3. ASSUME NEW x, NEW u, NEW m, Put(x, u, m), ListsFinished(u, m)',
             NEW t \in Targets
      PROVE  ListsFinished(t, memory[t])'
  <2>1. CASE t = u
    BY <1>3, <2>1 DEF Put, TypeOK, ListsFinished
  <2>2. CASE t # u
    BY <1>1, <1>3, <2>2 DEF Put, TypeOK
  <2> QED BY <2>1, <2>2
<1> QED BY <1>2, <1>3 DEF ListsFinishedRuns

-----------------------------------------------------------------------------
(* Steps of executors.                                                     *)

\* No step of an executor touches the calls of another.
LEMMA OthersKeep ==
  ASSUME MInv, OneExecutor, NEW e \in Executors, Execute(e), finished \subseteq finished',
         NEW f \in Executors, f # e
  PROVE  ExecutorOK(f)'
<1>1. TypeOK /\ ExecutorOK(f)
  BY DEF MInv
<1>2. pc'[f] = pc[f] /\ work'[f] = work[f] /\ own'[f] = own[f] /\ taken'[f] = taken[f]
  BY <1>1 DEF TypeOK, Goto, Leave, Execute, Arrive, ReadMemory, SetCompletion, TakeCompletion,
     WriteFinal, ClearCompletion, SaveAgain, Release, Raise
<1>3. Attribute(f)' = Attribute(f)
  BY <1>1, ProcessAssumption DEF TypeOK, Attribute, OneExecutor, Execute, Arrive, ReadMemory,
     SetCompletion, TakeCompletion, WriteFinal, ClearCompletion, SaveAgain, Release, Raise
<1> QED BY <1>1, <1>2, <1>3, ExecutorKeeps

\* Steps between store calls, and those that only read: all of an executor's
\* but the final write and the one after it.
LEMMA QuietSteps ==
  ASSUME MInv, NEW e \in Executors,
         \/ Arrive(e) \/ ReadMemory(e) \/ SetCompletion(e) \/ TakeCompletion(e)
         \/ ClearCompletion(e) \/ Release(e) \/ Raise(e)
  PROVE  UNCHANGED <<memory, finished, crossed>> /\ ExecutorOK(e)'
<1>0. TypeOK /\ ExecutorOK(e)
  BY DEF MInv
<1>1. UNCHANGED <<memory, finished, crossed>>
  BY DEF Arrive, ReadMemory, SetCompletion, TakeCompletion, ClearCompletion, Release, Raise,
     store, history
<1>2. CASE Arrive(e)
  <2>1. PICK r \in Runs : work' = [work EXCEPT ![e] = <<r, made + 1>>]
    BY <1>2 DEF Arrive
  <2>2. work'[e] \in Theses /\ pc'[e] = "build"
    BY <1>0, <1>2, <2>1 DEF Arrive, Goto, TypeOK, Theses
  <2> QED BY <1>1, <2>2 DEF ExecutorOK, Reading, Written
<1>3. CASE ReadMemory(e)
  <2>1. /\ pc[e] = "build" /\ pc'[e] = "set" /\ work'[e] = work[e]
        /\ own'[e] = WithThesis(memory[Target(e)], work[e])
    BY <1>0, <1>3 DEF ReadMemory, Goto, TypeOK
  <2>2. work[e] \in Theses /\ Target(e) \in Targets
    BY <1>0, <2>1, WorkTypes
  <2>3. memory[Target(e)] \in Memory /\ ListsFinished(Target(e), memory[Target(e)])
    BY <1>0, <2>2 DEF TypeOK, MInv, ListsFinishedRuns
  <2>4. own'[e].theses = memory[Target(e)].theses \cup {work[e]}
    BY <2>1, <2>2, <2>3, AddThesis
  <2>5. Built(e)'
    BY <1>1, <2>1, <2>3, <2>4 DEF Built, Target, ListsFinished
  <2> QED BY <1>1, <2>1, <2>2, <2>5 DEF ExecutorOK, Written
<1>4. CASE SetCompletion(e)
  <2>1. /\ pc[e] = "set" /\ pc'[e] = "take" /\ UNCHANGED <<work, own, taken>>
        /\ Attribute(e)' = Entry(Target(e), own[e])
    BY <1>0, <1>4, ProcessAssumption DEF SetCompletion, Goto, TypeOK, Attribute
  <2> QED BY <1>0, <1>1, <2>1 DEF ExecutorOK, Reading, Written, Built, Target
<1>5. CASE TakeCompletion(e)
  <2>1. /\ pc[e] = "take" /\ pc'[e] = "write" /\ UNCHANGED <<work, own>>
        /\ taken'[e] = Attribute(e)
    BY <1>0, <1>5 DEF TakeCompletion, Goto, TypeOK
  <2> QED BY <1>0, <1>1, <2>1 DEF ExecutorOK, Reading, Written, Built, Target
<1>6. CASE ClearCompletion(e)
  <2>1. /\ pc[e] = "clear" /\ pc'[e] \in {"again", "release"} /\ UNCHANGED <<work, own, taken>>
    BY <1>0, <1>6 DEF ClearCompletion, Goto, TypeOK
  <2> QED BY <1>0, <1>1, <2>1 DEF ExecutorOK, Reading, Written, Built, Target
<1>7. CASE Release(e)
  <2>1. pc'[e] = "idle"
    BY <1>7 DEF Release, Leave
  <2> QED BY <1>1, <2>1 DEF ExecutorOK, Reading, Written
<1>8. CASE Raise(e)
  <2>1. pc[e] # "idle" /\ pc'[e] = "release" /\ UNCHANGED work
    BY <1>0, <1>8 DEF Raise, Goto, TypeOK
  <2> QED BY <1>0, <1>1, <2>1 DEF ExecutorOK, Reading, Written
<1> QED BY <1>1, <1>2, <1>3, <1>4, <1>5, <1>6, <1>7, <1>8

\* The final write: the run alone is not written, because the attribute is the
\* executor's own.
LEMMA WriteFinalEffect ==
  ASSUME MInv, NEW e \in Executors, WriteFinal(e)
  PROVE  /\ pc[e] = "write" /\ work[e] \in Theses /\ Target(e) \in Targets /\ Built(e)
         /\ UNCHANGED <<completion, holder, work, own, taken>>
         /\ \/ UNCHANGED <<memory, finished, crossed>> /\ pc' = [pc EXCEPT ![e] = "release"]
            \/ /\ Owns(e) /\ finished' = finished \cup {work[e]}
               /\ Put(e, Target(e), own[e]) /\ pc' = [pc EXCEPT ![e] = "clear"]
<1>1. TypeOK /\ ExecutorOK(e) /\ pc[e] = "write"
  BY DEF MInv, WriteFinal
<1>2. work[e] \in Theses /\ Target(e) \in Targets
  BY <1>1, WorkTypes
<1>3. Built(e) /\ taken[e] = Entry(Target(e), own[e]) /\ own[e] \in Memory
  BY <1>1 DEF ExecutorOK, Reading, TypeOK
<1>4. taken[e].target = Target(e) /\ taken[e].memory = own[e]
  BY <1>2, <1>3, EntryFields
<1>5. taken[e] # NoEntry
  BY <1>3, <1>4 DEF NoEntry, Entry, Empty, Built
<1> QED BY <1>1, <1>2, <1>3, <1>4, <1>5 DEF WriteFinal, Finish, Goto, store

LEMMA WriteFinalStep ==
  ASSUME MInv, NEW e \in Executors, WriteFinal(e)
  PROVE  ListsFinishedRuns' /\ ExecutorOK(e)' /\ finished \subseteq finished'
<1>0. TypeOK /\ ExecutorOK(e)
  BY DEF MInv
<1>1. CASE UNCHANGED <<memory, finished, crossed>> /\ pc' = [pc EXCEPT ![e] = "release"]
  <2>1. ListsFinishedRuns'
    BY <1>0, <1>1, EntriesKeep DEF MInv
  <2> QED BY <1>0, <1>1, <2>1, WriteFinalEffect DEF ExecutorOK, Reading, Written, TypeOK
<1>2. CASE /\ Owns(e) /\ finished' = finished \cup {work[e]}
           /\ Put(e, Target(e), own[e]) /\ pc' = [pc EXCEPT ![e] = "clear"]
  <2>3. \A x \in own[e].theses : x \in finished' /\ TargetOf[x[1]] = Target(e)
    BY <1>2, WriteFinalEffect DEF Built
  <2>4. \E x, t, m : Put(x, t, m) /\ ListsFinished(t, m)'
    <3>1. PICK t, m : t = Target(e) /\ m = own[e]
      OBVIOUS
    <3>2. ListsFinished(t, m)'
      BY <2>3, <3>1 DEF ListsFinished
    <3> QED BY <1>2, <3>1, <3>2
  <2>5. ListsFinishedRuns'
    BY <1>0, <1>2, <2>4, EntriesKeep DEF MInv
  <2>6. pc'[e] = "clear" /\ work'[e] \in Theses /\ work'[e] \in finished'
    BY <1>0, <1>2, WriteFinalEffect DEF TypeOK
  <2>7. Built(e)'
    <3>1. UNCHANGED <<work, own>> /\ work[e] \in own[e].theses
      BY WriteFinalEffect DEF Built
    <3> QED BY <2>3, <3>1 DEF Built, Target
  <2> QED BY <1>2, <2>5, <2>6, <2>7 DEF ExecutorOK
<1> QED BY <1>1, <1>2, WriteFinalEffect

\* The second save writes the same entry again.
LEMMA SaveAgainEffect ==
  ASSUME MInv, NEW e \in Executors, SaveAgain(e)
  PROVE  /\ pc[e] = "again" /\ pc' = [pc EXCEPT ![e] = "release"]
         /\ work[e] \in Theses /\ Target(e) \in Targets /\ work[e] \in finished /\ Built(e)
         /\ UNCHANGED <<finished, completion, holder, work, own, taken>>
         /\ \/ UNCHANGED <<memory, crossed>>
            \/ Owns(e) /\ Put(e, Target(e), own[e])
<1>1. TypeOK /\ ExecutorOK(e) /\ pc[e] = "again"
  BY DEF MInv, SaveAgain
<1>2. work[e] \in Theses /\ Target(e) \in Targets
  BY <1>1, WorkTypes
<1> QED BY <1>1, <1>2 DEF SaveAgain, Goto, ExecutorOK, Reading, Written

LEMMA SaveAgainStep ==
  ASSUME MInv, NEW e \in Executors, SaveAgain(e)
  PROVE  ListsFinishedRuns' /\ ExecutorOK(e)'
<1>0. TypeOK
  BY DEF MInv
<1>1. ListsFinishedRuns'
  <2>1. CASE UNCHANGED <<memory, crossed>>
    BY <1>0, <2>1, EntriesKeep, SaveAgainEffect DEF MInv
  <2>2. CASE Owns(e) /\ Put(e, Target(e), own[e])
    <3>1. PICK t, m : t = Target(e) /\ m = own[e]
      OBVIOUS
    <3>2. ListsFinished(t, m)'
      BY <3>1, SaveAgainEffect DEF ListsFinished, Built
    <3>3. \E x, u, n : Put(x, u, n) /\ ListsFinished(u, n)'
      BY <2>2, <3>1, <3>2
    <3> QED BY <1>0, <3>3, EntriesKeep, SaveAgainEffect DEF MInv
  <2> QED BY <2>1, <2>2, SaveAgainEffect
<1>2. pc'[e] = "release" /\ work'[e] \in Theses
  BY <1>0, SaveAgainEffect DEF TypeOK
<1> QED BY <1>1, <1>2 DEF ExecutorOK, Reading, Written

-----------------------------------------------------------------------------
(* Steps of processes, leases and analysts.                                *)

\* A crash ends the calls of a process; an expiry takes a lease away.
LEMMA FaultSteps ==
  ASSUME MInv, (\E p \in Processes : Crash(p)) \/ (\E r \in Runs : ExpireLease(r))
  PROVE  UNCHANGED <<memory, finished, crossed>> /\ \A f \in Executors : ExecutorOK(f)'
<1>0. TypeOK /\ \A f \in Executors : ExecutorOK(f)
  BY DEF MInv
<1>1. UNCHANGED <<memory, finished, crossed>>
  BY DEF Crash, ExpireLease, store, history
<1>2. ASSUME NEW p \in Processes, Crash(p), NEW f \in Executors PROVE ExecutorOK(f)'
  <2>1. CASE f \in Threads(p)
    <3>1. pc'[f] = "idle"
      BY <1>2, <2>1 DEF Crash, Leave
    <3> QED BY <3>1 DEF ExecutorOK, Reading, Written
  <2>2. CASE f \notin Threads(p)
    <3>1. pc'[f] = pc[f] /\ work'[f] = work[f] /\ own'[f] = own[f] /\ taken'[f] = taken[f]
      BY <1>2, <2>2 DEF Crash, Leave
    <3>2. Attribute(f)' = Attribute(f)
      BY <1>0, <1>2, <2>2, ProcessAssumption DEF Crash, Threads, Attribute, TypeOK
    <3> QED BY <1>0, <1>1, <3>1, <3>2, ExecutorKeeps
  <2> QED BY <2>1, <2>2
<1>3. ASSUME NEW r \in Runs, ExpireLease(r), NEW f \in Executors PROVE ExecutorOK(f)'
  BY <1>0, <1>1, <1>3, ExecutorKeeps DEF ExpireLease, executor, Attribute
<1> QED BY <1>1, <1>2, <1>3

\* An analyst leaves the executors alone, and the theses that an entry lists as
\* they were when the analyst read it.
LEMMA DecideSteps ==
  ASSUME MInv, NEW a \in Analysts, Decide(a)
  PROVE  /\ ListsFinishedRuns'
         /\ \A f \in Executors : ExecutorOK(f)'
         /\ \A b \in Analysts : AnalystOK(b)'
<1>0. TypeOK /\ AnalystOK(a)
  BY DEF MInv
<1>1. UNCHANGED <<finished, holder, completion, executor>>
  BY DEF Decide, ReadRun, ReadEntry, SaveEntry, ReadToReplan, PersistCopy, Abort, history
<1>2. ASSUME NEW f \in Executors PROVE ExecutorOK(f)'
  <2>1. ExecutorOK(f)
    BY DEF MInv
  <2> QED BY <1>1, <2>1, ExecutorKeeps DEF executor, Attribute
<1>3. ListsFinishedRuns'
  <2>1. CASE memory' = memory
    BY <1>0, <1>1, <2>1, EntriesKeep DEF MInv
  <2>2. CASE SaveEntry(a)
    <3>1. /\ entryCopy[a] \in Memory /\ decision[a] \in Decisions
          /\ ListsFinished(TargetOf[subject[a]], entryCopy[a])
      BY <1>0, <2>2 DEF SaveEntry, AnalystOK, TypeOK
    <3>2. PICK t, m : t = TargetOf[subject[a]] /\ m = WithDecision(entryCopy[a], decision[a])
      OBVIOUS
    <3>3. ListsFinished(t, m)'
      BY <1>1, <3>1, <3>2, AddDecision DEF ListsFinished
    <3>4. \E x, u, n : Put(x, u, n) /\ ListsFinished(u, n)'
      BY <2>2, <3>2, <3>3 DEF SaveEntry
    <3> QED BY <1>0, <1>1, <3>4, EntriesKeep DEF MInv
  <2> QED BY <2>1, <2>2 DEF Decide, ReadRun, ReadEntry, ReadToReplan, PersistCopy, Abort, store
<1>4. ASSUME NEW b \in Analysts, b # a PROVE AnalystOK(b)'
  <2>1. /\ AnalystOK(b)
        /\ apc'[b] = apc[b] /\ subject'[b] = subject[b] /\ decision'[b] = decision[b]
        /\ entryCopy'[b] = entryCopy[b]
    BY <1>0, <1>4 DEF MInv, TypeOK, Decide, AGoto, Reset,
       ReadRun, ReadEntry, SaveEntry, ReadToReplan, PersistCopy, Abort
  <2> QED BY <1>1, <2>1, AnalystKeeps
<1>5. AnalystOK(a)'
  <2>1. CASE ReadRun(a)
    <3>1. apc'[a] = "entry" /\ subject'[a] \in Runs /\ decision'[a] \in Decisions
      BY <1>0, <2>1 DEF ReadRun, AGoto, TypeOK
    <3> QED BY <3>1 DEF AnalystOK
  <2>2. CASE ReadEntry(a)
    <3>1. /\ apc[a] = "entry" /\ apc'[a] \in {"save", "persist"}
          /\ subject' = subject /\ decision' = decision
          /\ entryCopy'[a] = memory[TargetOf[subject[a]]]
      BY <1>0, <2>2 DEF ReadEntry, AGoto, TypeOK
    <3>2. subject[a] \in Runs /\ decision[a] \in Decisions
      BY <1>0, <3>1 DEF AnalystOK
    <3>3. ListsFinished(TargetOf[subject[a]], memory[TargetOf[subject[a]]])
      BY <3>2, TargetAssumption DEF MInv, ListsFinishedRuns
    <3> QED BY <1>1, <3>1, <3>2, <3>3 DEF AnalystOK, ListsFinished
  <2>3. CASE SaveEntry(a)
    <3>1. apc[a] = "save" /\ apc'[a] = "persist" /\ UNCHANGED subject
      BY <1>0, <2>3 DEF SaveEntry, AGoto, TypeOK
    <3> QED BY <1>0, <3>1 DEF AnalystOK
  <2>4. CASE ReadToReplan(a)
    <3>1. apc'[a] = "persist" /\ subject'[a] \in Runs
      BY <1>0, <2>4 DEF ReadToReplan, AGoto, TypeOK
    <3> QED BY <3>1 DEF AnalystOK
  <2>5. CASE PersistCopy(a) \/ Abort(a)
    <3>1. apc'[a] = "idle"
      BY <1>0, <2>5 DEF PersistCopy, Abort, Reset, AGoto, TypeOK
    <3> QED BY <3>1 DEF AnalystOK
  <2> QED BY <2>1, <2>2, <2>3, <2>4, <2>5 DEF Decide
<1> QED BY <1>2, <1>3, <1>4, <1>5

-----------------------------------------------------------------------------

\* Executors and faults leave the analysts' copies alone.
LEMMA OthersAnalysts ==
  ASSUME MInv, UNCHANGED analyst, finished \subseteq finished'
  PROVE  \A a \in Analysts : AnalystOK(a)'
  BY AnalystKeeps DEF MInv, analyst

\* The invariant is inductive.
LEMMA NextMInv ==
  ASSUME OneExecutor, MInv, [Next]_vars
  PROVE  MInv'
<1>0. TypeOK' /\ TypeOK
  BY NextTypes DEF MInv
<1>1. ASSUME NEW e \in Executors, Execute(e) PROVE MInv'
  <2>1. ListsFinishedRuns' /\ ExecutorOK(e)' /\ finished \subseteq finished'
    <3>1. CASE WriteFinal(e)
      BY <3>1, WriteFinalStep
    <3>2. CASE SaveAgain(e)
      BY <3>2, SaveAgainStep, SaveAgainEffect
    <3>3. CASE ~WriteFinal(e) /\ ~SaveAgain(e)
      <4>1. UNCHANGED <<memory, finished, crossed>> /\ ExecutorOK(e)'
        BY <1>1, <3>3, QuietSteps DEF Execute
      <4> QED BY <1>0, <4>1, EntriesKeep DEF MInv
    <3> QED BY <3>1, <3>2, <3>3
  <2>2. \A f \in Executors : ExecutorOK(f)'
    BY <1>1, <2>1, OthersKeep
  <2>3. UNCHANGED analyst
    BY <1>1 DEF Execute, Arrive, ReadMemory, SetCompletion, TakeCompletion,
       WriteFinal, ClearCompletion, SaveAgain, Release, Raise
  <2> QED BY <1>0, <2>1, <2>2, <2>3, OthersAnalysts DEF MInv
<1>2. ASSUME NEW a \in Analysts, Decide(a) PROVE MInv'
  BY <1>0, <1>2, DecideSteps DEF MInv
<1>3. ASSUME (\E p \in Processes : Crash(p)) \/ (\E r \in Runs : ExpireLease(r)) PROVE MInv'
  <2>1. UNCHANGED analyst
    BY <1>3 DEF Crash, ExpireLease
  <2>2. UNCHANGED <<memory, finished>> /\ \A f \in Executors : ExecutorOK(f)'
    BY <1>3, FaultSteps
  <2>3. ListsFinishedRuns'
    BY <1>0, <2>2, EntriesKeep DEF MInv
  <2> QED BY <1>0, <2>1, <2>2, <2>3, OthersAnalysts DEF MInv
<1>4. ASSUME UNCHANGED vars PROVE MInv'
  <2>1. ListsFinishedRuns'
    BY <1>0, <1>4, EntriesKeep DEF MInv, vars, store, history
  <2>2. \A e \in Executors : ExecutorOK(e)'
    BY <1>4, ExecutorKeeps DEF MInv, vars, store, history, executor, Attribute
  <2> QED BY <1>0, <1>4, <2>1, <2>2, OthersAnalysts DEF MInv, vars, history
<1> QED BY <1>1, <1>2, <1>3, <1>4 DEF Next

\* Where every process runs one execute call at a time, all variables keep their
\* types.
THEOREM TypeCorrect ==
  ASSUME OneExecutor
  PROVE  Spec => []TypeOK
<1>1. Init => MInv
  BY InitRInv DEF RInv
<1>2. MInv /\ [Next]_vars => MInv'
  BY NextMInv
<1>3. MInv => TypeOK
  BY DEF MInv
<1> QED BY <1>1, <1>2, <1>3, PTL DEF Spec

\* Where every process runs one execute call at a time, entries list only theses
\* of their target with which a run was finished, whatever the runs' targets are
\* and however often a run is replanned.
THEOREM NoPhantomRuns ==
  ASSUME OneExecutor
  PROVE  Spec => []ListsFinishedRuns
<1>1. Init => MInv
  BY InitRInv DEF RInv
<1>2. MInv /\ [Next]_vars => MInv'
  BY NextMInv
<1>3. MInv => ListsFinishedRuns
  BY DEF MInv
<1> QED BY <1>1, <1>2, <1>3, PTL DEF Spec

-----------------------------------------------------------------------------
(* Nothing is lost where nothing crosses.                                  *)

\* A write of the entry of t by x, which read all that the entry lists, leaves it
\* complete if it does not cross another's read and write.
LEMMA PutComplete ==
  ASSUME TypeOK, NEW t \in Targets, Complete(t), t \notin crossed', NEW x, NEW m, Put(x, t, m),
         memory[t].theses \subseteq m.theses,
         \A y \in finished' : y \in finished \/ y \in m.theses,
         \A e \in Executors \ {x} :
           /\ pc'[e] = pc[e] /\ work'[e] = work[e] /\ own'[e] = own[e]
           /\ pc[e] # "idle" /\ Owns(e)' => Owns(e),
         \A a \in Analysts \ {x} :
           apc'[a] = apc[a] /\ subject'[a] = subject[a] /\ entryCopy'[a] = entryCopy[a],
         x \in Executors => pc'[x] \notin Reading \/ own'[x].theses = m.theses,
         x \in Analysts => apc'[x] # "save"
  PROVE  Complete(t)'
<1>1. memory'[t] = m
  BY DEF Put, TypeOK
<1>2. m.theses = memory[t].theses \/ Pending(t) \subseteq {x}
  BY DEF Put
<1>3. \A y \in finished' : TargetOf[y[1]] = t => y \in m.theses
  BY DEF Complete
<1>4. ASSUME NEW e \in Executors PROVE ExecutorRead(e, t)'
  <2> SUFFICES ASSUME pc'[e] \in Reading, Owns(e)', Target(e)' = t
               PROVE  m.theses \subseteq own'[e].theses
    BY <1>1 DEF ExecutorRead
  <2>1. CASE e = x
    BY <2>1
  <2>2. CASE e # x
    <3>1. pc[e] \in Reading /\ Owns(e) /\ Target(e) = t /\ own'[e] = own[e]
      BY <2>2 DEF Reading, Target
    <3>2. e \in Pending(t)
      BY <3>1 DEF Pending, Reading
    <3> QED BY <1>2, <2>2, <3>1, <3>2 DEF Complete, ExecutorRead
  <2> QED BY <2>1, <2>2
<1>5. ASSUME NEW a \in Analysts PROVE AnalystRead(a, t)'
  <2> SUFFICES ASSUME apc'[a] = "save", TargetOf[subject'[a]] = t
               PROVE  m.theses \subseteq entryCopy'[a].theses
    BY <1>1 DEF AnalystRead
  <2>1. a # x
    OBVIOUS
  <2>2. apc[a] = "save" /\ TargetOf[subject[a]] = t /\ entryCopy'[a] = entryCopy[a]
    BY <2>1
  <2>3. a \in Pending(t)
    BY <2>2 DEF Pending
  <2> QED BY <1>2, <2>1, <2>2, <2>3 DEF Complete, AnalystRead
<1> QED BY <1>1, <1>3, <1>4, <1>5 DEF Complete

\* A step that leaves the entry of t alone leaves it complete, if who reads the
\* entry in this step reads all of it.
LEMMA SameComplete ==
  ASSUME NEW t \in Targets, Complete(t), memory'[t] = memory[t],
         \A y \in finished' : y \in finished \/ TargetOf[y[1]] # t,
         \A e \in Executors : ExecutorRead(e, t) => ExecutorRead(e, t)',
         \A a \in Analysts : AnalystRead(a, t) => AnalystRead(a, t)'
  PROVE  Complete(t)'
  BY DEF Complete

\* A step of e leaves the other executors, and a lease of theirs, alone.
LEMMA OtherCalls ==
  ASSUME MInv, NEW e \in Executors, Execute(e), NEW f \in Executors, f # e
  PROVE  /\ pc'[f] = pc[f] /\ work'[f] = work[f] /\ own'[f] = own[f]
         /\ pc[f] # "idle" /\ Owns(f)' => Owns(f)
<1>1. TypeOK /\ ExecutorOK(f)
  BY DEF MInv
<1>2. pc'[f] = pc[f] /\ work'[f] = work[f] /\ own'[f] = own[f]
  BY <1>1 DEF TypeOK, Goto, Leave, Execute, Arrive, ReadMemory, SetCompletion, TakeCompletion,
     WriteFinal, ClearCompletion, SaveAgain, Release, Raise
<1>3. ASSUME pc[f] # "idle", holder'[work[f][1]] = f PROVE holder[work[f][1]] = f
  <2>1. work[f][1] \in Runs
    BY <1>1, <1>3, WorkTypes
  <2>2. CASE holder' = holder
    BY <1>3, <2>2
  <2>3. CASE Arrive(e)
    BY <1>1, <1>3, <2>1, <2>3 DEF Arrive, TypeOK
  <2>4. CASE Release(e)
    BY <1>1, <1>3, <2>1, <2>4, ProcessAssumption DEF Release, TypeOK
  <2> QED
    BY <2>2, <2>3, <2>4 DEF Execute, ReadMemory, SetCompletion, TakeCompletion,
       WriteFinal, ClearCompletion, SaveAgain, Raise
<1> QED BY <1>2, <1>3 DEF Owns

\* A step of e that leaves the entry of t alone: e itself reads all of it.
LEMMA OwnRead ==
  ASSUME MInv, NEW e \in Executors, Execute(e), NEW t \in Targets, memory'[t] = memory[t],
         ExecutorRead(e, t)
  PROVE  ExecutorRead(e, t)'
<1>0. TypeOK /\ ExecutorOK(e)
  BY DEF MInv
<1>1. CASE ReadMemory(e)
  <2>1. own'[e] = WithThesis(memory[Target(e)], work[e]) /\ pc[e] # "idle" /\ work' = work
    BY <1>0, <1>1 DEF ReadMemory, TypeOK
  <2>2. own'[e].theses = memory[Target(e)].theses \cup {work[e]}
    BY <1>0, <2>1, WorkTypes, AddThesis DEF TypeOK
  <2> QED BY <2>1, <2>2 DEF ExecutorRead, Target
<1>2. CASE pc'[e] \notin Reading
  BY <1>2 DEF ExecutorRead
<1>3. CASE ~ReadMemory(e) /\ pc'[e] \in Reading
  <2>1. pc[e] \in Reading /\ UNCHANGED <<holder, work, own>>
    BY <1>0, <1>3 DEF Reading, Execute, Goto, Leave, TypeOK, Arrive, SetCompletion,
       TakeCompletion, WriteFinal, ClearCompletion, SaveAgain, Release, Raise
  <2> QED BY <1>3, <2>1 DEF ExecutorRead, Owns, Target
<1> QED BY <1>1, <1>2, <1>3

\* Steps of executors.
LEMMA ExecuteComplete ==
  ASSUME MInv, NEW e \in Executors, Execute(e),
         NEW t \in Targets, Complete(t), t \notin crossed'
  PROVE  Complete(t)'
<1>0. TypeOK
  BY DEF MInv
<1>1. UNCHANGED analyst
  BY DEF Execute, Arrive, ReadMemory, SetCompletion, TakeCompletion,
     WriteFinal, ClearCompletion, SaveAgain, Release, Raise
<1>2. ASSUME memory'[t] = memory[t], \A y \in finished' : y \in finished \/ TargetOf[y[1]] # t
      PROVE  Complete(t)'
  <2>1. ASSUME NEW f \in Executors, ExecutorRead(f, t) PROVE ExecutorRead(f, t)'
    <3>1. CASE f = e
      BY <1>2, <2>1, <3>1, OwnRead
    <3>2. CASE f # e
      <4>1. /\ pc'[f] = pc[f] /\ work'[f] = work[f] /\ own'[f] = own[f]
            /\ pc[f] # "idle" /\ Owns(f)' => Owns(f)
        BY <3>2, OtherCalls
      <4> QED BY <1>2, <2>1, <4>1 DEF ExecutorRead, Reading, Target
    <3> QED BY <3>1, <3>2
  <2>2. \A a \in Analysts : AnalystRead(a, t) => AnalystRead(a, t)'
    BY <1>1, <1>2 DEF AnalystRead, analyst
  <2> QED BY <1>2, <2>1, <2>2, SameComplete
<1>3. ASSUME Put(e, Target(e), own[e]), Owns(e), pc[e] \in {"write", "again"},
             Target(e) \in Targets, UNCHANGED own,
             finished' = finished \/ finished' = finished \cup {work[e]},
             work[e] \in own[e].theses
      PROVE  Complete(t)'
  <2>1. CASE Target(e) = t
    <3>1. memory[t].theses \subseteq own[e].theses
      BY <1>3, <2>1 DEF Complete, ExecutorRead, Reading
    <3>2. \A y \in finished' : y \in finished \/ y \in own[e].theses
      BY <1>3
    <3>3. \A a \in Analysts \ {e} :
            apc'[a] = apc[a] /\ subject'[a] = subject[a] /\ entryCopy'[a] = entryCopy[a]
      BY <1>1 DEF analyst
    <3>4. e \in Executors => pc'[e] \notin Reading \/ own'[e].theses = own[e].theses
      BY <1>3
    <3>5. e \notin Analysts
      BY ProcessAssumption
    <3>6. \A f \in Executors \ {e} :
           /\ pc'[f] = pc[f] /\ work'[f] = work[f] /\ own'[f] = own[f]
           /\ pc[f] # "idle" /\ Owns(f)' => Owns(f)
      BY OtherCalls
    <3>7. Put(e, t, own[e])
      BY <1>3, <2>1
    <3> QED BY <1>0, <3>1, <3>2, <3>3, <3>4, <3>5, <3>6, <3>7, PutComplete
  <2>2. CASE Target(e) # t
    <3>1. memory'[t] = memory[t]
      BY <1>0, <1>3, <2>2 DEF Put, TypeOK
    <3>2. TargetOf[work[e][1]] # t
      BY <2>2 DEF Target
    <3> QED BY <1>2, <1>3, <3>1, <3>2
  <2> QED BY <2>1, <2>2
<1>4. CASE WriteFinal(e)
  BY <1>2, <1>3, <1>4, WriteFinalEffect DEF Built
<1>5. CASE SaveAgain(e)
  BY <1>2, <1>3, <1>5, SaveAgainEffect DEF Built
<1>6. CASE ~WriteFinal(e) /\ ~SaveAgain(e)
  <2>1. UNCHANGED <<memory, finished, crossed>>
    BY <1>6, QuietSteps DEF Execute
  <2> QED BY <1>2, <2>1
<1> QED BY <1>4, <1>5, <1>6

\* Steps of analysts.
LEMMA DecideComplete ==
  ASSUME MInv, NEW a \in Analysts, Decide(a),
         NEW t \in Targets, Complete(t), t \notin crossed'
  PROVE  Complete(t)'
<1>0. TypeOK /\ AnalystOK(a)
  BY DEF MInv
<1>1. UNCHANGED <<finished, holder, executor>>
  BY DEF Decide, ReadRun, ReadEntry, SaveEntry, ReadToReplan, PersistCopy, Abort, history
<1>2. ASSUME NEW b \in Analysts, b # a
      PROVE  apc'[b] = apc[b] /\ subject'[b] = subject[b] /\ entryCopy'[b] = entryCopy[b]
  BY <1>0, <1>2 DEF TypeOK, Decide, AGoto, Reset,
     ReadRun, ReadEntry, SaveEntry, ReadToReplan, PersistCopy, Abort
<1>3. ASSUME memory'[t] = memory[t], AnalystRead(a, t) => AnalystRead(a, t)'
      PROVE  Complete(t)'
  <2>1. \A e \in Executors : ExecutorRead(e, t) => ExecutorRead(e, t)'
    BY <1>1, <1>3 DEF ExecutorRead, executor, Owns, Target
  <2>2. \A b \in Analysts : AnalystRead(b, t) => AnalystRead(b, t)'
    BY <1>2, <1>3 DEF AnalystRead
  <2> QED BY <1>1, <1>3, <2>1, <2>2, SameComplete
<1>4. CASE SaveEntry(a)
  <2>1. /\ apc[a] = "save" /\ subject[a] \in Runs /\ decision[a] \in Decisions
        /\ entryCopy[a] \in Memory
        /\ Put(a, TargetOf[subject[a]], WithDecision(entryCopy[a], decision[a]))
        /\ apc'[a] = "persist"
    BY <1>0, <1>4 DEF SaveEntry, AnalystOK, AGoto, TypeOK
  <2>2. CASE TargetOf[subject[a]] = t
    <3> DEFINE m == WithDecision(entryCopy[a], decision[a])
    <3>1. m.theses = entryCopy[a].theses
      BY <2>1, AddDecision
    <3>2. memory[t].theses \subseteq m.theses
      BY <2>1, <2>2, <3>1 DEF Complete, AnalystRead
    <3>3. \A e \in Executors \ {a} :
            /\ pc'[e] = pc[e] /\ work'[e] = work[e] /\ own'[e] = own[e]
            /\ pc[e] # "idle" /\ Owns(e)' => Owns(e)
      BY <1>1 DEF executor, Owns
    <3>4. a \notin Executors /\ apc'[a] # "save"
      BY <2>1, ProcessAssumption
    <3>5. Put(a, t, m) /\ \A y \in finished' : y \in finished \/ y \in m.theses
      BY <1>1, <2>1, <2>2
    <3>6. \A b \in Analysts \ {a} :
            apc'[b] = apc[b] /\ subject'[b] = subject[b] /\ entryCopy'[b] = entryCopy[b]
      BY <1>2
    <3> HIDE DEF m
    <3> QED BY <1>0, <3>2, <3>3, <3>4, <3>5, <3>6, PutComplete
  <2>3. CASE TargetOf[subject[a]] # t
    <3>1. memory'[t] = memory[t]
      BY <1>0, <2>1, <2>3 DEF Put, TypeOK
    <3> QED BY <1>3, <2>1, <3>1 DEF AnalystRead
  <2> QED BY <2>2, <2>3
<1>5. CASE ReadEntry(a)
  <2>1. /\ memory' = memory /\ subject' = subject
        /\ entryCopy'[a] = memory[TargetOf[subject[a]]]
    BY <1>0, <1>5 DEF ReadEntry, TypeOK, store
  <2> QED BY <1>3, <2>1 DEF AnalystRead
<1>6. CASE ~SaveEntry(a) /\ ~ReadEntry(a)
  <2>1. memory' = memory /\ apc'[a] # "save"
    BY <1>0, <1>6 DEF Decide, ReadRun, ReadToReplan, PersistCopy, Abort, Reset, AGoto, TypeOK,
       store
  <2> QED BY <1>3, <2>1 DEF AnalystRead
<1> QED BY <1>4, <1>5, <1>6

\* Crashes, lost leases and stuttering.
LEMMA FaultComplete ==
  ASSUME MInv, NEW t \in Targets, Complete(t),
         \/ \E p \in Processes : Crash(p)
         \/ \E r \in Runs : ExpireLease(r)
         \/ UNCHANGED vars
  PROVE  Complete(t)'
<1>0. TypeOK
  BY DEF MInv
<1>1. UNCHANGED <<memory, finished, analyst>>
  BY DEF Crash, ExpireLease, vars, store, history
<1>2. ASSUME NEW e \in Executors, ExecutorRead(e, t) PROVE ExecutorRead(e, t)'
  <2>1. \/ pc'[e] = "idle"
        \/ pc'[e] = pc[e] /\ work'[e] = work[e] /\ own'[e] = own[e]
    BY DEF Crash, Leave, ExpireLease, vars, executor
  <2>2. pc[e] # "idle" /\ holder'[work[e][1]] = e => holder[work[e][1]] = e
    <3> SUFFICES ASSUME pc[e] # "idle", holder'[work[e][1]] = e PROVE holder[work[e][1]] = e
      OBVIOUS
    <3>1. work[e][1] \in Runs
      BY <1>0, WorkTypes DEF MInv
    <3> QED BY <1>0, <3>1, ProcessAssumption DEF Crash, ExpireLease, vars, TypeOK
  <2> QED BY <1>1, <1>2, <2>1, <2>2 DEF ExecutorRead, Owns, Target, Reading
<1>3. \A a \in Analysts : AnalystRead(a, t) => AnalystRead(a, t)'
  BY <1>1 DEF AnalystRead, analyst
<1> QED BY <1>1, <1>2, <1>3, SameComplete

\* A target that was crossed once stays so.
LEMMA CrossedGrows ==
  ASSUME [Next]_vars
  PROVE  crossed \subseteq crossed'
<1>1. ASSUME NEW e \in Executors, Execute(e) PROVE crossed \subseteq crossed'
  BY <1>1 DEF Execute, Arrive, ReadMemory, SetCompletion, TakeCompletion,
     WriteFinal, ClearCompletion, SaveAgain, Release, Raise, Put, store, history
<1>2. ASSUME NEW a \in Analysts, Decide(a) PROVE crossed \subseteq crossed'
  BY <1>2 DEF Decide, ReadRun, ReadEntry, SaveEntry, ReadToReplan, PersistCopy, Abort, Put, history
<1> QED BY <1>1, <1>2 DEF Next, Crash, ExpireLease, vars, history

\* Where every process runs one execute call at a time, a thesis with which a run
\* was stored as COMPLETED or PARTIAL is listed in the memory from then on, in
\* every round of the run and however many runs share its target, unless for that
\* target an entry with other theses was written between another's read and write.
THEOREM Remembered ==
  ASSUME OneExecutor
  PROVE  Spec => []FinishedRemembered
<1>1. ASSUME RInv, [Next]_vars PROVE RInv'
  <2>1. MInv /\ MInv'
    BY <1>1, NextMInv DEF RInv
  <2>2. ASSUME NEW t \in Targets, t \notin crossed' PROVE Complete(t)'
    <3>1. Complete(t)
      BY <1>1, <2>2, CrossedGrows DEF RInv
    <3> QED BY <1>1, <2>1, <2>2, <3>1, ExecuteComplete, DecideComplete, FaultComplete DEF Next
  <2> QED BY <2>1, <2>2 DEF RInv
<1>2. RInv => FinishedRemembered
  BY TargetAssumption DEF RInv, MInv, TypeOK, Theses, Complete, FinishedRemembered
<1> QED BY InitRInv, <1>1, <1>2, PTL DEF Spec
=============================================================================
