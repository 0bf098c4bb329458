-------------------------- MODULE CompletionMemory --------------------------
(***************************************************************************)
(* The investment memory: one entry per target, which an executor extends  *)
(* when it finishes a run and an analyst when a decision is recorded.  The *)
(* executor's new entry waits in an attribute of its engine, which all     *)
(* threads of a process share, for the final write of the run.             *)
(*                                                                         *)
(* A run enters here VERIFYING with its claims done; RunExecution has the  *)
(* steps before.  A run that ends PARTIAL can be replanned and finished    *)
(* again, with another thesis: a thesis is a pair of its run and a number. *)
(* An entry is the theses and the decisions it lists (its runs are those   *)
(* of the theses, one occurrence for each); no thesis stands for no entry. *)
(***************************************************************************)
EXTENDS Integers

CONSTANTS
  Runs, Targets,
  TargetOf,     \* the target of the run's case
  Processes,    \* each has one engine
  Executors,    \* threads in execute
  ProcessOf,    \* the process of an executor
  Analysts,     \* threads in record_decision or replan
  Decisions,
  MaxTheses,    \* bound: executions that make a thesis
  Nobody, Nothing

ASSUME TargetAssumption == TargetOf \in [Runs -> Targets]
ASSUME ProcessAssumption ==
  /\ ProcessOf \in [Executors -> Processes]
  /\ Nobody \notin Executors /\ Executors \cap Analysts = {}
ASSUME BoundAssumption == MaxTheses \in Nat

VARIABLES
  thesis,     \* per run: the thesis of its payload, 0 if it is not finished
  memory,     \* per target
  made,       \* history: how many theses were made, the number of the next
  finished,   \* history: the theses whose run was stored with its final event
  crossed,    \* history: targets with a write between another's read and write
  holder,     \* per run: whose lease it has
  completion, \* per process: _pending_completion_memory
  pc, work,   \* per executor: its next call, and the thesis it finishes
  own, taken, \* per executor: the entry it built, and the one it writes
  apc, subject, decision,   \* per analyst: next call, run and decision
  runCopy, entryCopy        \* per analyst: the thesis and the entry it writes

store == <<thesis, memory>>
history == <<made, finished, crossed>>
executor == <<pc, work, own, taken>>
analyst == <<apc, subject, decision, runCopy, entryCopy>>
vars == <<store, history, holder, completion, executor, analyst>>

Empty == [theses |-> {}, decisions |-> {}]
\* A value that names its target: what the attribute holds.
Entry(t, m) == [target |-> t, memory |-> m]
NoEntry == Entry(Nothing, Empty)

WithThesis(m, x) == [theses |-> m.theses \cup {x}, decisions |-> m.decisions]
WithDecision(m, d) == [theses |-> m.theses, decisions |-> m.decisions \cup {d}]

Init ==
  /\ thesis = [r \in Runs |-> 0]
  /\ memory = [t \in Targets |-> Empty]
  /\ made = 0
  /\ finished = {}
  /\ crossed = {}
  /\ holder = [r \in Runs |-> Nobody]
  /\ completion = [p \in Processes |-> NoEntry]
  /\ pc = [e \in Executors |-> "idle"]
  /\ work = [e \in Executors |-> Nothing]
  /\ own = [e \in Executors |-> Empty]
  /\ taken = [e \in Executors |-> NoEntry]
  /\ apc = [a \in Analysts |-> "idle"]
  /\ subject = [a \in Analysts |-> Nothing]
  /\ decision = [a \in Analysts |-> Nothing]
  /\ runCopy = [a \in Analysts |-> 0]
  /\ entryCopy = [a \in Analysts |-> Empty]

-----------------------------------------------------------------------------
(* The end of execute.                                                     *)

Goto(e, label) == pc' = [pc EXCEPT ![e] = label]
Owns(e) == holder[work[e][1]] = e
Target(e) == TargetOf[work[e][1]]
Attribute(e) == completion[ProcessOf[e]]

\* Who has read the entry of t and may still write it.
Pending(t) ==
  {e \in Executors :
     /\ pc[e] \in {"set", "take", "write", "clear", "again"}
     /\ Owns(e) /\ Target(e) = t}
  \cup {a \in Analysts : apc[a] = "save" /\ TargetOf[subject[a]] = t}

\* x writes the entry of t.
Put(x, t, m) ==
  /\ memory' = [memory EXCEPT ![t] = m]
  /\ crossed' = IF m.theses # memory[t].theses /\ Pending(t) \ {x} # {}
                THEN crossed \cup {t} ELSE crossed

\* An executor that holds the lease of a run arrives at _build_memo.
Arrive(e) ==
  /\ pc[e] = "idle"
  /\ \E r \in Runs :
       /\ thesis[r] = 0 /\ holder[r] = Nobody
       /\ holder' = [holder EXCEPT ![r] = e]
       /\ work' = [work EXCEPT ![e] = <<r, made + 1>>]
  /\ made < MaxTheses /\ made' = made + 1
  /\ Goto(e, "build")
  /\ UNCHANGED <<store, finished, crossed, completion, own, taken, analyst>>

\* get_memory, and the entry with the thesis appended.
ReadMemory(e) ==
  /\ pc[e] = "build"
  /\ own' = [own EXCEPT ![e] = WithThesis(memory[Target(e)], work[e])]
  /\ Goto(e, "set")
  /\ UNCHANGED <<store, history, holder, completion, work, taken, analyst>>

\* setattr.
SetCompletion(e) ==
  /\ pc[e] = "set"
  /\ completion' = [completion EXCEPT ![ProcessOf[e]] = Entry(Target(e), own[e])]
  /\ Goto(e, "take")
  /\ UNCHANGED <<store, history, holder, work, own, taken, analyst>>

\* getattr in _persist.
TakeCompletion(e) ==
  /\ pc[e] = "take"
  /\ taken' = [taken EXCEPT ![e] = Attribute(e)]
  /\ Goto(e, "write")
  /\ UNCHANGED <<store, history, holder, completion, work, own, analyst>>

Finish(e) ==
  /\ thesis' = [thesis EXCEPT ![work[e][1]] = work[e][2]]
  /\ finished' = finished \cup {work[e]}

\* Mutant: run and event are written first, the entry by the call that follows.
WriteRunOnly(e) ==
  /\ pc[e] = "write"
  /\ IF Owns(e) THEN Finish(e) /\ Goto(e, "clear")
                ELSE UNCHANGED <<thesis, finished>> /\ Goto(e, "release")
  /\ UNCHANGED <<memory, made, crossed, holder, completion, work, own, taken, analyst>>

\* Mutant: the entry is written before the UPDATE of the run finds the lease lost.
WriteEntryFirst(e) ==
  /\ pc[e] = "write"
  /\ IF Owns(e) THEN Finish(e) /\ Goto(e, "clear")
                ELSE UNCHANGED <<thesis, finished>> /\ Goto(e, "release")
  /\ Put(e, taken[e].target, taken[e].memory)
  /\ UNCHANGED <<made, holder, completion, work, own, taken, analyst>>

\* save_run_event_memory_owned writes what was in the attribute, or, when there
\* was nothing, the run alone goes through the original _persist.
WriteFinal(e) ==
  /\ pc[e] = "write"
  /\ IF ~Owns(e)
     THEN Goto(e, "release") /\ UNCHANGED <<store, history, finished, crossed>>
     ELSE /\ Finish(e)
          /\ IF taken[e] = NoEntry
             THEN UNCHANGED <<memory, crossed>> /\ Goto(e, "again")
             ELSE Put(e, taken[e].target, taken[e].memory) /\ Goto(e, "clear")
  /\ UNCHANGED <<made, holder, completion, work, own, taken, analyst>>

\* delattr raises when another thread was faster.
ClearCompletion(e) ==
  /\ pc[e] = "clear"
  /\ Goto(e, IF Attribute(e) = NoEntry THEN "release" ELSE "again")
  /\ completion' = [completion EXCEPT ![ProcessOf[e]] = NoEntry]
  /\ UNCHANGED <<store, history, holder, work, own, taken, analyst>>

\* save_memory_owned, with the entry that was built before.
SaveAgain(e) ==
  /\ pc[e] = "again"
  /\ IF Owns(e) THEN Put(e, Target(e), own[e]) ELSE UNCHANGED <<memory, crossed>>
  /\ Goto(e, "release")
  /\ UNCHANGED <<thesis, made, finished, holder, completion, work, own, taken, analyst>>

Leave(S) ==
  /\ pc' = [e \in Executors |-> IF e \in S THEN "idle" ELSE pc[e]]
  /\ work' = [e \in Executors |-> IF e \in S THEN Nothing ELSE work[e]]
  /\ own' = [e \in Executors |-> IF e \in S THEN Empty ELSE own[e]]
  /\ taken' = [e \in Executors |-> IF e \in S THEN NoEntry ELSE taken[e]]

Release(e) ==
  /\ pc[e] = "release"
  /\ holder' = [holder EXCEPT ![work[e][1]] = IF @ = e THEN Nobody ELSE @]
  /\ Leave({e})
  /\ UNCHANGED <<store, history, completion, analyst>>

\* A store call or the heartbeat ends the call.
Raise(e) ==
  /\ pc[e] \in {"build", "set", "take", "write", "again"}
  /\ Goto(e, "release")
  /\ UNCHANGED <<store, history, holder, completion, work, own, taken, analyst>>

Threads(p) == {e \in Executors : ProcessOf[e] = p}

\* A crash ends all threads of a process, and its engine.
Crash(p) ==
  /\ \E e \in Threads(p) : pc[e] # "idle"
  /\ Leave(Threads(p))
  /\ completion' = [completion EXCEPT ![p] = NoEntry]
  /\ UNCHANGED <<store, history, holder, analyst>>

\* The lease of a crashed or stalled executor.
ExpireLease(r) ==
  /\ holder[r] # Nobody
  /\ holder' = [holder EXCEPT ![r] = Nobody]
  /\ UNCHANGED <<store, history, completion, executor, analyst>>

-----------------------------------------------------------------------------
(* record_decision and replan.                                             *)

AGoto(a, label) == apc' = [apc EXCEPT ![a] = label]

\* get_run in record_decision.
ReadRun(a) ==
  /\ apc[a] = "idle"
  /\ \E r \in Runs, d \in Decisions :
       /\ subject' = [subject EXCEPT ![a] = r]
       /\ decision' = [decision EXCEPT ![a] = d]
       /\ runCopy' = [runCopy EXCEPT ![a] = thesis[r]]
  /\ AGoto(a, "entry")
  /\ UNCHANGED <<store, history, holder, completion, executor, entryCopy>>

\* get_memory: there may be none, or one that lists the decision.
ReadEntry(a) ==
  /\ apc[a] = "entry"
  /\ LET m == memory[TargetOf[subject[a]]] IN
       /\ entryCopy' = [entryCopy EXCEPT ![a] = m]
       /\ AGoto(a, IF m = Empty \/ decision[a] \in m.decisions THEN "persist" ELSE "save")
  /\ UNCHANGED <<store, history, holder, completion, executor, subject, decision, runCopy>>

\* save_memory.
SaveEntry(a) ==
  /\ apc[a] = "save"
  /\ Put(a, TargetOf[subject[a]], WithDecision(entryCopy[a], decision[a]))
  /\ AGoto(a, "persist")
  /\ UNCHANGED <<thesis, made, finished, holder, completion, executor,
                 subject, decision, runCopy, entryCopy>>

\* get_run in replan: the run is PARTIAL, its thesis will be dropped.
ReadToReplan(a) ==
  /\ apc[a] = "idle"
  /\ \E r \in Runs :
       /\ thesis[r] # 0
       /\ subject' = [subject EXCEPT ![a] = r]
  /\ AGoto(a, "persist")
  /\ UNCHANGED <<store, history, holder, completion, executor, decision, runCopy, entryCopy>>

Reset(a) ==
  /\ AGoto(a, "idle")
  /\ subject' = [subject EXCEPT ![a] = Nothing]
  /\ decision' = [decision EXCEPT ![a] = Nothing]
  /\ runCopy' = [runCopy EXCEPT ![a] = 0]
  /\ entryCopy' = [entryCopy EXCEPT ![a] = Empty]

\* save_run: the whole payload, as it was when it was read.
PersistCopy(a) ==
  /\ apc[a] = "persist"
  /\ thesis' = [thesis EXCEPT ![subject[a]] = runCopy[a]]
  /\ Reset(a)
  /\ UNCHANGED <<memory, history, holder, completion, executor>>

\* The request ends early.
Abort(a) ==
  /\ apc[a] # "idle"
  /\ Reset(a)
  /\ UNCHANGED <<store, history, holder, completion, executor>>

-----------------------------------------------------------------------------

Execute(e) ==
  \/ Arrive(e) \/ ReadMemory(e) \/ SetCompletion(e) \/ TakeCompletion(e)
  \/ WriteFinal(e) \/ ClearCompletion(e) \/ SaveAgain(e) \/ Release(e) \/ Raise(e)

Decide(a) ==
  \/ ReadRun(a) \/ ReadEntry(a) \/ SaveEntry(a) \/ ReadToReplan(a) \/ PersistCopy(a) \/ Abort(a)

Next ==
  \/ \E e \in Executors : Execute(e)
  \/ \E a \in Analysts : Decide(a)
  \/ \E p \in Processes : Crash(p)
  \/ \E r \in Runs : ExpireLease(r)

Spec == Init /\ [][Next]_vars

-----------------------------------------------------------------------------
(* Properties.                                                             *)

Theses == Runs \X Nat
Memory == [theses: SUBSET Theses, decisions: SUBSET Decisions]
Entries == [target: Targets \cup {Nothing}, memory: Memory]

\* Types of all variables.
TypeOK ==
  /\ thesis \in [Runs -> Nat]
  /\ memory \in [Targets -> Memory]
  /\ made \in Nat
  /\ finished \subseteq Theses
  /\ crossed \subseteq Targets
  /\ holder \in [Runs -> Executors \cup {Nobody}]
  /\ completion \in [Processes -> Entries]
  /\ pc \in [Executors ->
       {"idle", "build", "set", "take", "write", "clear", "again", "release"}]
  /\ work \in [Executors -> Theses \cup {Nothing}]
  /\ own \in [Executors -> Memory]
  /\ taken \in [Executors -> Entries]
  /\ apc \in [Analysts -> {"idle", "entry", "save", "persist"}]
  /\ subject \in [Analysts -> Runs \cup {Nothing}]
  /\ decision \in [Analysts -> Decisions \cup {Nothing}]
  /\ runCopy \in [Analysts -> Nat]
  /\ entryCopy \in [Analysts -> Memory]

\* m is an entry of target t that tells only of what was finished.
ListsFinished(t, m) ==
  \A x \in m.theses : x \in finished /\ TargetOf[x[1]] = t

\* What a target's entry lists are theses of that target with which a run was
\* finished: no crash, lost lease or second executor makes the memory tell of a
\* thesis whose run did not end with it (_build_memo, save_run_event_memory_owned,
\* save_memory_owned).
ListsFinishedRuns == \A t \in Targets : ListsFinished(t, memory[t])

\* A thesis with which a run was stored as COMPLETED or PARTIAL is listed in the
\* entry of its target from then on, in every round of the run
\* (save_run_event_memory_owned), unless for that target an entry with other theses
\* was written while somebody else had read the entry and not written it yet.
FinishedRemembered ==
  \A x \in finished :
    TargetOf[x[1]] \in crossed \/ x \in memory[TargetOf[x[1]]].theses
=============================================================================
