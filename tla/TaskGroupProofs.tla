---------------------------- MODULE TaskGroupProofs ----------------------------
(***************************************************************************)
(* Proofs about the threads that build the tries of a block, for every     *)
(* number of accounts, goroutines, mutations and updates, and every        *)
(* capacity of the channels.                                               *)
(***************************************************************************)
EXTENDS TaskGroup, FiniteSums

-----------------------------------------------------------------------------
(* Types.                                                                  *)

UpdateTask(k) == [do |-> "update", n |-> k]
CommitTask == [do |-> "commit"]
UnlockTask == [do |-> "unlock"]

Task == {UpdateTask(k) : k \in Nat} \cup {CommitTask, UnlockTask}
MainTask == [do : {"put"}, grp : Groups] \cup [do : {"delete"}, grp : Accounts \X {0}]
              \cup [do : {"commit", "unlock", "close"}]
Early == {"execute", "update", "send", "commit"}
Late == {"unlock", "wait", "joined", "closing", "closed"}

WorkerState == [at : {"idle", "lock", "run", "ended"}, grp : Groups \cup {NoGroup}, next : Nat]

GroupTypes ==
    /\ pending_tasks \in [Groups -> Seq(Task)] /\ tasks_in_execution \in [Groups -> Seq(Task)]
    /\ pending_groups \in Seq(Groups)
    /\ worker \in [Workers -> WorkerState]
    /\ Len(pending_groups) <= QueueCap

MainTypes ==
    /\ tasks \in Seq(MainTask) /\ Len(tasks) <= MainCap
    /\ main \in [at : {"idle", "encode", "join", "joined", "ended"},
                 left : SUBSET Groups, grp : Groups \cup {NoGroup}]
    /\ trie \in [Accounts -> Groups \cup {NoGroup}] /\ root \in [Accounts -> Nat]

ExecTypes ==
    /\ exec \in [at : Early \cup Late, grp : Groups \cup {NoGroup}]
    /\ mutation \in [Accounts -> Groups \cup {NoGroup}] /\ pending \in SUBSET Groups
    /\ \A a \in Accounts : mutation[a] # NoGroup => mutation[a][1] = a
    /\ exec.at \in {"update", "send"} => exec.grp \in Groups
    /\ updates \in [Groups -> Nat] /\ acc \in [Groups -> Nat] /\ enc \in [Groups -> Nat]
    /\ \A g \in Groups : enc[g] <= acc[g] /\ acc[g] <= updates[g]

Types == GroupTypes /\ MainTypes /\ ExecTypes
-----------------------------------------------------------------------------
(* Where a group is.                                                       *)

InChannel(g) == \E i \in 1..Len(pending_groups) : pending_groups[i] = g
Held(g) == \E w \in Workers : worker[w].grp = g
Sending(g) == exec.at = "send" /\ exec.grp = g

Placed ==
    /\ \A i, j \in 1..Len(pending_groups) : pending_groups[i] = pending_groups[j] => i = j
    /\ \A w, x \in Workers : worker[w].grp = worker[x].grp /\ worker[w].grp # NoGroup => w = x
    /\ \A g \in Groups : /\ ~(InChannel(g) /\ Held(g)) /\ ~(InChannel(g) /\ Sending(g))
                         /\ ~(Held(g) /\ Sending(g))
                         /\ WasEmpty(g) <=> ~(InChannel(g) \/ Held(g) \/ Sending(g))
    /\ \A w \in Workers :
         /\ worker[w].at \in {"idle", "ended"} <=> worker[w].grp = NoGroup
         /\ worker[w].at = "run" => worker[w].next \in 1..Len(tasks_in_execution[worker[w].grp])
-----------------------------------------------------------------------------
(* The tasks a group has before it: those in execution from position i on, *)
(* then the pending ones.                                                  *)

Runs(w, g) == worker[w].grp = g /\ worker[w].at = "run"

\* i is the position of the next task of g in tasks_in_execution, or past the end when
\* no goroutine is executing them.
Next_(g, i) ==
    \/ \E w \in Workers : Runs(w, g) /\ i = worker[w].next
    \/ (\A w \in Workers : ~Runs(w, g)) /\ i = Len(tasks_in_execution[g]) + 1

Executing(g, i) == Len(tasks_in_execution[g]) - i + 1
Remaining(g, i) == Executing(g, i) + Len(pending_tasks[g])
Upcoming(g, i, k) ==
    IF k <= Executing(g, i) THEN tasks_in_execution[g][i + k - 1]
    ELSE pending_tasks[g][k - Executing(g, i)]

\* Updates come first, numbered from the last one applied; then commit and unlock.
Ordered(g, i) ==
    /\ Remaining(g, i) >= updates[g] - acc[g]
    /\ \A k \in 1..Remaining(g, i) :
         IF k <= updates[g] - acc[g] THEN Upcoming(g, i, k) = UpdateTask(acc[g] + k)
         ELSE Upcoming(g, i, k) \in {CommitTask, UnlockTask}
    /\ g \in pending => Remaining(g, i) = updates[g] - acc[g]
    /\ updates[g] = 0 => Remaining(g, i) = 0

\* The mutation is encoded or will be; the main trie waits for an unlock, which is the
\* last task of its group.
Settling(g, i) ==
    /\ \A k \in 1..Remaining(g, i) : Upcoming(g, i, k) = UnlockTask =>
         k = Remaining(g, i) /\ main.at = "join" /\ main.grp = g
    /\ mutation[g[1]] = g /\ g \notin pending =>
         \/ enc[g] = updates[g]
         \/ \E k \in 1..Remaining(g, i) : Upcoming(g, i, k) = CommitTask

InOrder == \A g \in Groups, i \in Nat : Next_(g, i) => Ordered(g, i) /\ Settling(g, i)
-----------------------------------------------------------------------------
(* The executor and the goroutine of the main trie.                        *)

ExecutingBlock == exec.at \in {"execute", "update"} \/ (exec.at = "send" /\ exec.grp \in pending)

MutationsPending ==
    /\ ExecutingBlock => \A a \in Accounts : mutation[a] # NoGroup => mutation[a] \in pending
    /\ exec.at = "update" => exec.grp \in pending
    /\ exec.at \in Late => \A a \in Accounts : mutation[a] \notin pending

\* The mutations of an account are numbered in the order of their first updates.
Numbered ==
    /\ \A a \in Accounts : \A m, n \in 1..MaxMutations :
         m < n /\ updates[<<a, n>>] > 0 => updates[<<a, m>>] > 0
    /\ \A a \in Accounts : mutation[a] # NoGroup =>
         updates[mutation[a]] > 0 \/ (exec.at = "update" /\ exec.grp = mutation[a])
    /\ exec.at = "update" =>
         /\ mutation[exec.grp[1]] = exec.grp
         /\ \A m \in 1..MaxMutations : m < exec.grp[2] => updates[<<exec.grp[1], m>>] > 0

\* The bound on the updates of a block, with the one an UpdateFirst has begun.
Budget ==
    /\ SumFunctionOnSet(updates, Groups) <= MaxUpdates
    /\ exec.at = "update" => SumFunctionOnSet(updates, Groups) < MaxUpdates

Concerns(task, a) == task.do \in {"put", "delete"} /\ task.grp[1] = a
Outcome(task) == IF task.do = "put" THEN task.grp ELSE NoGroup

\* Once the channel is empty the main trie has the current mutations.
TrieFollows ==
    \A a \in Accounts :
        /\ (\A i \in 1..Len(tasks) : ~Concerns(tasks[i], a)) => trie[a] = mutation[a]
        /\ \A i \in 1..Len(tasks) :
             Concerns(tasks[i], a) /\ (\A j \in (i + 1)..Len(tasks) : ~Concerns(tasks[j], a))
             => Outcome(tasks[i]) = mutation[a]

PutsUpTo(n) == \A i \in 1..n : tasks[i].do \in {"put", "delete"}

\* The values that were encoded are complete.
Collected ==
    \A a \in Accounts :
        mutation[a] # NoGroup /\ mutation[a] \notin main.left => root[a] = updates[mutation[a]]

CommitPhases ==
    /\ main.at \in {"idle", "ended"} => main.left = {}
    /\ \A g \in main.left : mutation[g[1]] = g
    /\ main.at \in {"join", "joined"} => main.grp \in main.left
    /\ main.at = "joined" => enc[main.grp] = updates[main.grp]
    /\ exec.at \in Early => main.at = "idle" /\ PutsUpTo(Len(tasks))
    /\ exec.at = "unlock" =>
         \/ /\ tasks # <<>> /\ tasks[Len(tasks)].do = "commit"
            /\ PutsUpTo(Len(tasks) - 1) /\ main.at = "idle"
         \/ tasks = <<>> /\ main.at # "ended" /\ Collected
    /\ exec.at = "wait" =>
         \/ /\ Len(tasks) >= 2 /\ tasks[Len(tasks)].do = "unlock"
            /\ tasks[Len(tasks) - 1].do = "commit"
            /\ PutsUpTo(Len(tasks) - 2) /\ main.at = "idle"
         \/ Len(tasks) = 1 /\ tasks[1].do = "unlock" /\ main.at # "ended" /\ Collected
    /\ exec.at \in {"joined", "closing", "closed"} => Collected /\ main.at \in {"idle", "ended"}
    /\ exec.at = "joined" => tasks = <<>> /\ main.at = "idle"
    /\ exec.at = "closing" =>
         \/ Len(tasks) = 1 /\ tasks[1].do = "close" /\ main.at = "idle"
         \/ tasks = <<>> /\ main.at = "ended"
    /\ exec.at = "closed" => tasks = <<>> /\ main.at = "ended"

IInv ==
    /\ Types /\ Placed /\ InOrder
    /\ MutationsPending /\ Numbered /\ Budget /\ TrieFollows /\ CommitPhases

-----------------------------------------------------------------------------
(* Facts the steps below keep using.                                       *)

\* A mutation names its account, and no mutation is NoGroup.
LEMMA GroupFacts ==
    /\ NoGroup \notin Groups
    /\ \A g \in Groups : g[1] \in Accounts
    /\ MaxUpdates \in Nat /\ MaxMutations \in Nat /\ QueueCap \in Nat /\ MainCap \in Nat
    /\ IsFiniteSet(Groups)
  <1>1. IsFiniteSet(1..MaxMutations)
    BY TaskGroupAssumption, FS_Interval
  <1>2. IsFiniteSet(Groups)
    BY <1>1, TaskGroupAssumption, FS_Product DEF Groups
  <1> QED
    BY <1>2, TaskGroupAssumption DEF Groups, NoGroup

\* The tasks submitted to the groups and to the main trie are of their types.
LEMMA TaskFacts ==
    /\ \A k \in Nat : UpdateTask(k) \in Task
    /\ CommitTask \in Task /\ UnlockTask \in Task
    /\ \A g \in Groups : [do |-> "put", grp |-> g] \in MainTask
    /\ \A a \in Accounts : [do |-> "delete", grp |-> <<a, 0>>] \in MainTask
    /\ [do |-> "commit"] \in MainTask /\ [do |-> "unlock"] \in MainTask /\ [do |-> "close"] \in MainTask
  BY DEF Task, MainTask, UpdateTask, CommitTask, UnlockTask

\* A task says what it does.
LEMMA TaskKinds ==
    /\ \A k \in Nat : UpdateTask(k).do = "update" /\ UpdateTask(k).n = k
    /\ CommitTask.do = "commit" /\ UnlockTask.do = "unlock"
    /\ \A t \in Task : t.do \in {"update", "commit", "unlock"}
    /\ \A t \in Task : t.do = "update" => t.n \in Nat /\ t = UpdateTask(t.n)
    /\ \A t \in Task : t.do = "commit" => t = CommitTask
    /\ \A t \in Task : t.do = "unlock" => t = UnlockTask
  BY DEF Task, UpdateTask, CommitTask, UnlockTask

\* The kinds of task that the main thread hands to a group, and what each carries.
LEMMA MainTaskKinds ==
    /\ \A t \in MainTask : t.do \in {"put", "delete", "commit", "unlock", "close"}
    /\ \A t \in MainTask : t.do = "put" => t.grp \in Groups /\ t.grp[1] \in Accounts
    /\ \A t \in MainTask : t.do = "delete" => t.grp[1] \in Accounts
  BY GroupFacts DEF MainTask

\* Distinct kinds of tasks are distinct tasks.
LEMMA TasksDiffer ==
    /\ CommitTask # UnlockTask
    /\ \A k \in Nat : UpdateTask(k) # CommitTask /\ UpdateTask(k) # UnlockTask
    /\ \A k, l \in Nat : UpdateTask(k) = UpdateTask(l) => k = l
  BY TaskKinds
-----------------------------------------------------------------------------
\* The block starts with nothing submitted.
LEMMA InitIInv == Init => IInv
  <1> SUFFICES ASSUME Init PROVE IInv
    OBVIOUS
  <1>0. <<>> \in Seq(Task) /\ <<>> \in Seq(Groups) /\ <<>> \in Seq(MainTask) /\ Len(<<>>) = 0
    OBVIOUS
  <1>1. GroupTypes
    <2>1. worker \in [Workers -> WorkerState]
      BY DEF Init, Idle, WorkerState
    <2>2. pending_tasks \in [Groups -> Seq(Task)] /\ tasks_in_execution \in [Groups -> Seq(Task)]
      BY <1>0 DEF Init
    <2> QED
      BY <1>0, <2>1, <2>2, GroupFacts DEF Init, GroupTypes
  <1>2. MainTypes
    BY <1>0, GroupFacts DEF Init, MainTypes
  <1>3. ExecTypes
    BY <1>0, GroupFacts DEF Init, ExecTypes, Early, Late
  <1>4. Placed
    BY <1>0, GroupFacts DEF Init, Placed, InChannel, Held, Sending, WasEmpty, Idle
  <1>5. InOrder
    <2> SUFFICES ASSUME NEW g \in Groups, NEW i \in Nat, Next_(g, i)
                 PROVE  Ordered(g, i) /\ Settling(g, i)
      BY DEF InOrder
    <2>1. i = 1 /\ Len(tasks_in_execution[g]) = 0 /\ Len(pending_tasks[g]) = 0
      BY <1>0 DEF Init, Next_, Runs, Idle
    <2>2. Executing(g, i) = 0 /\ Remaining(g, i) = 0
      BY <2>1 DEF Executing, Remaining
    <2> QED
      BY <2>2, GroupFacts DEF Init, Ordered, Settling
  <1>6. MutationsPending
    BY GroupFacts DEF Init, MutationsPending, ExecutingBlock, Late
  <1>6a. Numbered
    BY GroupFacts DEF Init, Numbered, Groups
  <1>6b. Budget
    <2>1. IsFiniteSet(Groups) /\ \A g \in Groups : updates[g] = 0
      BY GroupFacts DEF Init
    <2>2. SumFunctionOnSet(updates, Groups) = 0
      BY <2>1, SumZero
    <2> QED
      BY <2>2, GroupFacts DEF Budget, Init
  <1>7. TrieFollows
    BY <1>0 DEF Init, TrieFollows
  <1>8. CommitPhases
    BY <1>0 DEF Init, CommitPhases, PutsUpTo, Early
  <1> QED
    BY <1>1, <1>2, <1>3, <1>4, <1>5, <1>6, <1>6a, <1>6b, <1>7, <1>8 DEF IInv, Types
-----------------------------------------------------------------------------
\* How many tasks a group has before it.
LEMMA Counts ==
    ASSUME Types, NEW g \in Groups, NEW i \in 1..(Len(tasks_in_execution[g]) + 1)
    PROVE  /\ Executing(g, i) \in Nat /\ Remaining(g, i) \in Nat
           /\ Executing(g, i) <= Remaining(g, i)
           /\ i <= Len(tasks_in_execution[g]) => Executing(g, i) \in Nat \ {0}
           /\ Len(tasks_in_execution[g]) \in Nat /\ Len(pending_tasks[g]) \in Nat
  <1>1. Len(tasks_in_execution[g]) \in Nat /\ Len(pending_tasks[g]) \in Nat
    BY DEF Types, GroupTypes
  <1>2. i \in Nat /\ i >= 1 /\ i <= Len(tasks_in_execution[g]) + 1
    BY <1>1
  <1>3. Executing(g, i) \in Nat
    BY <1>1, <1>2 DEF Executing
  <1>4. Remaining(g, i) = Executing(g, i) + Len(pending_tasks[g])
    BY DEF Remaining
  <1>5. i <= Len(tasks_in_execution[g]) => Executing(g, i) \in Nat \ {0}
    BY <1>1, <1>2 DEF Executing
  <1> QED
    BY <1>1, <1>3, <1>4, <1>5

\* The goroutine that runs tasks: the next one is the update that follows the account of
\* the mutation, or, when all are applied, a commit or an unlock.
LEMMA TaskAtHand ==
    ASSUME Types, Placed, InOrder, NEW w \in Workers, worker[w].at = "run"
    PROVE  LET g == worker[w].grp  i == worker[w].next  task == tasks_in_execution[g][i]
           IN  /\ g \in Groups /\ i \in 1..Len(tasks_in_execution[g]) /\ task \in Task
               /\ Next_(g, i) /\ Ordered(g, i) /\ Settling(g, i)
               /\ Remaining(g, i) \in Nat \ {0} /\ Upcoming(g, i, 1) = task
               /\ acc[g] < updates[g] => task = UpdateTask(acc[g] + 1)
               /\ acc[g] = updates[g] => task \in {CommitTask, UnlockTask}
  <1> DEFINE g == worker[w].grp
             i == worker[w].next
             task == tasks_in_execution[g][i]
  <1>1. g \in Groups /\ i \in 1..Len(tasks_in_execution[g]) /\ i \in Nat
    BY DEF Types, GroupTypes, WorkerState, Placed
  <1>2. task \in Task /\ tasks_in_execution[g] \in Seq(Task) /\ pending_tasks[g] \in Seq(Task)
    BY <1>1 DEF Types, GroupTypes
  <1>3. Next_(g, i)
    BY <1>1 DEF Next_, Runs
  <1>4. Ordered(g, i) /\ Settling(g, i)
    BY <1>1, <1>3 DEF InOrder
  <1>5. Executing(g, i) \in Nat \ {0} /\ Remaining(g, i) \in Nat \ {0}
    BY <1>1, Counts
  <1>6. Upcoming(g, i, 1) = task
    BY <1>1, <1>5 DEF Upcoming
  <1>7. updates[g] \in Nat /\ acc[g] \in Nat
    BY <1>1 DEF Types, ExecTypes
  <1>8. 1 \in 1..Remaining(g, i)
    BY <1>5
  <1>9. IF 1 <= updates[g] - acc[g] THEN Upcoming(g, i, 1) = UpdateTask(acc[g] + 1)
        ELSE Upcoming(g, i, 1) \in {CommitTask, UnlockTask}
    BY <1>4, <1>8 DEF Ordered
  <1> QED
    BY <1>1, <1>2, <1>3, <1>4, <1>5, <1>6, <1>7, <1>9

\* Submit gives a group a task of its type.
LEMMA SubmitTypes ==
    ASSUME Types, NEW g \in Groups, NEW task \in Task, NEW then \in Early,
           SubmitToGroup(g, task, then)
    PROVE  /\ pending_tasks' \in [Groups -> Seq(Task)]
           /\ tasks_in_execution' \in [Groups -> Seq(Task)]
           /\ exec' \in [at : Early \cup Late, grp : Groups \cup {NoGroup}]
           /\ exec'.at \in {"send", then} /\ exec'.grp = g
  <1>1. Append(pending_tasks[g], task) \in Seq(Task)
    BY DEF Types, GroupTypes
  <1>2. pending_tasks' \in [Groups -> Seq(Task)]
    BY <1>1 DEF Types, GroupTypes, SubmitToGroup
  <1> QED
    BY <1>2 DEF Types, GroupTypes, SubmitToGroup, Early

\* A task submitted by the main thread keeps the types of the queues.
LEMMA SubmitMainTypes ==
    ASSUME Types, NEW task \in MainTask, SubmitToMain(task)
    PROVE  tasks' \in Seq(MainTask) /\ Len(tasks') <= MainCap
  BY GroupFacts DEF Types, MainTypes, SubmitToMain

\* The steps of the executor keep the types.
LEMMA ExecutesTypes ==
    ASSUME IInv, Executes
    PROVE  Types'
  <1> USE DEF groupVars, threadVars, mainVars, mutationVars
  <1>0. Types
    BY DEF IInv
  <1>1. ASSUME NEW a \in Accounts, UpdateFirst(a) PROVE Types'
    <2>1. MutationOf(a) \in Groups /\ [do |-> "put", grp |-> MutationOf(a)] \in MainTask
      BY <1>1, TaskFacts DEF UpdateFirst
    <2>2. tasks' \in Seq(MainTask) /\ Len(tasks') <= MainCap
      BY <1>0, <1>1, <2>1, SubmitMainTypes DEF UpdateFirst
    <2>3. MutationOf(a)[1] = a
      BY <1>0, <1>1 DEF UpdateFirst, MutationOf
    <2>4. GroupTypes'
      BY <1>0, <1>1 DEF UpdateFirst, Types, GroupTypes
    <2>5. MainTypes'
      BY <1>0, <1>1, <2>2 DEF UpdateFirst, Types, MainTypes
    <2>6. ExecTypes'
      BY <1>0, <1>1, <2>1, <2>3 DEF UpdateFirst, Types, ExecTypes, Early
    <2> QED
      BY <2>4, <2>5, <2>6 DEF Types
  <1>2. ASSUME NEW a \in Accounts, Delete(a) PROVE Types'
    <2>1. tasks' \in Seq(MainTask) /\ Len(tasks') <= MainCap
      BY <1>0, <1>2, TaskFacts, SubmitMainTypes DEF Delete
    <2>2. GroupTypes'
      BY <1>0, <1>2 DEF Delete, Types, GroupTypes
    <2>3. MainTypes'
      BY <1>0, <1>2, <2>1 DEF Delete, Types, MainTypes
    <2>4. ExecTypes'
      BY <1>0, <1>2 DEF Delete, Types, ExecTypes
    <2> QED
      BY <2>2, <2>3, <2>4 DEF Types
  <1>3. ASSUME NEW a \in Accounts, CommitMutation(a) PROVE Types'
    <2>1. mutation[a] \in Groups
      BY <1>0, <1>3 DEF CommitMutation, Types, ExecTypes
    <2>2. SubmitToGroup(mutation[a], CommitTask, "commit") /\ "commit" \in Early
      BY <1>3 DEF CommitMutation, CommitTask, Early
    <2>3. /\ pending_tasks' \in [Groups -> Seq(Task)]
          /\ tasks_in_execution' \in [Groups -> Seq(Task)]
          /\ exec' \in [at : Early \cup Late, grp : Groups \cup {NoGroup}]
          /\ exec'.at \in {"send", "commit"} /\ exec'.grp = mutation[a]
      BY <1>0, <2>1, <2>2, TaskFacts, SubmitTypes
    <2>4. GroupTypes'
      BY <1>0, <1>3, <2>3 DEF CommitMutation, Types, GroupTypes
    <2>5. MainTypes'
      BY <1>0, <1>3 DEF CommitMutation, Types, MainTypes
    <2>6. ExecTypes'
      BY <1>0, <1>3, <2>1, <2>3 DEF CommitMutation, Types, ExecTypes
    <2> QED
      BY <2>4, <2>5, <2>6 DEF Types
  <1>4. ASSUME NEW g \in Groups, Update(g) PROVE Types'
    <2>1. updates' = [updates EXCEPT ![g] = updates[g] + 1] /\ updates'[g] = updates[g] + 1
          /\ updates[g] \in Nat
      BY <1>0, <1>4 DEF Update, Types, ExecTypes
    <2>2. SubmitToGroup(g, UpdateTask(updates[g] + 1), "execute") /\ "execute" \in Early
      BY <1>4, <2>1 DEF Update, UpdateTask, Early
    <2>3. /\ pending_tasks' \in [Groups -> Seq(Task)]
          /\ tasks_in_execution' \in [Groups -> Seq(Task)]
          /\ exec' \in [at : Early \cup Late, grp : Groups \cup {NoGroup}]
          /\ exec'.at \in {"send", "execute"} /\ exec'.grp = g
      BY <1>0, <2>1, <2>2, TaskFacts, SubmitTypes
    <2>4. GroupTypes'
      BY <1>0, <1>4, <2>3 DEF Update, Types, GroupTypes
    <2>5. MainTypes'
      BY <1>0, <1>4 DEF Update, Types, MainTypes
    <2>6. ExecTypes'
      BY <1>0, <1>4, <2>1, <2>3 DEF Update, Types, ExecTypes
    <2> QED
      BY <2>4, <2>5, <2>6 DEF Types
  <1>5. ASSUME Send PROVE Types'
    <2>1. exec.grp \in Groups
      BY <1>0, <1>5 DEF Send, Types, ExecTypes
    <2>2. pending_groups' \in Seq(Groups) /\ Len(pending_groups') <= QueueCap
      BY <1>0, <1>5, <2>1, GroupFacts DEF Send, Types, GroupTypes
    <2>3. GroupTypes'
      BY <1>0, <1>5, <2>2 DEF Send, Types, GroupTypes
    <2>4. MainTypes'
      BY <1>0, <1>5 DEF Send, Types, MainTypes
    <2>5. ExecTypes'
      BY <1>0, <1>5, <2>1 DEF Send, Types, ExecTypes, Early
    <2> QED
      BY <2>3, <2>4, <2>5 DEF Types
  <1>6. ASSUME BeginCommit \/ Close PROVE Types'
    <2>1. GroupTypes'
      BY <1>0, <1>6 DEF BeginCommit, Close, Types, GroupTypes
    <2>2. MainTypes'
      BY <1>0, <1>6 DEF BeginCommit, Close, Types, MainTypes
    <2>3. ExecTypes'
      BY <1>0, <1>6 DEF BeginCommit, Close, Types, ExecTypes, Early, Late
    <2> QED
      BY <2>1, <2>2, <2>3 DEF Types
  <1>7. ASSUME CommitMain \/ JoinMain \/ JoinAndClose PROVE Types'
    <2>1. tasks' \in Seq(MainTask) /\ Len(tasks') <= MainCap
      BY <1>0, <1>7, TaskFacts, SubmitMainTypes DEF CommitMain, JoinMain, JoinAndClose
    <2>2. GroupTypes'
      BY <1>0, <1>7 DEF CommitMain, JoinMain, JoinAndClose, Types, GroupTypes
    <2>3. MainTypes'
      BY <1>0, <1>7, <2>1 DEF CommitMain, JoinMain, JoinAndClose, Types, MainTypes
    <2>4. ExecTypes'
      BY <1>0, <1>7 DEF CommitMain, JoinMain, JoinAndClose, Types, ExecTypes, Early, Late
    <2> QED
      BY <2>2, <2>3, <2>4 DEF Types
  <1> QED
    BY <1>1, <1>2, <1>3, <1>4, <1>5, <1>6, <1>7 DEF Executes

\* The steps of the main trie's goroutine keep the types.
LEMMA MainTypesStep ==
    ASSUME IInv, MainWorks
    PROVE  Types'
  <1> USE DEF groupVars, threadVars, mainVars, mutationVars
  <1>0. Types /\ CommitPhases
    BY DEF IInv
  <1>1. ASSUME MainReceive PROVE Types'
    <2> DEFINE task == Head(tasks)
    <2>1. task \in MainTask /\ tasks' \in Seq(MainTask) /\ Len(tasks') <= MainCap
      BY <1>0, <1>1, GroupFacts DEF MainReceive, Types, MainTypes
    <2> HIDE DEF task
    <2>2. trie' \in [Accounts -> Groups \cup {NoGroup}]
      BY <1>0, <1>1, <2>1, MainTaskKinds DEF MainReceive, Types, MainTypes, task
    <2>3. Range(trie) \ {NoGroup} \in SUBSET Groups
      BY <1>0 DEF Types, MainTypes, Range
    <2>4. main' \in [at : {"idle", "encode", "join", "joined", "ended"},
                     left : SUBSET Groups, grp : Groups \cup {NoGroup}]
      BY <1>0, <1>1, <2>3 DEF MainReceive, Types, MainTypes
    <2>5. GroupTypes'
      BY <1>0, <1>1 DEF MainReceive, Types, GroupTypes
    <2>6. MainTypes'
      BY <1>0, <1>1, <2>1, <2>2, <2>4 DEF MainReceive, Types, MainTypes
    <2>7. ExecTypes'
      BY <1>0, <1>1 DEF MainReceive, Types, ExecTypes, Early, Late
    <2> QED
      BY <2>5, <2>6, <2>7 DEF Types
  <1>2. ASSUME NEW g \in Groups, Encode(g),
               UNCHANGED <<groupVars, threadVars, tasks, trie, mutationVars, exec, acc, enc>>
        PROVE  Types'
    <2>1. GroupTypes'
      BY <1>0, <1>2 DEF Types, GroupTypes
    <2>2. MainTypes'
      BY <1>0, <1>2, GroupFacts DEF Encode, Types, MainTypes, ExecTypes
    <2>3. ExecTypes'
      BY <1>0, <1>2 DEF Types, ExecTypes
    <2> QED
      BY <2>1, <2>2, <2>3 DEF Types
  <1>3. ASSUME Joined PROVE Types'
    BY <1>0, <1>2, <1>3 DEF Joined, CommitPhases, Types, MainTypes
  <1>4. ASSUME NEW g \in Groups, EncodeForTrie(g) PROVE Types'
    <2>1. CASE WasEmpty(g)
      BY <1>2, <1>4, <2>1 DEF EncodeForTrie
    <2>2. CASE ~WasEmpty(g)
      <3>1. Append(pending_tasks[g], UnlockTask) \in Seq(Task)
        BY <1>0, TaskFacts DEF Types, GroupTypes
      <3>2. pending_tasks' = [pending_tasks EXCEPT ![g] = Append(pending_tasks[g], UnlockTask)]
        BY <1>4, <2>2 DEF EncodeForTrie, UnlockTask
      <3>3. GroupTypes'
        BY <1>0, <1>4, <2>2, <3>1, <3>2 DEF EncodeForTrie, Types, GroupTypes
      <3>4. MainTypes'
        BY <1>0, <1>4, <2>2 DEF EncodeForTrie, Types, MainTypes
      <3>5. ExecTypes'
        BY <1>0, <1>4, <2>2 DEF EncodeForTrie, Types, ExecTypes
      <3> QED
        BY <3>3, <3>4, <3>5 DEF Types
    <2> QED
      BY <2>1, <2>2
  <1>5. ASSUME NothingToEncode PROVE Types'
    <2>1. GroupTypes'
      BY <1>0, <1>5 DEF NothingToEncode, Types, GroupTypes
    <2>2. MainTypes'
      BY <1>0, <1>5 DEF NothingToEncode, Types, MainTypes
    <2>3. ExecTypes'
      BY <1>0, <1>5 DEF NothingToEncode, Types, ExecTypes
    <2> QED
      BY <2>1, <2>2, <2>3 DEF Types
  <1> QED
    BY <1>1, <1>3, <1>4, <1>5 DEF MainWorks

\* The steps of the goroutines of the groups keep the types.
LEMMA WorksTypes ==
    ASSUME IInv, NEW w \in Workers, Works(w)
    PROVE  Types'
  <1> USE DEF groupVars, threadVars, mainVars, mutationVars
  <1>0. Types /\ Placed /\ InOrder
    BY DEF IInv
  <1>1. ASSUME Receive(w) PROVE Types'
    <2>1. pending_groups \in Seq(Groups) /\ Len(pending_groups) <= QueueCap
          /\ worker \in [Workers -> WorkerState]
      BY <1>0 DEF Types, GroupTypes
    <2>2. GroupTypes'
      <3>1. CASE pending_groups # <<>>
        <4>1. Head(pending_groups) \in Groups /\ pending_groups' \in Seq(Groups)
              /\ Len(pending_groups') = Len(pending_groups) - 1
          BY <1>1, <2>1, <3>1 DEF Receive
        <4>2. [at |-> "lock", grp |-> Head(pending_groups), next |-> 0] \in WorkerState
          BY <4>1 DEF WorkerState
        <4>3. worker' \in [Workers -> WorkerState]
          BY <1>1, <2>1, <3>1, <4>2 DEF Receive
        <4>4. Len(pending_groups') <= QueueCap
          BY <2>1, <4>1, GroupFacts
        <4> QED
          BY <1>0, <1>1, <4>1, <4>3, <4>4 DEF Receive, Types, GroupTypes
      <3>2. CASE pending_groups = <<>>
        <4>1. worker' \in [Workers -> WorkerState]
          BY <1>1, <2>1, <3>2 DEF Receive, WorkerState
        <4> QED
          BY <1>0, <1>1, <2>1, <3>2, <4>1 DEF Receive, Types, GroupTypes
      <3> QED
        BY <3>1, <3>2
    <2>3. MainTypes'
      BY <1>0, <1>1 DEF Receive, Types, MainTypes
    <2>4. ExecTypes'
      BY <1>0, <1>1 DEF Receive, Types, ExecTypes
    <2> QED
      BY <2>2, <2>3, <2>4 DEF Types
  <1>2. ASSUME ExecutePending(w) PROVE Types'
    <2>1. worker[w].grp \in Groups
      BY <1>0, <1>2 DEF ExecutePending, Types, GroupTypes, WorkerState, Placed
    <2>2. GroupTypes'
      <3>1. worker' \in [Workers -> WorkerState]
        <4>1. Idle \in WorkerState /\ worker \in [Workers -> WorkerState]
          BY <1>0 DEF Types, GroupTypes, WorkerState, Idle
        <4>2. [worker[w] EXCEPT !.at = "run", !.next = 1] \in WorkerState
          BY <4>1 DEF WorkerState
        <4>3. \/ worker' = [worker EXCEPT ![w] = Idle]
              \/ worker' = [worker EXCEPT ![w] = [worker[w] EXCEPT !.at = "run", !.next = 1]]
          BY <1>2, <4>1 DEF ExecutePending, Swap
        <4> QED
          BY <4>1, <4>2, <4>3
      <3>2. /\ pending_tasks' \in [Groups -> Seq(Task)]
            /\ tasks_in_execution' \in [Groups -> Seq(Task)]
        <4>1. <<>> \in Seq(Task) /\ pending_tasks[worker[w].grp] \in Seq(Task)
          BY <1>0, <2>1 DEF Types, GroupTypes
        <4> QED
          BY <1>0, <1>2, <2>1, <4>1 DEF ExecutePending, Swap, Types, GroupTypes
      <3> QED
        BY <1>0, <1>2, <3>1, <3>2 DEF ExecutePending, Types, GroupTypes
    <2>3. MainTypes'
      BY <1>0, <1>2 DEF ExecutePending, Types, MainTypes
    <2>4. ExecTypes'
      BY <1>0, <1>2 DEF ExecutePending, Types, ExecTypes
    <2> QED
      BY <2>2, <2>3, <2>4 DEF Types
  <1>3. ASSUME RunTask(w) PROVE Types'
    <2> DEFINE g == worker[w].grp
               i == worker[w].next
               task == tasks_in_execution[g][i]
    <2>1. worker[w].at = "run"
      BY <1>3 DEF RunTask
    <2>2. /\ g \in Groups /\ i \in 1..Len(tasks_in_execution[g]) /\ task \in Task
          /\ acc[g] < updates[g] => task = UpdateTask(acc[g] + 1)
          /\ acc[g] = updates[g] => task \in {CommitTask, UnlockTask}
      BY <1>0, <2>1, TaskAtHand
    <2>3. tasks_in_execution[g] \in Seq(Task) /\ i \in Nat
      BY <1>0, <2>2 DEF Types, GroupTypes
    <2>4. /\ acc' = IF task.do = "update" THEN [acc EXCEPT ![g] = task.n] ELSE acc
          /\ enc' = IF task.do = "commit" THEN [enc EXCEPT ![g] = acc[g]] ELSE enc
          /\ main' = IF task.do = "unlock" THEN [main EXCEPT !.at = "joined"] ELSE main
          /\ worker' = [worker EXCEPT ![w] =
                IF i < Len(tasks_in_execution[g]) THEN [worker[w] EXCEPT !.next = i + 1]
                ELSE [worker[w] EXCEPT !.at = "lock"]]
          /\ UNCHANGED <<groupVars, pending_groups, closed, tasks, trie, root, mutationVars, exec>>
      BY <1>3 DEF RunTask
    <2> HIDE DEF task, g, i
    <2>5. /\ acc[g] \in Nat /\ updates[g] \in Nat /\ enc[g] \in Nat
          /\ enc[g] <= acc[g] /\ acc[g] <= updates[g]
      BY <1>0, <2>2 DEF Types, ExecTypes
    <2>6. GroupTypes'
      <3>1. worker' \in [Workers -> WorkerState]
        <4>1. worker \in [Workers -> WorkerState] /\ worker[w] \in WorkerState
          BY <1>0 DEF Types, GroupTypes
        <4>2. /\ [worker[w] EXCEPT !.next = i + 1] \in WorkerState
              /\ [worker[w] EXCEPT !.at = "lock"] \in WorkerState
          <5>1. i + 1 \in Nat
            BY <2>3
          <5> QED
            BY <4>1, <5>1 DEF WorkerState
        <4>3. \/ worker' = [worker EXCEPT ![w] = [worker[w] EXCEPT !.next = i + 1]]
              \/ worker' = [worker EXCEPT ![w] = [worker[w] EXCEPT !.at = "lock"]]
          <5>1. CASE i < Len(tasks_in_execution[g])
            BY <2>4, <5>1
          <5>2. CASE ~(i < Len(tasks_in_execution[g]))
            BY <2>4, <5>2
          <5> QED
            BY <5>1, <5>2
        <4> QED
          BY <4>1, <4>2, <4>3
      <3> QED
        BY <1>0, <2>4, <3>1 DEF Types, GroupTypes
    <2>7. MainTypes'
      BY <1>0, <2>4 DEF Types, MainTypes
    <2>8. ExecTypes'
      <3>1. task.do = "update" => acc[g] < updates[g] /\ task.n = acc[g] + 1
        BY <2>2, <2>5, TaskKinds
      <3> QED
        BY <1>0, <2>2, <2>4, <2>5, <3>1 DEF Types, ExecTypes
    <2> QED
      BY <2>6, <2>7, <2>8 DEF Types
  <1> QED
    BY <1>1, <1>2, <1>3 DEF Works
-----------------------------------------------------------------------------
(* Where a group is stays settled.                                         *)

\* A step that leaves the groups, the channel and the goroutines alone.
LEMMA PlacedFrame ==
    ASSUME Placed, UNCHANGED <<groupVars, worker, pending_groups>>,
           exec' = exec \/ (exec.at # "send" /\ exec'.at # "send")
    PROVE  Placed'
  BY DEF groupVars, Placed, InChannel, Held, Sending, WasEmpty

\* Submit: a group that was empty is sent, any other one is on its way already.
LEMMA PlacedSubmit ==
    ASSUME Types, Placed, exec.at # "send", NEW g \in Groups, NEW task \in Task,
           NEW then \in Early \ {"send"}, SubmitToGroup(g, task, then),
           UNCHANGED <<worker, pending_groups>>
    PROVE  Placed'
  <1>1. pending_tasks'[g] # <<>> /\ \A h \in Groups : h # g => pending_tasks'[h] = pending_tasks[h]
    <2>1. pending_tasks[g] \in Seq(Task) /\ pending_tasks'[g] = Append(pending_tasks[g], task)
      BY DEF Types, GroupTypes, SubmitToGroup
    <2>2. Append(pending_tasks[g], task) # <<>>
      BY <2>1
    <2> QED
      BY <2>1, <2>2 DEF Types, GroupTypes, SubmitToGroup
  <1>2. tasks_in_execution' = tasks_in_execution /\ worker' = worker
        /\ pending_groups' = pending_groups
    BY DEF SubmitToGroup
  <1>3. \A h \in Groups : (InChannel(h)' <=> InChannel(h)) /\ (Held(h)' <=> Held(h)) /\ ~Sending(h)
    BY <1>2 DEF InChannel, Held, Sending
  <1>4. \A h \in Groups : Sending(h)' <=> h = g /\ WasEmpty(g)
    BY DEF Sending, SubmitToGroup
  <1>5. ~WasEmpty(g)' /\ \A h \in Groups : h # g => (WasEmpty(h)' <=> WasEmpty(h))
    BY <1>1, <1>2 DEF WasEmpty
  <1> QED
    BY <1>2, <1>3, <1>4, <1>5 DEF Placed

\* The unlock task of a Join goes to a group that has tasks.
LEMMA PlacedJoin ==
    ASSUME Types, Placed, NEW g \in Groups, ~WasEmpty(g), EncodeForTrie(g)
    PROVE  Placed'
  <1>1. pending_tasks'[g] # <<>> /\ \A h \in Groups : h # g => pending_tasks'[h] = pending_tasks[h]
    <2>1. pending_tasks[g] \in Seq(Task)
          /\ pending_tasks'[g] = Append(pending_tasks[g], UnlockTask)
      BY DEF Types, GroupTypes, EncodeForTrie, UnlockTask
    <2>2. Append(pending_tasks[g], UnlockTask) # <<>>
      BY <2>1, TaskFacts
    <2> QED
      BY <2>1, <2>2 DEF Types, GroupTypes, EncodeForTrie
  <1>2. tasks_in_execution' = tasks_in_execution /\ worker' = worker
        /\ pending_groups' = pending_groups /\ exec' = exec
    BY DEF EncodeForTrie, threadVars
  <1>3. \A h \in Groups : (InChannel(h)' <=> InChannel(h)) /\ (Held(h)' <=> Held(h))
                          /\ (Sending(h)' <=> Sending(h))
    BY <1>2 DEF InChannel, Held, Sending
  <1>5. ~WasEmpty(g)' /\ \A h \in Groups : h # g => (WasEmpty(h)' <=> WasEmpty(h))
    BY <1>1, <1>2 DEF WasEmpty
  <1> QED
    BY <1>2, <1>3, <1>5 DEF Placed

\* The send: the group is in the channel instead of on its way to it.
LEMMA PlacedSend ==
    ASSUME Types, Placed, Send
    PROVE  Placed'
  <1> DEFINE h == exec.grp
             n == Len(pending_groups)
  <1>1. /\ h \in Groups /\ Sending(h) /\ pending_groups \in Seq(Groups) /\ n \in Nat
        /\ pending_groups' = Append(pending_groups, h)
    BY DEF Types, GroupTypes, ExecTypes, Send, Sending
  <1>2. /\ Len(pending_groups') = n + 1 /\ pending_groups'[n + 1] = h
        /\ \A i \in 1..n : pending_groups'[i] = pending_groups[i]
        /\ \A i \in 1..(n + 1) : i \in 1..n \/ i = n + 1
    BY <1>1
  <1>3. \A i \in 1..n : pending_groups[i] # h
    BY <1>1 DEF Placed, InChannel
  <1>4. \A i, j \in 1..Len(pending_groups') : pending_groups'[i] = pending_groups'[j] => i = j
    BY <1>2, <1>3 DEF Placed
  <1>5. \A g \in Groups : InChannel(g)' <=> InChannel(g) \/ g = h
    <2> SUFFICES ASSUME NEW g \in Groups PROVE InChannel(g)' <=> InChannel(g) \/ g = h
      OBVIOUS
    <2>0. n + 1 \in 1..(n + 1) /\ \A i \in 1..n : i \in 1..(n + 1)
      BY <1>1
    <2> QED
      BY <1>2, <2>0 DEF InChannel
  <1>6. \A g \in Groups : ~Sending(g)' /\ (Held(g)' <=> Held(g)) /\ (WasEmpty(g)' <=> WasEmpty(g))
    BY DEF Send, Sending, Held, WasEmpty, groupVars
  <1>7. \A g \in Groups : Sending(g) <=> g = h
    BY <1>1 DEF Sending
  <1>8. tasks_in_execution' = tasks_in_execution /\ worker' = worker
    BY DEF Send, groupVars
  <1> HIDE DEF h, n
  <1> QED
    BY <1>4, <1>5, <1>6, <1>7, <1>8 DEF Placed

\* The receive: the group is with the goroutine instead of in the channel.
LEMMA PlacedReceive ==
    ASSUME Types, Placed, NEW w \in Workers, Receive(w)
    PROVE  Placed'
  <1>0. /\ tasks_in_execution' = tasks_in_execution /\ pending_tasks' = pending_tasks
        /\ exec' = exec /\ worker \in [Workers -> WorkerState] /\ worker[w].grp = NoGroup
    BY DEF Receive, groupVars, Types, GroupTypes, Placed
  <1>a. \A g \in Groups : (Sending(g)' <=> Sending(g)) /\ (WasEmpty(g)' <=> WasEmpty(g))
    BY <1>0 DEF Sending, WasEmpty
  <1>1. CASE pending_groups = <<>>
    <2>1. worker' = [worker EXCEPT ![w].at = "ended"] /\ pending_groups' = pending_groups
      BY <1>1 DEF Receive
    <2>2. /\ \A x \in Workers : worker'[x].grp = worker[x].grp /\ worker'[x].next = worker[x].next
          /\ \A x \in Workers : x # w => worker'[x].at = worker[x].at
          /\ worker'[w].at = "ended"
      BY <1>0, <2>1 DEF WorkerState
    <2>3. \A g \in Groups : (InChannel(g)' <=> InChannel(g)) /\ (Held(g)' <=> Held(g))
      BY <2>1, <2>2 DEF InChannel, Held
    <2> QED
      BY <1>0, <1>a, <2>1, <2>2, <2>3 DEF Placed
  <1>2. CASE pending_groups # <<>>
    <2> DEFINE h == Head(pending_groups)
               n == Len(pending_groups)
    <2>1. /\ worker' = [worker EXCEPT ![w] = [at |-> "lock", grp |-> h, next |-> 0]]
          /\ pending_groups' = Tail(pending_groups)
      BY <1>2 DEF Receive
    <2>2. /\ pending_groups \in Seq(Groups) /\ n \in Nat \ {0} /\ h \in Groups
          /\ h = pending_groups[1] /\ Len(pending_groups') = n - 1
          /\ \A i \in 1..(n - 1) : pending_groups'[i] = pending_groups[i + 1]
      BY <1>2, <2>1 DEF Types, GroupTypes
    <2> HIDE DEF h, n
    <2>3. /\ \A i \in 1..(n - 1) : i + 1 \in 1..n /\ i + 1 # 1
          /\ \A i \in 1..n : i = 1 \/ (i - 1 \in 1..(n - 1) /\ (i - 1) + 1 = i)
          /\ 1 \in 1..n
      BY <2>2
    <2>4. \A i, j \in 1..n : pending_groups[i] = pending_groups[j] => i = j
      BY DEF Placed, n
    <2>5. \A i, j \in 1..(n - 1) : pending_groups'[i] = pending_groups'[j] => i = j
      <3> SUFFICES ASSUME NEW i \in 1..(n - 1), NEW j \in 1..(n - 1),
                          pending_groups'[i] = pending_groups'[j]
                   PROVE  i = j
        OBVIOUS
      <3>1. i + 1 = j + 1
        BY <2>2, <2>3, <2>4
      <3> QED
        BY <2>2, <3>1
    <2>6. \A g \in Groups : InChannel(g)' <=> InChannel(g) /\ g # h
      <3> SUFFICES ASSUME NEW g \in Groups PROVE InChannel(g)' <=> InChannel(g) /\ g # h
        OBVIOUS
      <3>1. ASSUME InChannel(g)' PROVE InChannel(g) /\ g # h
        <4>1. PICK i \in 1..(n - 1) : pending_groups'[i] = g
          BY <2>2, <3>1 DEF InChannel
        <4>2. i + 1 \in 1..n /\ i + 1 # 1 /\ pending_groups[i + 1] = g
          BY <2>2, <2>3, <4>1
        <4>3. g # h
          BY <2>2, <2>3, <2>4, <4>2
        <4> QED
          BY <4>2, <4>3 DEF InChannel, n
      <3>2. ASSUME InChannel(g), g # h PROVE InChannel(g)'
        <4>1. PICK i \in 1..n : pending_groups[i] = g
          BY <3>2 DEF InChannel, n
        <4>2. i - 1 \in 1..(n - 1) /\ (i - 1) + 1 = i
          BY <2>2, <2>3, <3>2, <4>1
        <4>3. pending_groups'[i - 1] = g
          BY <2>2, <4>1, <4>2
        <4> QED
          BY <2>2, <4>2, <4>3 DEF InChannel
      <3> QED
        BY <3>1, <3>2
    <2>7. InChannel(h)
      BY <2>2, <2>3 DEF InChannel, n
    <2>8. /\ \A x \in Workers : x # w => worker'[x] = worker[x]
          /\ worker'[w].at = "lock" /\ worker'[w].grp = h
      BY <1>0, <2>1
    <2>9. \A g \in Groups : Held(g)' <=> Held(g) \/ g = h
      BY <1>0, <2>8, GroupFacts DEF Held
    <2>10. ~Held(h) /\ \A x \in Workers : worker[x].grp # h
      BY <2>2, <2>7 DEF Placed, Held
    <2>11. \A x, y \in Workers :
              worker'[x].grp = worker'[y].grp /\ worker'[x].grp # NoGroup => x = y
      BY <2>8, <2>10 DEF Placed
    <2>12. \A g \in Groups :
              /\ ~(InChannel(g) /\ Held(g))' /\ ~(InChannel(g) /\ Sending(g))'
              /\ ~(Held(g) /\ Sending(g))'
              /\ (WasEmpty(g) <=> ~(InChannel(g) \/ Held(g) \/ Sending(g)))'
      BY <1>a, <2>2, <2>6, <2>7, <2>9, <2>10 DEF Placed
    <2>13. \A x \in Workers :
              /\ worker'[x].at \in {"idle", "ended"} <=> worker'[x].grp = NoGroup
              /\ worker'[x].at = "run" =>
                   worker'[x].next \in 1..Len(tasks_in_execution'[worker'[x].grp])
      BY <1>0, <2>2, <2>8, GroupFacts DEF Placed
    <2> QED
      BY <2>2, <2>5, <2>11, <2>12, <2>13 DEF Placed
  <1> QED
    BY <1>1, <1>2

\* A goroutine leaves a group exactly when it has no tasks left.
LEMMA PlacedSwap ==
    ASSUME Types, Placed, NEW w \in Workers, ExecutePending(w)
    PROVE  Placed'
  <1>g. PICK g \in Groups : g = worker[w].grp
    BY DEF ExecutePending, Types, GroupTypes, WorkerState, Placed
  <1>0. /\ worker \in [Workers -> WorkerState] /\ worker[w].at = "lock"
        /\ pending_tasks[g] \in Seq(Task) /\ tasks_in_execution[g] \in Seq(Task)
    BY DEF ExecutePending, Types, GroupTypes
  <1>1. /\ exec' = exec /\ pending_groups' = pending_groups
        /\ \A h \in Groups : h # g => /\ pending_tasks'[h] = pending_tasks[h]
                                      /\ tasks_in_execution'[h] = tasks_in_execution[h]
        /\ \A x \in Workers : x # w => worker'[x] = worker[x]
    BY <1>g, <1>0 DEF ExecutePending, Swap, Types, GroupTypes, groupVars
  <1>2. \A h \in Groups : (InChannel(h)' <=> InChannel(h)) /\ (Sending(h)' <=> Sending(h))
    BY <1>1 DEF InChannel, Sending
  <1>3. Held(g) /\ \A x \in Workers : x # w => worker[x].grp # g
    BY <1>g, <1>0, GroupFacts DEF Held, Placed
  <1>4. \A h \in Groups : h # g => (WasEmpty(h)' <=> WasEmpty(h))
    BY <1>1 DEF WasEmpty
  <1>5. CASE pending_tasks[g] = <<>>
    <2>1. /\ tasks_in_execution'[g] = <<>> /\ pending_tasks'[g] = <<>>
          /\ worker'[w] = Idle
      BY <1>g, <1>0, <1>5 DEF ExecutePending, Swap, Types, GroupTypes
    <2>2. WasEmpty(g)'
      BY <2>1 DEF WasEmpty
    <2>3. worker'[w].at = "idle" /\ worker'[w].grp = NoGroup
      BY <2>1 DEF Idle
    <2>4. ~Held(g)' /\ \A h \in Groups : h # g => (Held(h)' <=> Held(h))
      BY <1>0, <1>1, <1>3, <2>3, GroupFacts DEF Held
    <2>5. \A h \in Groups :
              /\ ~(InChannel(h) /\ Held(h))' /\ ~(InChannel(h) /\ Sending(h))'
              /\ ~(Held(h) /\ Sending(h))'
              /\ (WasEmpty(h) <=> ~(InChannel(h) \/ Held(h) \/ Sending(h)))'
      BY <1>0, <1>2, <1>3, <1>4, <2>2, <2>4 DEF Placed
    <2>6. \A x \in Workers :
              /\ worker'[x].at \in {"idle", "ended"} <=> worker'[x].grp = NoGroup
              /\ worker'[x].at = "run" =>
                   worker'[x].next \in 1..Len(tasks_in_execution'[worker'[x].grp])
      <3> SUFFICES ASSUME NEW x \in Workers
                   PROVE  /\ worker'[x].at \in {"idle", "ended"} <=> worker'[x].grp = NoGroup
                          /\ worker'[x].at = "run" =>
                               worker'[x].next \in 1..Len(tasks_in_execution'[worker'[x].grp])
        OBVIOUS
      <3>1. CASE x = w
        BY <2>3, <3>1
      <3>2. CASE x # w
        <4>1. worker[x].grp \in Groups \cup {NoGroup} /\ worker[x].grp # g
          BY <1>0, <1>3, <3>2 DEF WorkerState
        <4> QED
          BY <1>1, <3>2, <4>1 DEF Placed
      <3> QED
        BY <3>1, <3>2
    <2>7. \A x, y \in Workers :
              worker'[x].grp = worker'[y].grp /\ worker'[x].grp # NoGroup => x = y
      BY <1>1, <2>3 DEF Placed
    <2> QED
      BY <1>1, <2>5, <2>6, <2>7 DEF Placed
  <1>6. CASE pending_tasks[g] # <<>>
    <2>1. /\ tasks_in_execution'[g] = pending_tasks[g] /\ pending_tasks'[g] = <<>>
          /\ worker' = [worker EXCEPT ![w] = [worker[w] EXCEPT !.at = "run", !.next = 1]]
      BY <1>g, <1>0, <1>6 DEF ExecutePending, Swap, Types, GroupTypes
    <2>2. ~WasEmpty(g)'
      BY <1>6, <2>1 DEF WasEmpty
    <2>3. worker'[w].at = "run" /\ worker'[w].grp = g /\ worker'[w].next = 1
      BY <1>g, <1>0, <2>1 DEF WorkerState
    <2>4. \A h \in Groups : Held(h)' <=> Held(h)
      BY <1>g, <1>0, <1>1, <2>3 DEF Held
    <2>5. ~WasEmpty(g)
      BY <1>6 DEF WasEmpty
    <2>a. 1 \in 1..Len(tasks_in_execution'[g])
      <3>1. Len(pending_tasks[g]) \in Nat \ {0}
        BY <1>0, <1>6
      <3> QED
        BY <2>1, <3>1
    <2>6. \A h \in Groups :
              /\ ~(InChannel(h) /\ Held(h))' /\ ~(InChannel(h) /\ Sending(h))'
              /\ ~(Held(h) /\ Sending(h))'
              /\ (WasEmpty(h) <=> ~(InChannel(h) \/ Held(h) \/ Sending(h)))'
      BY <1>0, <1>2, <1>3, <1>4, <2>2, <2>4, <2>5 DEF Placed
    <2>7. \A x \in Workers :
              /\ worker'[x].at \in {"idle", "ended"} <=> worker'[x].grp = NoGroup
              /\ worker'[x].at = "run" =>
                   worker'[x].next \in 1..Len(tasks_in_execution'[worker'[x].grp])
      <3> SUFFICES ASSUME NEW x \in Workers
                   PROVE  /\ worker'[x].at \in {"idle", "ended"} <=> worker'[x].grp = NoGroup
                          /\ worker'[x].at = "run" =>
                               worker'[x].next \in 1..Len(tasks_in_execution'[worker'[x].grp])
        OBVIOUS
      <3>1. CASE x = w
        BY <1>0, <2>3, <2>a, <3>1, GroupFacts
      <3>2. CASE x # w
        <4>1. worker[x].grp \in Groups \cup {NoGroup} /\ worker[x].grp # g
          BY <1>0, <1>3, <3>2 DEF WorkerState
        <4> QED
          BY <1>1, <3>2, <4>1 DEF Placed
      <3> QED
        BY <3>1, <3>2
    <2>8. \A x, y \in Workers :
              worker'[x].grp = worker'[y].grp /\ worker'[x].grp # NoGroup => x = y
      <3>1. \A x \in Workers : worker'[x].grp = worker[x].grp
        BY <1>g, <1>1, <2>3
      <3> QED
        BY <3>1 DEF Placed
    <2> QED
      BY <1>1, <2>6, <2>7, <2>8 DEF Placed
  <1> QED
    BY <1>5, <1>6

\* A goroutine that runs a task keeps its group.
LEMMA PlacedRun ==
    ASSUME Types, Placed, NEW w \in Workers, RunTask(w)
    PROVE  Placed'
  <1> DEFINE g == worker[w].grp
             i == worker[w].next
  <1>0. /\ g \in Groups /\ worker \in [Workers -> WorkerState] /\ worker[w].at = "run"
        /\ i \in 1..Len(tasks_in_execution[g]) /\ Len(tasks_in_execution[g]) \in Nat
    <2>1. worker[w].at = "run" /\ worker \in [Workers -> WorkerState]
      BY DEF RunTask, Types, GroupTypes
    <2>2. g \in Groups /\ i \in 1..Len(tasks_in_execution[g])
      BY <2>1 DEF WorkerState, Placed
    <2>3. tasks_in_execution[g] \in Seq(Task)
      BY <2>2 DEF Types, GroupTypes
    <2> QED
      BY <2>1, <2>2, <2>3
  <1>1. /\ tasks_in_execution' = tasks_in_execution /\ pending_tasks' = pending_tasks
        /\ exec' = exec /\ pending_groups' = pending_groups
        /\ \A x \in Workers : x # w => worker'[x] = worker[x]
    BY <1>0 DEF RunTask, groupVars
  <1>2. CASE i < Len(tasks_in_execution[g])
    <2>1. worker' = [worker EXCEPT ![w] = [worker[w] EXCEPT !.next = i + 1]]
      BY <1>2 DEF RunTask
    <2>2. worker'[w].grp = g /\ worker'[w].at = "run" /\ worker'[w].next = i + 1
      BY <1>0, <2>1 DEF WorkerState
    <2>3. i + 1 \in 1..Len(tasks_in_execution[g])
      <3> HIDE DEF g, i
      <3> QED
        BY <1>0, <1>2
    <2> HIDE DEF i
    <2> QED
      BY <1>0, <1>1, <2>2, <2>3 DEF Placed, InChannel, Held, Sending, WasEmpty
  <1>3. CASE ~(i < Len(tasks_in_execution[g]))
    <2>1. worker' = [worker EXCEPT ![w] = [worker[w] EXCEPT !.at = "lock"]]
      BY <1>3 DEF RunTask
    <2>2. worker'[w].grp = g /\ worker'[w].at = "lock"
      BY <1>0, <2>1 DEF WorkerState
    <2> QED
      BY <1>0, <1>1, <2>2 DEF Placed, InChannel, Held, Sending, WasEmpty
  <1> QED
    BY <1>2, <1>3
-----------------------------------------------------------------------------
(* The tasks before a group stay in order.  A step leaves them, takes the  *)
(* first one or adds one at the end; i and j are the positions of the next *)
(* task before and after it.                                               *)

SameTasks(g, i, j) ==
    /\ Remaining(g, j)' = Remaining(g, i)
    /\ \A k \in 1..Remaining(g, i) : Upcoming(g, j, k)' = Upcoming(g, i, k)

FirstTaken(g, i, j) ==
    /\ Remaining(g, j)' = Remaining(g, i) - 1
    /\ \A k \in 1..(Remaining(g, i) - 1) : Upcoming(g, j, k)' = Upcoming(g, i, k + 1)

OneAdded(g, i, j, task) ==
    /\ Remaining(g, j)' = Remaining(g, i) + 1
    /\ \A k \in 1..Remaining(g, i) : Upcoming(g, j, k)' = Upcoming(g, i, k)
    /\ \A k : k = Remaining(g, i) + 1 => Upcoming(g, j, k)' = task

\* The position is in range, and there is one.
LEMMA PositionRange ==
    ASSUME Types, Placed, NEW g \in Groups
    PROVE  /\ \A i \in Nat : Next_(g, i) => i \in 1..(Len(tasks_in_execution[g]) + 1)
           /\ \E i \in Nat : Next_(g, i)
           /\ \A i, j \in Nat : Next_(g, i) /\ Next_(g, j) => i = j
  <1>1. Len(tasks_in_execution[g]) \in Nat
    BY DEF Types, GroupTypes
  <1>2. \A w \in Workers : Runs(w, g) =>
          worker[w].next \in 1..Len(tasks_in_execution[g]) /\ worker[w].next \in Nat
    BY DEF Runs, Placed, Types, GroupTypes, WorkerState
  <1>3. Len(tasks_in_execution[g]) + 1 \in 1..(Len(tasks_in_execution[g]) + 1)
        /\ \A i \in 1..Len(tasks_in_execution[g]) : i \in 1..(Len(tasks_in_execution[g]) + 1)
    BY <1>1
  <1>4. \A i \in Nat : Next_(g, i) => i \in 1..(Len(tasks_in_execution[g]) + 1)
    BY <1>2, <1>3 DEF Next_
  <1>5. \E i \in Nat : Next_(g, i)
    <2>1. CASE \E w \in Workers : Runs(w, g)
      BY <1>2, <2>1 DEF Next_
    <2>2. CASE \A w \in Workers : ~Runs(w, g)
      <3>1. Len(tasks_in_execution[g]) + 1 \in Nat /\ Next_(g, Len(tasks_in_execution[g]) + 1)
        BY <1>1, <2>2 DEF Next_
      <3> QED
        BY <3>1
    <2> QED
      BY <2>1, <2>2
  <1>6. \A w, x \in Workers : Runs(w, g) /\ Runs(x, g) => w = x
    BY GroupFacts DEF Runs, Placed
  <1>7. \A i, j \in Nat : Next_(g, i) /\ Next_(g, j) => i = j
    BY <1>6 DEF Next_
  <1> QED
    BY <1>4, <1>5, <1>7

\* Tasks in order stay in order when neither they nor the mutation change.
LEMMA OrderSame ==
    ASSUME Types, NEW g \in Groups, NEW i, NEW j, Ordered(g, i), Settling(g, i), SameTasks(g, i, j),
           updates'[g] = updates[g], acc'[g] = acc[g], enc'[g] = enc[g],
           g \in pending' => g \in pending \/ updates[g] = 0,
           mutation'[g[1]] = g /\ g \notin pending' => mutation[g[1]] = g /\ g \notin pending,
           main.at = "join" /\ main.grp = g => main'.at = "join" /\ main'.grp = g
    PROVE  (Ordered(g, j) /\ Settling(g, j))'
  <1>1. updates[g] \in Nat /\ acc[g] \in Nat /\ (updates[g] = 0 => acc[g] = 0)
    BY DEF Types, ExecTypes
  <1>2. Ordered(g, j)'
    BY <1>1 DEF Ordered, SameTasks
  <1>3. Settling(g, j)'
    BY DEF Settling, SameTasks
  <1> QED
    BY <1>2, <1>3

\* An update that is submitted follows all earlier ones.
LEMMA OrderUpdate ==
    ASSUME Types, NEW g \in Groups, NEW i, NEW j, Ordered(g, i), Settling(g, i),
           Remaining(g, i) \in Nat, OneAdded(g, i, j, UpdateTask(updates[g] + 1)),
           updates'[g] = updates[g] + 1, acc'[g] = acc[g], main' = main,
           g \in pending, pending' = pending, main.at # "join"
    PROVE  (Ordered(g, j) /\ Settling(g, j))'
  <1>n. PICK n \in Nat : n = Remaining(g, i)
    OBVIOUS
  <1>1. updates[g] \in Nat /\ acc[g] \in Nat /\ acc[g] <= updates[g]
    BY DEF Types, ExecTypes
  <1>2. n = updates[g] - acc[g] /\ Remaining(g, j)' = n + 1 /\ updates'[g] - acc'[g] = n + 1
    BY <1>n, <1>1 DEF Ordered, OneAdded
  <1>3. /\ \A k \in 1..n : Upcoming(g, i, k) = UpdateTask(acc[g] + k)
        /\ \A k \in 1..n : Upcoming(g, j, k)' = Upcoming(g, i, k)
        /\ Upcoming(g, j, n + 1)' = UpdateTask(updates[g] + 1)
    <2>1. \A k \in 1..n : k <= updates[g] - acc[g]
      BY <1>1, <1>2
    <2> QED
      BY <1>n, <2>1 DEF Ordered, OneAdded
  <1>4. ASSUME NEW k \in 1..(n + 1)
        PROVE  Upcoming(g, j, k)' = UpdateTask(acc[g] + k)
    <2>1. k \in 1..n \/ k = n + 1
      BY <1>1
    <2>2. acc[g] + (n + 1) = updates[g] + 1
      BY <1>1, <1>2
    <2> QED
      BY <1>3, <2>1, <2>2
  <1>5. Ordered(g, j)'
    <2>1. \A k \in 1..(n + 1) : k <= n + 1
      BY <1>1
    <2>2. updates'[g] # 0 /\ n + 1 >= n + 1
      BY <1>1
    <2> QED
      BY <1>2, <1>4, <2>1, <2>2 DEF Ordered
  <1>6. Settling(g, j)'
    <2>1. \A k \in 1..(n + 1) : acc[g] + k \in Nat
      BY <1>1
    <2>2. \A k \in 1..(n + 1) : Upcoming(g, j, k)' # UnlockTask
      BY <1>4, <2>1, TasksDiffer
    <2> QED
      BY <1>2, <2>2 DEF Settling
  <1> QED
    BY <1>5, <1>6

\* The commit of a mutation comes after its updates.
LEMMA OrderCommit ==
    ASSUME Types, NEW g \in Groups, NEW i, NEW j, Ordered(g, i), Settling(g, i),
           Remaining(g, i) \in Nat, OneAdded(g, i, j, CommitTask),
           updates' = updates, acc' = acc, enc' = enc, main' = main, updates[g] > 0,
           g \in pending, g \notin pending', main.at # "join"
    PROVE  (Ordered(g, j) /\ Settling(g, j))'
  <1>n. PICK n \in Nat : n = Remaining(g, i)
    OBVIOUS
  <1>1. updates[g] \in Nat /\ acc[g] \in Nat /\ acc[g] <= updates[g]
    BY DEF Types, ExecTypes
  <1>2. n = updates[g] - acc[g] /\ Remaining(g, j)' = n + 1
    BY <1>n, <1>1 DEF Ordered, OneAdded
  <1>3. /\ \A k \in 1..n : Upcoming(g, j, k)' = Upcoming(g, i, k)
        /\ \A k \in 1..n : Upcoming(g, i, k) = UpdateTask(acc[g] + k)
        /\ Upcoming(g, j, n + 1)' = CommitTask
    <2>1. \A k \in 1..n : k <= updates[g] - acc[g]
      BY <1>1, <1>2
    <2> QED
      BY <1>n, <2>1 DEF Ordered, OneAdded
  <1>4. \A k \in 1..(n + 1) : (k \in 1..n /\ k <= n) \/ (k = n + 1 /\ ~(k <= n))
    BY <1>1
  <1>5. Ordered(g, j)'
    <2>1. n + 1 >= n
      BY <1>1
    <2> QED
      BY <1>2, <1>3, <1>4, <2>1 DEF Ordered
  <1>6. Settling(g, j)'
    <2>1. \A k \in 1..n : acc[g] + k \in Nat
      BY <1>1
    <2>2. \A k \in 1..(n + 1) : Upcoming(g, j, k)' # UnlockTask
      BY <1>3, <1>4, <2>1, TasksDiffer
    <2>3. n + 1 \in 1..(n + 1)
      BY <1>1
    <2> QED
      BY <1>2, <1>3, <2>2, <2>3 DEF Settling
  <1> QED
    BY <1>5, <1>6

\* The unlock a Join submits comes after everything.
LEMMA OrderUnlock ==
    ASSUME Types, NEW g \in Groups, NEW i, NEW j, Ordered(g, i), Settling(g, i),
           Remaining(g, i) \in Nat, updates[g] > 0, OneAdded(g, i, j, UnlockTask),
           updates' = updates, acc' = acc, enc' = enc, pending' = pending, mutation' = mutation,
           g \notin pending, main.at # "join", main'.at = "join", main'.grp = g
    PROVE  (Ordered(g, j) /\ Settling(g, j))'
  <1>n. PICK n \in Nat : n = Remaining(g, i)
    OBVIOUS
  <1>1. updates[g] \in Nat /\ acc[g] \in Nat /\ acc[g] <= updates[g]
    BY DEF Types, ExecTypes
  <1>2. n >= updates[g] - acc[g] /\ Remaining(g, j)' = n + 1 /\ updates[g] # 0
    BY <1>n, <1>1 DEF Ordered, OneAdded
  <1>3. /\ \A k \in 1..n : Upcoming(g, j, k)' = Upcoming(g, i, k)
        /\ \A k \in 1..n : IF k <= updates[g] - acc[g] THEN Upcoming(g, i, k) = UpdateTask(acc[g] + k)
                           ELSE Upcoming(g, i, k) \in {CommitTask, UnlockTask}
        /\ \A k \in 1..n : Upcoming(g, i, k) # UnlockTask
        /\ Upcoming(g, j, n + 1)' = UnlockTask
    BY <1>n DEF Ordered, Settling, OneAdded
  <1>s. mutation[g[1]] = g => \/ enc[g] = updates[g]
                              \/ \E k \in 1..n : Upcoming(g, i, k) = CommitTask
    BY <1>n DEF Settling
  <1>4. \A k \in 1..(n + 1) : k \in 1..n \/ (k = n + 1 /\ ~(k <= updates[g] - acc[g]))
    BY <1>1, <1>2
  <1>5. Ordered(g, j)'
    <2>1. n + 1 >= updates[g] - acc[g]
      BY <1>1, <1>2
    <2> QED
      BY <1>2, <1>3, <1>4, <2>1 DEF Ordered
  <1>6. Settling(g, j)'
    <2>1. \A k \in 1..n : k \in 1..(n + 1)
      BY <1>1
    <2>2. \A k \in 1..(n + 1) : Upcoming(g, j, k)' = UnlockTask => k = n + 1
      BY <1>3, <1>4
    <2>3. mutation[g[1]] = g => \/ enc[g] = updates[g]
                                \/ \E k \in 1..(n + 1) : Upcoming(g, j, k)' = CommitTask
      BY <1>3, <1>s, <2>1
    <2> QED
      BY <1>2, <2>2, <2>3 DEF Settling
  <1> QED
    BY <1>5, <1>6

\* The first task is run: an update is applied, a commit encodes the account with all its
\* updates, an unlock is the last one and ends the Join.
LEMMA OrderRun ==
    ASSUME Types, NEW g \in Groups, NEW i, NEW j, NEW task \in Task, Ordered(g, i), Settling(g, i),
           Remaining(g, i) \in Nat \ {0}, FirstTaken(g, i, j), Upcoming(g, i, 1) = task,
           acc'[g] = IF task.do = "update" THEN task.n ELSE acc[g],
           enc'[g] = IF task.do = "commit" THEN acc[g] ELSE enc[g],
           main' = IF task.do = "unlock" THEN [main EXCEPT !.at = "joined"] ELSE main,
           updates' = updates, mutation' = mutation, pending' = pending
    PROVE  (Ordered(g, j) /\ Settling(g, j))'
  <1> DEFINE n == Remaining(g, i)
             u == updates[g] - acc[g]
             Q(k) == Upcoming(g, i, k)
             P(k) == Upcoming(g, j, k)'
  <1>1. updates[g] \in Nat /\ acc[g] \in Nat /\ acc[g] <= updates[g] /\ n \in Nat /\ n # 0 /\ u \in Nat
    BY DEF Types, ExecTypes
  <1>2. /\ n >= u /\ Remaining(g, j)' = n - 1 /\ Q(1) = task
        /\ \A k \in 1..n : IF k <= u THEN Q(k) = UpdateTask(acc[g] + k)
                           ELSE Q(k) \in {CommitTask, UnlockTask}
        /\ \A k \in 1..(n - 1) : P(k) = Q(k + 1)
        /\ \A k \in 1..n : Q(k) = UnlockTask => k = n /\ main.at = "join" /\ main.grp = g
        /\ mutation[g[1]] = g /\ g \notin pending => enc[g] = updates[g] \/ \E k \in 1..n : Q(k) = CommitTask
        /\ g \in pending => n = u
        /\ updates[g] = 0 => n = 0
    BY DEF Ordered, Settling, FirstTaken
  <1>3. \A k \in 1..(n - 1) : k + 1 \in 1..n /\ k + 1 # 1
    BY <1>1
  <1>4. \A k \in 1..n : k = 1 \/ (k - 1 \in 1..(n - 1) /\ (k - 1) + 1 = k)
    BY <1>1
  <1>5. 1 \in 1..n
    BY <1>1
  <1>p. /\ Ordered(g, j)' <=>
             /\ n - 1 >= updates[g] - acc'[g]
             /\ \A k \in 1..(n - 1) : IF k <= updates[g] - acc'[g] THEN P(k) = UpdateTask(acc'[g] + k)
                                      ELSE P(k) \in {CommitTask, UnlockTask}
             /\ g \in pending => n - 1 = updates[g] - acc'[g]
             /\ updates[g] = 0 => n - 1 = 0
        /\ Settling(g, j)' <=>
             /\ \A k \in 1..(n - 1) : P(k) = UnlockTask =>
                  k = n - 1 /\ main'.at = "join" /\ main'.grp = g
             /\ mutation[g[1]] = g /\ g \notin pending =>
                  \/ enc'[g] = updates[g]
                  \/ \E k \in 1..(n - 1) : P(k) = CommitTask
    BY <1>2 DEF Ordered, Settling
  <1> HIDE DEF n, u, Q, P
  <1>6. CASE u > 0
    <2>1. task = UpdateTask(acc[g] + 1) /\ acc[g] + 1 \in Nat
      BY <1>1, <1>2, <1>5, <1>6
    <2>2. task.do = "update" /\ task.n = acc[g] + 1
      BY <2>1, TaskKinds
    <2>3. acc'[g] = acc[g] + 1 /\ enc'[g] = enc[g] /\ main' = main /\ updates[g] - acc'[g] = u - 1
      BY <1>1, <2>2 DEF u
    <2>4. ASSUME NEW k \in 1..(n - 1)
          PROVE  IF k <= u - 1 THEN P(k) = UpdateTask(acc'[g] + k)
                 ELSE P(k) \in {CommitTask, UnlockTask}
      <3>1. k + 1 \in 1..n /\ P(k) = Q(k + 1)
        BY <1>2, <1>3
      <3>2. (k <= u - 1 <=> k + 1 <= u) /\ acc[g] + (k + 1) = acc'[g] + k
        BY <1>1, <2>3
      <3> QED
        BY <1>2, <3>1, <3>2
    <2>5. n - 1 >= u - 1 /\ (g \in pending => n - 1 = u - 1) /\ updates[g] # 0
      BY <1>1, <1>2, <1>6 DEF u
    <2>6. Ordered(g, j)'
      BY <1>p, <2>3, <2>4, <2>5
    <2>7. \A k \in 1..(n - 1) : P(k) = UnlockTask => k = n - 1 /\ main.at = "join" /\ main.grp = g
      <3> SUFFICES ASSUME NEW k \in 1..(n - 1), P(k) = UnlockTask
                   PROVE  k = n - 1 /\ main.at = "join" /\ main.grp = g
        OBVIOUS
      <3>1. k + 1 = n /\ main.at = "join" /\ main.grp = g
        BY <1>2, <1>3
      <3> QED
        BY <1>1, <3>1
    <2>8. mutation[g[1]] = g /\ g \notin pending =>
            enc[g] = updates[g] \/ \E k \in 1..(n - 1) : P(k) = CommitTask
      <3> SUFFICES ASSUME NEW k \in 1..n, Q(k) = CommitTask
                   PROVE  \E l \in 1..(n - 1) : P(l) = CommitTask
        BY <1>2
      <3>1. k # 1
        BY <1>2, <2>1, TasksDiffer
      <3>2. k - 1 \in 1..(n - 1) /\ (k - 1) + 1 = k
        BY <1>4, <3>1
      <3>3. P(k - 1) = Q(k)
        BY <1>2, <3>2
      <3> QED
        BY <3>2, <3>3
    <2>9. Settling(g, j)'
      BY <1>p, <2>3, <2>7, <2>8
    <2> QED
      BY <2>6, <2>9
  <1>7. CASE u = 0
    <2>1. task \in {CommitTask, UnlockTask} /\ acc[g] = updates[g]
      BY <1>1, <1>2, <1>5, <1>7 DEF u
    <2>2. /\ task.do # "update" /\ acc'[g] = acc[g] /\ updates[g] - acc'[g] = 0
          /\ updates[g] # 0 /\ g \notin pending
      BY <1>1, <1>2, <1>7, <2>1, TaskKinds
    <2>3. \A k \in 1..(n - 1) : ~(k <= 0) /\ P(k) \in {CommitTask, UnlockTask}
      <3> SUFFICES ASSUME NEW k \in 1..(n - 1)
                   PROVE  ~(k <= 0) /\ P(k) \in {CommitTask, UnlockTask}
        OBVIOUS
      <3>1. k + 1 \in 1..n /\ P(k) = Q(k + 1) /\ ~(k + 1 <= u) /\ ~(k <= 0)
        BY <1>1, <1>2, <1>3, <1>7
      <3> QED
        BY <1>2, <3>1
    <2>4. Ordered(g, j)'
      <3>1. n - 1 >= 0
        BY <1>1
      <3> QED
        BY <1>p, <2>2, <2>3, <3>1
    <2>5. CASE task = CommitTask
      <3>1. enc'[g] = updates[g] /\ main' = main
        BY <2>1, <2>5, TaskKinds
      <3>2. \A k \in 1..(n - 1) : P(k) = UnlockTask => k = n - 1 /\ main.at = "join" /\ main.grp = g
        <4> SUFFICES ASSUME NEW k \in 1..(n - 1), P(k) = UnlockTask
                     PROVE  k = n - 1 /\ main.at = "join" /\ main.grp = g
          OBVIOUS
        <4>1. k + 1 = n /\ main.at = "join" /\ main.grp = g
          BY <1>2, <1>3
        <4> QED
          BY <1>1, <4>1
      <3> QED
        BY <1>p, <2>4, <3>1, <3>2
    <2>6. CASE task = UnlockTask
      <3>1. n = 1 /\ enc'[g] = enc[g]
        BY <1>2, <1>5, <2>6, TaskKinds
      <3>2. \A k \in 1..n : Q(k) # CommitTask
        <4>1. \A k \in 1..1 : k = 1
          OBVIOUS
        <4> QED
          BY <1>2, <2>6, <3>1, <4>1, TasksDiffer
      <3>3. 1..(n - 1) = {}
        BY <3>1
      <3> QED
        BY <1>p, <1>2, <2>4, <3>1, <3>2, <3>3
    <2> QED
      BY <2>1, <2>4, <2>5, <2>6
  <1> QED
    BY <1>1, <1>6, <1>7
-----------------------------------------------------------------------------
(* What the steps do to the tasks before a group.                          *)

\* A group that is left alone.
LEMMA QueueKept ==
    ASSUME NEW g \in Groups, NEW i, pending_tasks'[g] = pending_tasks[g],
           tasks_in_execution'[g] = tasks_in_execution[g]
    PROVE  SameTasks(g, i, i)
  BY DEF SameTasks, Remaining, Executing, Upcoming

\* Submit adds a task at the end.
LEMMA QueueSubmit ==
    ASSUME Types, NEW g \in Groups, NEW i \in 1..(Len(tasks_in_execution[g]) + 1), NEW task \in Task,
           pending_tasks'[g] = Append(pending_tasks[g], task),
           tasks_in_execution'[g] = tasks_in_execution[g]
    PROVE  OneAdded(g, i, i, task)
  <1>n. PICK n \in Nat, e \in Nat, p \in Nat :
          n = Remaining(g, i) /\ e = Executing(g, i) /\ p = Len(pending_tasks[g]) /\ e <= n
    BY Counts
  <1>1. pending_tasks[g] \in Seq(Task)
    BY DEF Types, GroupTypes
  <1>2. n = e + p /\ Len(pending_tasks'[g]) = p + 1 /\ pending_tasks'[g][p + 1] = task
        /\ \A k \in 1..p : pending_tasks'[g][k] = pending_tasks[g][k]
    BY <1>n, <1>1 DEF Remaining
  <1>3. Executing(g, i)' = e
    BY <1>n DEF Executing
  <1>4. Remaining(g, i)' = n + 1
    BY <1>2, <1>3 DEF Remaining
  <1>5. ASSUME NEW k \in 1..n PROVE Upcoming(g, i, k)' = Upcoming(g, i, k)
    <2>1. CASE k <= e
      BY <1>n, <1>3, <2>1 DEF Upcoming
    <2>2. CASE ~(k <= e)
      <3>1. k - e \in 1..p
        BY <1>2, <2>2
      <3> QED
        BY <1>n, <1>2, <1>3, <2>2, <3>1 DEF Upcoming
    <2> QED
      BY <2>1, <2>2
  <1>6. ASSUME NEW k, k = n + 1 PROVE Upcoming(g, i, k)' = task
    <2>1. ~(k <= e) /\ k - e = p + 1
      BY <1>n, <1>2, <1>6
    <2> QED
      BY <1>2, <1>3, <2>1 DEF Upcoming
  <1> QED
    BY <1>n, <1>4, <1>5, <1>6 DEF OneAdded

\* execute_pending takes the pending tasks in their order.
LEMMA QueueSwap ==
    ASSUME Types, NEW g \in Groups, NEW i \in Nat, i = Len(tasks_in_execution[g]) + 1,
           tasks_in_execution'[g] = pending_tasks[g], pending_tasks'[g] = <<>>
    PROVE  SameTasks(g, i, 1)
  <1>1. Len(pending_tasks[g]) \in Nat /\ Len(tasks_in_execution[g]) \in Nat /\ Len(<<>>) = 0
    BY DEF Types, GroupTypes
  <1>n. PICK n \in Nat : n = Len(pending_tasks[g])
    BY <1>1
  <1>2. Executing(g, i) = 0 /\ Remaining(g, i) = n
    BY <1>1, <1>n DEF Executing, Remaining
  <1>3. Executing(g, 1)' = n
    BY <1>1, <1>n DEF Executing
  <1>4. Remaining(g, 1)' = n
    BY <1>1, <1>3 DEF Remaining
  <1>5. ASSUME NEW k \in 1..n PROVE Upcoming(g, 1, k)' = Upcoming(g, i, k)
    <2>1. ~(k <= 0) /\ k - 0 = k /\ k <= n /\ 1 + k - 1 = k
      BY <1>n
    <2>2. Upcoming(g, i, k) = pending_tasks[g][k]
      BY <1>2, <2>1 DEF Upcoming
    <2>3. Upcoming(g, 1, k)' = pending_tasks[g][k]
      BY <1>3, <2>1 DEF Upcoming
    <2> QED
      BY <2>2, <2>3
  <1> QED
    BY <1>2, <1>4, <1>5 DEF SameTasks

\* A goroutine takes the task at hand and goes on with the next one.
LEMMA QueueRun ==
    ASSUME Types, NEW g \in Groups, NEW i \in 1..Len(tasks_in_execution[g]),
           NEW j \in Nat, j = i + 1,
           tasks_in_execution'[g] = tasks_in_execution[g], pending_tasks'[g] = pending_tasks[g]
    PROVE  FirstTaken(g, i, j)
  <1>0. Len(tasks_in_execution[g]) \in Nat /\ i \in 1..(Len(tasks_in_execution[g]) + 1)
        /\ i \in Nat /\ i <= Len(tasks_in_execution[g])
    BY DEF Types, GroupTypes
  <1>n. PICK n \in Nat, e \in Nat, p \in Nat :
          n = Remaining(g, i) /\ e = Executing(g, i) /\ p = Len(pending_tasks[g])
    BY <1>0, Counts
  <1>1. n = e + p /\ e # 0 /\ e = Len(tasks_in_execution[g]) - i + 1
    BY <1>n, <1>0, Counts DEF Remaining, Executing
  <1>2. Executing(g, j)' = e - 1
    BY <1>0, <1>1 DEF Executing
  <1>3. Remaining(g, j)' = n - 1
    <2>1. Remaining(g, j)' = Executing(g, j)' + p
      BY <1>n DEF Remaining
    <2>2. (e - 1) + p = n - 1
      BY <1>1
    <2> QED
      BY <1>2, <2>1, <2>2
  <1>4. ASSUME NEW k \in 1..(n - 1) PROVE Upcoming(g, j, k)' = Upcoming(g, i, k + 1)
    <2>1. k \in Nat /\ (k <= e - 1 <=> k + 1 <= e) /\ k - (e - 1) = (k + 1) - e
          /\ j + k - 1 = i + (k + 1) - 1
      BY <1>0
    <2>2. CASE k + 1 <= e
      BY <1>n, <1>2, <2>1, <2>2 DEF Upcoming
    <2>3. CASE ~(k + 1 <= e)
      BY <1>n, <1>2, <2>1, <2>3 DEF Upcoming
    <2> QED
      BY <2>2, <2>3
  <1> QED
    BY <1>n, <1>3, <1>4 DEF FirstTaken
-----------------------------------------------------------------------------
\* A step that leaves the tasks and the mutations' values alone.
LEMMA InOrderFrame ==
    ASSUME Types, InOrder, UNCHANGED <<pending_tasks, tasks_in_execution, updates, acc, enc>>,
           \A g \in Groups, i \in Nat : Next_(g, i)' => Next_(g, i),
           \A g \in Groups : g \in pending' => g \in pending \/ updates[g] = 0,
           \A g \in Groups : mutation'[g[1]] = g /\ g \notin pending' =>
                                mutation[g[1]] = g /\ g \notin pending,
           main.at = "join" => main'.at = "join" /\ main'.grp = main.grp
    PROVE  InOrder'
  <1> SUFFICES ASSUME NEW g \in Groups, NEW i \in Nat, Next_(g, i)'
               PROVE  (Ordered(g, i) /\ Settling(g, i))'
    BY DEF InOrder
  <1>1. Ordered(g, i) /\ Settling(g, i)
    BY DEF InOrder
  <1>2. SameTasks(g, i, i)
    BY QueueKept
  <1> QED
    BY <1>1, <1>2, OrderSame

\* The position of a group depends on its tasks in execution and on who runs them.
LEMMA NextFrame ==
    ASSUME NEW g \in Groups, NEW i \in Nat, tasks_in_execution'[g] = tasks_in_execution[g],
           \A w \in Workers : Runs(w, g)' <=> Runs(w, g),
           \A w \in Workers : Runs(w, g) => worker'[w].next = worker[w].next
    PROVE  Next_(g, i)' <=> Next_(g, i)
  BY DEF Next_

\* The groups that a step leaves alone stay in order.
LEMMA OthersInOrder ==
    ASSUME Types, InOrder, NEW g \in Groups,
           tasks_in_execution'[g] = tasks_in_execution[g], pending_tasks'[g] = pending_tasks[g],
           \A w \in Workers : Runs(w, g)' <=> Runs(w, g),
           \A w \in Workers : Runs(w, g) => worker'[w].next = worker[w].next,
           updates'[g] = updates[g], acc'[g] = acc[g], enc'[g] = enc[g],
           g \in pending' => g \in pending, mutation' = mutation,
           mutation[g[1]] = g /\ g \notin pending' => g \notin pending,
           main.at = "join" /\ main.grp = g => main'.at = "join" /\ main'.grp = g
    PROVE  \A i \in Nat : Next_(g, i)' => (Ordered(g, i) /\ Settling(g, i))'
  <1> SUFFICES ASSUME NEW i \in Nat, Next_(g, i)'
               PROVE  (Ordered(g, i) /\ Settling(g, i))'
    OBVIOUS
  <1>1. Next_(g, i)
    BY NextFrame
  <1>2. Ordered(g, i) /\ Settling(g, i)
    BY <1>1 DEF InOrder
  <1>3. SameTasks(g, i, i)
    BY QueueKept
  <1> QED
    BY <1>2, <1>3, OrderSame

\* An update is submitted while the mutation is pending, so before its commit.
LEMMA InOrderUpdate ==
    ASSUME IInv, NEW g \in Groups, Update(g)
    PROVE  InOrder'
  <1>1. Types /\ Placed /\ InOrder /\ MutationsPending /\ Numbered /\ CommitPhases
    BY DEF IInv
  <1>2. g \in pending /\ main.at = "idle"
    <2>1. CASE exec.at = "update" /\ exec.grp = g
      BY <1>1, <2>1 DEF MutationsPending, CommitPhases, Early
    <2>2. CASE exec.at = "execute" /\ mutation[g[1]] = g
      BY <1>1, <2>2, GroupFacts DEF MutationsPending, ExecutingBlock, CommitPhases, Early
    <2> QED
      BY <2>1, <2>2 DEF Update
  <1>3. /\ updates' = [updates EXCEPT ![g] = updates[g] + 1] /\ updates'[g] = updates[g] + 1
        /\ updates[g] \in Nat /\ updates[g] + 1 \in Nat
        /\ \A h \in Groups : h # g => updates'[h] = updates[h]
    BY <1>1 DEF Update, Types, ExecTypes
  <1>4. /\ pending_tasks' = [pending_tasks EXCEPT ![g] = Append(pending_tasks[g], UpdateTask(updates[g] + 1))]
        /\ UNCHANGED <<tasks_in_execution, worker, main, mutation, pending, acc, enc>>
    BY <1>3 DEF Update, SubmitToGroup, UpdateTask, threadVars, mainVars
  <1>5. /\ pending_tasks'[g] = Append(pending_tasks[g], UpdateTask(updates[g] + 1))
        /\ \A h \in Groups : h # g => pending_tasks'[h] = pending_tasks[h]
    BY <1>1, <1>4 DEF Types, GroupTypes
  <1>6. \A h \in Groups : \A w \in Workers : Runs(w, h)' <=> Runs(w, h)
    BY <1>4 DEF Runs
  <1> SUFFICES ASSUME NEW h \in Groups
               PROVE  \A i \in Nat : Next_(h, i)' => (Ordered(h, i) /\ Settling(h, i))'
    BY DEF InOrder
  <1>7. CASE h # g
    BY <1>1, <1>3, <1>4, <1>5, <1>6, <1>7, OthersInOrder
  <1>8. CASE h = g
    <2> SUFFICES ASSUME NEW i \in Nat, Next_(g, i)'
                 PROVE  (Ordered(g, i) /\ Settling(g, i))'
      BY <1>8
    <2>1. Next_(g, i)
      BY <1>4, <1>6, NextFrame
    <2>2. i \in 1..(Len(tasks_in_execution[g]) + 1)
      BY <1>1, <2>1, PositionRange
    <2>3. Ordered(g, i) /\ Settling(g, i)
      BY <1>1, <2>1 DEF InOrder
    <2>4. OneAdded(g, i, i, UpdateTask(updates[g] + 1)) /\ Remaining(g, i) \in Nat
      BY <1>1, <1>3, <1>4, <1>5, <2>2, TaskFacts, QueueSubmit, Counts
    <2>5. main.at # "join" /\ acc'[g] = acc[g]
      BY <1>2, <1>4
    <2> QED
      BY <1>1, <1>2, <1>3, <1>4, <2>3, <2>4, <2>5, OrderUpdate
  <1> QED
    BY <1>7, <1>8

\* The commit of a mutation is submitted after its updates.
LEMMA InOrderCommit ==
    ASSUME IInv, NEW a \in Accounts, CommitMutation(a)
    PROVE  InOrder'
  <1>1. Types /\ Placed /\ InOrder /\ MutationsPending /\ Numbered /\ CommitPhases
    BY DEF IInv
  <1>g. PICK g \in Groups : g = mutation[a] /\ g \in pending
    BY <1>1 DEF CommitMutation, Types, ExecTypes
  <1>2. main.at = "idle" /\ updates[g] > 0 /\ g[1] = a
    BY <1>1, <1>g, GroupFacts DEF CommitMutation, CommitPhases, Early, Numbered, Types, ExecTypes
  <1>3. /\ pending_tasks' = [pending_tasks EXCEPT ![g] = Append(pending_tasks[g], CommitTask)]
        /\ pending' = pending \ {g}
        /\ UNCHANGED <<tasks_in_execution, worker, main, mutation, updates, acc, enc>>
    BY <1>g DEF CommitMutation, SubmitToGroup, CommitTask, threadVars, mainVars
  <1>5. /\ pending_tasks'[g] = Append(pending_tasks[g], CommitTask)
        /\ \A h \in Groups : h # g => pending_tasks'[h] = pending_tasks[h]
    BY <1>1, <1>3 DEF Types, GroupTypes
  <1>6. \A h \in Groups : \A w \in Workers : Runs(w, h)' <=> Runs(w, h)
    BY <1>3 DEF Runs
  <1> SUFFICES ASSUME NEW h \in Groups
               PROVE  \A i \in Nat : Next_(h, i)' => (Ordered(h, i) /\ Settling(h, i))'
    BY DEF InOrder
  <1>7. CASE h # g
    <2>1. (h \in pending' => h \in pending) /\ (h \notin pending' => h \notin pending)
      BY <1>3, <1>7
    <2> QED
      BY <1>1, <1>3, <1>5, <1>6, <1>7, <2>1, OthersInOrder
  <1>8. CASE h = g
    <2> SUFFICES ASSUME NEW i \in Nat, Next_(g, i)'
                 PROVE  (Ordered(g, i) /\ Settling(g, i))'
      BY <1>8
    <2>1. Next_(g, i)
      BY <1>3, <1>6, NextFrame
    <2>2. i \in 1..(Len(tasks_in_execution[g]) + 1)
      BY <1>1, <2>1, PositionRange
    <2>3. Ordered(g, i) /\ Settling(g, i)
      BY <1>1, <2>1 DEF InOrder
    <2>4. OneAdded(g, i, i, CommitTask) /\ Remaining(g, i) \in Nat
      BY <1>1, <1>3, <1>5, <2>2, TaskFacts, QueueSubmit, Counts
    <2>5. main.at # "join" /\ g \notin pending'
      BY <1>2, <1>3
    <2> QED
      BY <1>1, <1>g, <1>2, <1>3, <2>3, <2>4, <2>5, OrderCommit
  <1> QED
    BY <1>7, <1>8

\* The unlock of a Join is submitted after the commit of the mutation.
LEMMA InOrderJoin ==
    ASSUME IInv, NEW g \in Groups, ~WasEmpty(g), EncodeForTrie(g)
    PROVE  InOrder'
  <1>1. Types /\ Placed /\ InOrder /\ MutationsPending /\ Numbered /\ CommitPhases
    BY DEF IInv
  <1>2. main.at = "encode" /\ g \in main.left /\ mutation[g[1]] = g /\ g \notin pending /\ updates[g] > 0
    <2>1. main.at = "encode" /\ g \in main.left /\ mutation[g[1]] = g
      BY <1>1 DEF EncodeForTrie, CommitPhases
    <2>2. exec.at \in Late
      BY <1>1, <2>1 DEF CommitPhases, Types, ExecTypes
    <2> QED
      BY <1>1, <2>1, <2>2, GroupFacts DEF MutationsPending, Numbered, Late
  <1>3. /\ pending_tasks' = [pending_tasks EXCEPT ![g] = Append(pending_tasks[g], UnlockTask)]
        /\ main' = [main EXCEPT !.at = "join", !.grp = g]
        /\ UNCHANGED <<tasks_in_execution, worker, mutation, pending, updates, acc, enc>>
    BY DEF EncodeForTrie, UnlockTask, threadVars, mutationVars
  <1>4. main'.at = "join" /\ main'.grp = g
    BY <1>1, <1>3 DEF Types, MainTypes
  <1>5. /\ pending_tasks'[g] = Append(pending_tasks[g], UnlockTask)
        /\ \A h \in Groups : h # g => pending_tasks'[h] = pending_tasks[h]
    BY <1>1, <1>3 DEF Types, GroupTypes
  <1>6. \A h \in Groups : \A w \in Workers : Runs(w, h)' <=> Runs(w, h)
    BY <1>3 DEF Runs
  <1> SUFFICES ASSUME NEW h \in Groups
               PROVE  \A i \in Nat : Next_(h, i)' => (Ordered(h, i) /\ Settling(h, i))'
    BY DEF InOrder
  <1>7. CASE h # g
    BY <1>1, <1>2, <1>3, <1>5, <1>6, <1>7, OthersInOrder
  <1>8. CASE h = g
    <2> SUFFICES ASSUME NEW i \in Nat, Next_(g, i)'
                 PROVE  (Ordered(g, i) /\ Settling(g, i))'
      BY <1>8
    <2>1. Next_(g, i)
      BY <1>3, <1>6, NextFrame
    <2>2. i \in 1..(Len(tasks_in_execution[g]) + 1)
      BY <1>1, <2>1, PositionRange
    <2>3. Ordered(g, i) /\ Settling(g, i)
      BY <1>1, <2>1 DEF InOrder
    <2>4. OneAdded(g, i, i, UnlockTask) /\ Remaining(g, i) \in Nat
      BY <1>1, <1>3, <1>5, <2>2, TaskFacts, QueueSubmit, Counts
    <2>5. main.at # "join"
      BY <1>2
    <2> QED
      BY <1>1, <1>2, <1>3, <1>4, <2>3, <2>4, <2>5, OrderUnlock
  <1> QED
    BY <1>7, <1>8

\* A goroutine that receives a group, or ends, runs no task yet.
LEMMA InOrderReceive ==
    ASSUME IInv, NEW w \in Workers, Receive(w)
    PROVE  InOrder'
  <1>1. Types /\ InOrder /\ worker \in [Workers -> WorkerState]
    BY DEF IInv, Types, GroupTypes
  <1>2. UNCHANGED <<pending_tasks, tasks_in_execution, updates, acc, enc, pending, mutation, main>>
    BY DEF Receive, groupVars, mutationVars, mainVars
  <1>3. worker[w].at = "idle" /\ worker'[w].at \in {"lock", "ended"}
        /\ \A x \in Workers : x # w => worker'[x] = worker[x]
    <2>1. CASE pending_groups # <<>>
      BY <1>1, <2>1 DEF Receive
    <2>2. CASE pending_groups = <<>>
      BY <1>1, <2>2 DEF Receive, WorkerState
    <2> QED
      BY <2>1, <2>2
  <1>4. \A g \in Groups : \A x \in Workers :
          (Runs(x, g)' <=> Runs(x, g)) /\ (Runs(x, g) => worker'[x].next = worker[x].next)
    BY <1>3 DEF Runs
  <1>5. \A g \in Groups, i \in Nat : Next_(g, i)' => Next_(g, i)
    BY <1>2, <1>4, NextFrame
  <1> QED
    BY <1>1, <1>2, <1>5, InOrderFrame

\* execute_pending keeps the order of the tasks it takes.
LEMMA InOrderSwap ==
    ASSUME IInv, NEW w \in Workers, ExecutePending(w)
    PROVE  InOrder'
  <1>1. Types /\ Placed /\ InOrder /\ worker \in [Workers -> WorkerState] /\ worker[w].at = "lock"
    BY DEF IInv, Types, GroupTypes, ExecutePending
  <1>g. PICK g \in Groups : g = worker[w].grp
    BY <1>1 DEF WorkerState, Placed
  <1>2. UNCHANGED <<updates, acc, enc, pending, mutation, main>>
    BY DEF ExecutePending, mutationVars, mainVars
  <1>3. /\ tasks_in_execution'[g] = pending_tasks[g] /\ pending_tasks'[g] = <<>>
        /\ \A h \in Groups : h # g => /\ pending_tasks'[h] = pending_tasks[h]
                                      /\ tasks_in_execution'[h] = tasks_in_execution[h]
        /\ \A x \in Workers : x # w => worker'[x] = worker[x]
    <2>1. CASE pending_tasks[g] = <<>>
      BY <1>1, <1>g, <2>1 DEF ExecutePending, Swap, Types, GroupTypes
    <2>2. CASE pending_tasks[g] # <<>>
      BY <1>1, <1>g, <2>2 DEF ExecutePending, Swap, Types, GroupTypes
    <2> QED
      BY <2>1, <2>2
  <1>4. \A x \in Workers : x # w => worker[x].grp # g
    BY <1>1, <1>g, GroupFacts DEF Placed
  <1>5. \/ pending_tasks[g] = <<>> /\ worker'[w].at = "idle" /\ worker'[w].grp = NoGroup
        \/ worker'[w].at = "run" /\ worker'[w].grp = g /\ worker'[w].next = 1
    <2>1. CASE pending_tasks[g] = <<>>
      BY <1>1, <1>g, <2>1 DEF ExecutePending, Swap, Idle
    <2>2. CASE pending_tasks[g] # <<>>
      BY <1>1, <1>g, <2>2 DEF ExecutePending, Swap, WorkerState
    <2> QED
      BY <2>1, <2>2
  <1> SUFFICES ASSUME NEW h \in Groups
               PROVE  \A i \in Nat : Next_(h, i)' => (Ordered(h, i) /\ Settling(h, i))'
    BY DEF InOrder
  <1>7. CASE h # g
    <2>1. \A x \in Workers :
            (Runs(x, h)' <=> Runs(x, h)) /\ (Runs(x, h) => worker'[x].next = worker[x].next)
      BY <1>1, <1>g, <1>3, <1>5, <1>7, GroupFacts DEF Runs
    <2> QED
      BY <1>1, <1>2, <1>3, <1>7, <2>1, OthersInOrder
  <1>8. CASE h = g
    <2> SUFFICES ASSUME NEW j \in Nat, Next_(g, j)'
                 PROVE  (Ordered(g, j) /\ Settling(g, j))'
      BY <1>8
    <2>1. Len(tasks_in_execution[g]) + 1 \in Nat /\ Len(<<>>) = 0
      BY <1>1 DEF Types, GroupTypes
    <2>2. PICK i \in Nat : i = Len(tasks_in_execution[g]) + 1
      BY <2>1
    <2>3. Next_(g, i)
      <3>1. \A x \in Workers : ~Runs(x, g)
        BY <1>1, <1>4 DEF Runs
      <3> QED
        BY <2>2, <3>1 DEF Next_
    <2>4. j = 1
      <3>1. CASE pending_tasks[g] = <<>> /\ worker'[w].at = "idle" /\ worker'[w].grp = NoGroup
        <4>1. \A x \in Workers : ~Runs(x, g)'
          BY <1>3, <1>4, <3>1 DEF Runs
        <4> QED
          BY <1>3, <2>1, <3>1, <4>1 DEF Next_
      <3>2. CASE worker'[w].at = "run" /\ worker'[w].grp = g /\ worker'[w].next = 1
        <4>1. Runs(w, g)' /\ \A x \in Workers : x # w => ~Runs(x, g)'
          BY <1>3, <1>4, <3>2 DEF Runs
        <4> QED
          BY <3>2, <4>1 DEF Next_
      <3> QED
        BY <1>5, <3>1, <3>2
    <2>5. SameTasks(g, i, 1)
      BY <1>1, <1>3, <2>2, QueueSwap
    <2>6. Ordered(g, i) /\ Settling(g, i)
      BY <1>1, <2>3 DEF InOrder
    <2> QED
      BY <1>1, <1>2, <2>4, <2>5, <2>6, OrderSame
  <1> QED
    BY <1>7, <1>8

\* What running a task changes.
LEMMA RunFacts ==
    ASSUME IInv, NEW w \in Workers, RunTask(w), NEW g, NEW i,
           g = worker[w].grp, i = worker[w].next
    PROVE  LET task == tasks_in_execution[g][i]
           IN  /\ g \in Groups /\ i \in 1..Len(tasks_in_execution[g]) /\ i \in Nat /\ task \in Task
               /\ Next_(g, i) /\ Ordered(g, i) /\ Settling(g, i)
               /\ Remaining(g, i) \in Nat \ {0} /\ Upcoming(g, i, 1) = task
               /\ acc[g] < updates[g] => task = UpdateTask(acc[g] + 1)
               /\ acc[g] = updates[g] => task \in {CommitTask, UnlockTask}
               /\ acc'[g] = IF task.do = "update" THEN task.n ELSE acc[g]
               /\ enc'[g] = IF task.do = "commit" THEN acc[g] ELSE enc[g]
               /\ main' = IF task.do = "unlock" THEN [main EXCEPT !.at = "joined"] ELSE main
               /\ \A h \in Groups : h # g => acc'[h] = acc[h] /\ enc'[h] = enc[h]
  <1>1. Types /\ Placed /\ InOrder
    BY DEF IInv
  <1>2. worker[w].at = "run"
    BY DEF RunTask
  <1>3. LET task == tasks_in_execution[g][i]
        IN  /\ g \in Groups /\ i \in 1..Len(tasks_in_execution[g]) /\ task \in Task
            /\ Next_(g, i) /\ Ordered(g, i) /\ Settling(g, i)
            /\ Remaining(g, i) \in Nat \ {0} /\ Upcoming(g, i, 1) = task
            /\ acc[g] < updates[g] => task = UpdateTask(acc[g] + 1)
            /\ acc[g] = updates[g] => task \in {CommitTask, UnlockTask}
    BY <1>1, <1>2, TaskAtHand
  <1>4. i \in Nat
    BY <1>1 DEF Types, GroupTypes, WorkerState
  <1>5. acc \in [Groups -> Nat] /\ enc \in [Groups -> Nat]
    BY <1>1 DEF Types, ExecTypes
  <1>t. PICK task : task = tasks_in_execution[g][i]
    OBVIOUS
  <1>6. /\ acc' = IF task.do = "update" THEN [acc EXCEPT ![g] = task.n] ELSE acc
        /\ enc' = IF task.do = "commit" THEN [enc EXCEPT ![g] = acc[g]] ELSE enc
        /\ main' = IF task.do = "unlock" THEN [main EXCEPT !.at = "joined"] ELSE main
    BY <1>t DEF RunTask
  <1>7. /\ acc'[g] = IF task.do = "update" THEN task.n ELSE acc[g]
        /\ enc'[g] = IF task.do = "commit" THEN acc[g] ELSE enc[g]
        /\ \A h \in Groups : h # g => acc'[h] = acc[h] /\ enc'[h] = enc[h]
    BY <1>3, <1>5, <1>6
  <1> QED
    BY <1>t, <1>3, <1>4, <1>6, <1>7

\* The tasks are run in order.
LEMMA InOrderRun ==
    ASSUME IInv, NEW w \in Workers, RunTask(w)
    PROVE  InOrder'
  <1>1. Types /\ Placed /\ InOrder /\ worker \in [Workers -> WorkerState] /\ worker[w].at = "run"
    BY DEF IInv, Types, GroupTypes, RunTask
  <1>g. PICK g, i : g = worker[w].grp /\ i = worker[w].next
    OBVIOUS
  <1>t. PICK task : task = tasks_in_execution[g][i]
    OBVIOUS
  <1>2. /\ g \in Groups /\ i \in 1..Len(tasks_in_execution[g]) /\ i \in Nat /\ task \in Task
        /\ Next_(g, i) /\ Ordered(g, i) /\ Settling(g, i)
        /\ Remaining(g, i) \in Nat \ {0} /\ Upcoming(g, i, 1) = task
        /\ acc'[g] = IF task.do = "update" THEN task.n ELSE acc[g]
        /\ enc'[g] = IF task.do = "commit" THEN acc[g] ELSE enc[g]
        /\ main' = IF task.do = "unlock" THEN [main EXCEPT !.at = "joined"] ELSE main
        /\ \A h \in Groups : h # g => acc'[h] = acc[h] /\ enc'[h] = enc[h]
    BY <1>g, <1>t, RunFacts
  <1>3. /\ UNCHANGED <<updates, pending, mutation, pending_tasks, tasks_in_execution>>
        /\ \A x \in Workers : x # w => worker'[x] = worker[x]
    <2>1. UNCHANGED <<updates, pending, mutation, pending_tasks, tasks_in_execution>>
      BY DEF RunTask, mutationVars, groupVars
    <2>2. \A x \in Workers : x # w => worker'[x] = worker[x]
      BY <1>1 DEF RunTask
    <2> QED
      BY <2>1, <2>2
  <1>4. \A x \in Workers : x # w => worker[x].grp # g
    BY <1>1, <1>g, <1>2, GroupFacts DEF Placed
  <1>5. \/ i < Len(tasks_in_execution[g]) /\ worker'[w].at = "run" /\ worker'[w].grp = g
           /\ worker'[w].next = i + 1
        \/ ~(i < Len(tasks_in_execution[g])) /\ worker'[w].at = "lock" /\ worker'[w].grp = g
    <2>1. CASE i < Len(tasks_in_execution[g])
      <3>1. worker' = [worker EXCEPT ![w] = [worker[w] EXCEPT !.next = i + 1]]
        BY <1>g, <2>1 DEF RunTask
      <3> QED
        BY <1>1, <1>g, <2>1, <3>1 DEF WorkerState
    <2>2. CASE ~(i < Len(tasks_in_execution[g]))
      <3>1. worker' = [worker EXCEPT ![w] = [worker[w] EXCEPT !.at = "lock"]]
        BY <1>g, <2>2 DEF RunTask
      <3> QED
        BY <1>1, <1>g, <2>2, <3>1 DEF WorkerState
    <2> QED
      BY <2>1, <2>2
  <1>6. task.do = "unlock" => main.at = "join" /\ main.grp = g
    <2>1. task.do = "unlock" => task = UnlockTask
      BY <1>2, TaskKinds
    <2>2. 1 \in 1..Remaining(g, i)
      BY <1>2
    <2> QED
      BY <1>2, <2>1, <2>2 DEF Settling
  <1> SUFFICES ASSUME NEW h \in Groups
               PROVE  \A k \in Nat : Next_(h, k)' => (Ordered(h, k) /\ Settling(h, k))'
    BY DEF InOrder
  <1>7. CASE h # g
    <2>1. \A x \in Workers :
            (Runs(x, h)' <=> Runs(x, h)) /\ (Runs(x, h) => worker'[x].next = worker[x].next)
      BY <1>1, <1>g, <1>3, <1>5, <1>7 DEF Runs
    <2>2. main.at = "join" /\ main.grp = h => main'.at = "join" /\ main'.grp = h
      BY <1>2, <1>6, <1>7
    <2> QED
      BY <1>1, <1>2, <1>3, <1>7, <2>1, <2>2, OthersInOrder
  <1>8. CASE h = g
    <2> SUFFICES ASSUME NEW j \in Nat, Next_(g, j)'
                 PROVE  (Ordered(g, j) /\ Settling(g, j))'
      BY <1>8
    <2>1. Len(tasks_in_execution[g]) \in Nat
      BY <1>1, <1>2 DEF Types, GroupTypes
    <2>2. j = i + 1
      <3>1. CASE i < Len(tasks_in_execution[g]) /\ worker'[w].at = "run" /\ worker'[w].grp = g
                 /\ worker'[w].next = i + 1
        <4>1. Runs(w, g)' /\ \A x \in Workers : x # w => ~Runs(x, g)'
          BY <1>3, <1>4, <3>1 DEF Runs
        <4> QED
          BY <3>1, <4>1 DEF Next_
      <3>2. CASE ~(i < Len(tasks_in_execution[g])) /\ worker'[w].at = "lock" /\ worker'[w].grp = g
        <4>1. \A x \in Workers : ~Runs(x, g)'
          BY <1>3, <1>4, <3>2 DEF Runs
        <4>2. j = Len(tasks_in_execution[g]) + 1
          BY <1>3, <4>1 DEF Next_
        <4>3. i = Len(tasks_in_execution[g])
          BY <1>2, <2>1, <3>2
        <4> QED
          BY <4>2, <4>3
      <3> QED
        BY <1>5, <3>1, <3>2
    <2>3. FirstTaken(g, i, j)
      BY <1>1, <1>2, <1>3, <2>2, QueueRun
    <2> QED
      BY <1>1, <1>2, <1>3, <2>3, OrderRun
  <1> QED
    BY <1>7, <1>8
-----------------------------------------------------------------------------
(* The mutations of the accounts.                                          *)

\* A new mutation of an account takes the first number that has no updates.
LEMMA FreshMutation ==
    ASSUME Types, Numbered, NEW a \in Accounts, mutation[a] = NoGroup, MutationOf(a) \in Groups
    PROVE  /\ updates[MutationOf(a)] = 0
           /\ \A m \in 1..MaxMutations : m < MutationOf(a)[2] => updates[<<a, m>>] > 0
           /\ MutationOf(a)[1] = a
  <1> DEFINE S == {n \in 1..MaxMutations : updates[<<a, n>>] > 0}
             c == Cardinality(S)
  <1>0. MaxMutations \in Nat /\ \A n \in 1..MaxMutations : <<a, n>> \in Groups /\ updates[<<a, n>>] \in Nat
    BY GroupFacts DEF Groups, Types, ExecTypes
  <1>1. IsFiniteSet(1..MaxMutations)
    BY <1>0, FS_Interval
  <1>2. S \subseteq 1..MaxMutations
    OBVIOUS
  <1>3. IsFiniteSet(S) /\ c \in Nat
    BY <1>1, <1>2, FS_Subset, FS_CardinalityType
  <1>4. MutationOf(a) = <<a, 1 + c>>
    BY DEF MutationOf
  <1>5. 1 + c \in 1..MaxMutations
    <2>1. <<a, 1 + c>> \in Groups
      BY <1>4
    <2> HIDE DEF c
    <2> QED
      BY <2>1 DEF Groups
  <1>6. \A m, n \in 1..MaxMutations : m < n /\ n \in S => m \in S
    BY DEF Numbered
  <1>7. 1 + c \notin S
    <2> SUFFICES ASSUME 1 + c \in S PROVE FALSE
      OBVIOUS
    <2> HIDE DEF S, c
    <2>1. \A m \in 1..(1 + c) : m \in 1..MaxMutations /\ (m < 1 + c \/ m = 1 + c)
      BY <1>0, <1>3, <1>5
    <2>2. 1..(1 + c) \subseteq S
      BY <1>5, <1>6, <2>1
    <2>3. Cardinality(1..(1 + c)) = 1 + c
      BY <1>3, FS_Interval
    <2>4. Cardinality(1..(1 + c)) <= Cardinality(S)
      BY <1>3, <2>2, FS_Subset
    <2> QED
      BY <1>3, <2>3, <2>4 DEF c
  <1>8. ASSUME NEW m \in 1..MaxMutations, m < 1 + c PROVE m \in S
    <2> SUFFICES ASSUME m \notin S PROVE FALSE
      OBVIOUS
    <2>a. S \subseteq 1..MaxMutations /\ m \in Nat /\ m >= 1
      BY <1>0
    <2> HIDE DEF S, c
    <2>1. \A n \in S : n \in 1..(m - 1)
      <3> SUFFICES ASSUME NEW n \in S PROVE n \in 1..(m - 1)
        OBVIOUS
      <3>1. n \in 1..MaxMutations /\ n \in Nat /\ n >= 1
        BY <1>0, <2>a
      <3>2. ~(m < n) /\ n # m
        BY <1>6, <3>1
      <3> QED
        BY <2>a, <3>1, <3>2
    <2>2. IsFiniteSet(1..(m - 1)) /\ Cardinality(1..(m - 1)) = m - 1
      <3>1. m - 1 \in Nat /\ (1 <= m - 1 \/ m - 1 = 0) /\ m - 1 + 1 - 1 = m - 1
        BY <2>a
      <3> QED
        BY <3>1, FS_Interval
    <2>3. S \subseteq 1..(m - 1)
      BY <2>1
    <2>4. Cardinality(S) <= m - 1
      BY <2>2, <2>3, FS_Subset
    <2> QED
      BY <1>3, <1>8, <2>a, <2>4 DEF c
  <1>9. updates[<<a, 1 + c>>] \in Nat /\ ~(updates[<<a, 1 + c>>] > 0)
    BY <1>0, <1>5, <1>7
  <1>10. \A m \in 1..MaxMutations : m < 1 + c => updates[<<a, m>>] > 0
    BY <1>8
  <1>11. MutationOf(a)[1] = a /\ MutationOf(a)[2] = 1 + c
    BY <1>4
  <1>12. updates[<<a, 1 + c>>] = 0
    BY <1>9
  <1> HIDE DEF c, S
  <1> QED
    BY <1>4, <1>10, <1>11, <1>12

\* Only a task that unlocks the executor moves it, and it is waiting then.
LEMMA MainMovesExecutor ==
    ASSUME Types, CommitPhases, MainReceive
    PROVE  exec' = exec \/ (exec.at \in Late /\ exec' = [exec EXCEPT !.at = "joined"])
  <1>1. CASE Head(tasks).do = "unlock"
    <2>1. tasks # <<>> /\ tasks \in Seq(MainTask)
      BY DEF MainReceive, Types, MainTypes
    <2>2. Len(tasks) \in Nat \ {0} /\ Head(tasks) = tasks[1]
      BY <2>1
    <2>3. 1 \in 1..Len(tasks)
      BY <2>2
    <2>4. exec.at \notin Early
      BY <1>1, <2>2, <2>3 DEF CommitPhases, PutsUpTo
    <2> QED
      BY <1>1, <2>4 DEF MainReceive, Types, ExecTypes
  <1>2. CASE Head(tasks).do # "unlock"
    BY <1>2 DEF MainReceive
  <1> QED
    BY <1>1, <1>2

\* While a block is executed its mutations are pending, and later none is.
LEMMA MutationsPendingStep ==
    ASSUME IInv, Next
    PROVE  MutationsPending'
  <1> USE DEF MutationsPending, ExecutingBlock, mutationVars
  <1>0. Types /\ MutationsPending /\ CommitPhases
    BY DEF IInv
  <1>t. /\ exec \in [at : Early \cup Late, grp : Groups \cup {NoGroup}]
        /\ mutation \in [Accounts -> Groups \cup {NoGroup}]
    BY <1>0 DEF Types, ExecTypes
  <1>u. UNCHANGED <<exec, mutation, pending>> => MutationsPending'
    BY <1>0
  <1>1. ASSUME NEW a \in Accounts, UpdateFirst(a) PROVE MutationsPending'
    BY <1>0, <1>t, <1>1 DEF UpdateFirst, Late
  <1>2. ASSUME NEW a \in Accounts, Delete(a) PROVE MutationsPending'
    BY <1>0, <1>t, <1>2, GroupFacts DEF Delete, Late
  <1>3. ASSUME NEW a \in Accounts, CommitMutation(a) PROVE MutationsPending'
    BY <1>0, <1>t, <1>3 DEF CommitMutation, SubmitToGroup, Late
  <1>4. ASSUME NEW g \in Groups, Update(g) PROVE MutationsPending'
    <2>1. exec'.at \in {"send", "execute"} /\ exec.at \in {"update", "execute"}
          /\ UNCHANGED <<mutation, pending>>
      BY <1>4 DEF Update, SubmitToGroup
    <2> QED
      BY <1>0, <2>1 DEF Late
  <1>5. ASSUME Send PROVE MutationsPending'
    BY <1>0, <1>t, <1>5 DEF Send, Late
  <1>6. ASSUME BeginCommit \/ CommitMain \/ JoinMain \/ JoinAndClose \/ Close PROVE MutationsPending'
    BY <1>0, <1>t, <1>6 DEF BeginCommit, CommitMain, JoinMain, JoinAndClose, Close, Late
  <1>7. ASSUME MainReceive PROVE MutationsPending'
    <2>1. UNCHANGED <<mutation, pending>>
      BY <1>7 DEF MainReceive
    <2>2. exec' = exec \/ (exec.at \in Late /\ exec'.at = "joined")
      BY <1>0, <1>t, <1>7, MainMovesExecutor
    <2> QED
      BY <1>0, <2>1, <2>2 DEF Late
  <1>8. ASSUME NEW g \in Groups, EncodeForTrie(g) PROVE MutationsPending'
    BY <1>u, <1>8 DEF EncodeForTrie
  <1>9. ASSUME Joined \/ NothingToEncode PROVE MutationsPending'
    BY <1>u, <1>9 DEF Joined, NothingToEncode
  <1>10. ASSUME NEW w \in Workers, Works(w) PROVE MutationsPending'
    BY <1>u, <1>10 DEF Works, Receive, ExecutePending, RunTask
  <1>11. ASSUME Done PROVE MutationsPending'
    BY <1>u, <1>11 DEF Done, vars
  <1> QED
    BY <1>1, <1>2, <1>3, <1>4, <1>5, <1>6, <1>7, <1>8, <1>9, <1>10, <1>11
    DEF Next, Executes, MainWorks

\* The numbers of the mutations of an account stay without gaps.
LEMMA NumberedStep ==
    ASSUME IInv, Next
    PROVE  Numbered'
  <1> USE DEF mutationVars
  <1>0. Types /\ Numbered /\ CommitPhases
    BY DEF IInv
  <1>t. /\ exec \in [at : Early \cup Late, grp : Groups \cup {NoGroup}]
        /\ mutation \in [Accounts -> Groups \cup {NoGroup}]
        /\ updates \in [Groups -> Nat]
        /\ \A a \in Accounts : mutation[a] # NoGroup => mutation[a][1] = a
    BY <1>0 DEF Types, ExecTypes
  <1>g. \A a \in Accounts : \A n \in 1..MaxMutations : <<a, n>> \in Groups
    BY DEF Groups
  <1>u. ASSUME UNCHANGED <<mutation, updates>>, exec.at # "update", exec'.at # "update" \/ exec' = exec
        PROVE  Numbered'
    BY <1>0, <1>u DEF Numbered
  <1>v. ASSUME UNCHANGED <<exec, mutation, updates>> PROVE Numbered'
    BY <1>0, <1>v DEF Numbered
  <1>1. ASSUME NEW a \in Accounts, UpdateFirst(a) PROVE Numbered'
    <2>1. /\ exec.at = "execute" /\ mutation[a] = NoGroup /\ MutationOf(a) \in Groups
          /\ mutation' = [mutation EXCEPT ![a] = MutationOf(a)] /\ updates' = updates
          /\ exec' = [at |-> "update", grp |-> MutationOf(a)]
      BY <1>1 DEF UpdateFirst
    <2>2. /\ \A m \in 1..MaxMutations : m < MutationOf(a)[2] => updates[<<a, m>>] > 0
          /\ MutationOf(a)[1] = a
      BY <1>0, <2>1, FreshMutation
    <2>3. \A b \in Accounts : mutation'[b] = IF b = a THEN MutationOf(a) ELSE mutation[b]
      BY <1>t, <2>1
    <2> QED
      BY <1>0, <2>1, <2>2, <2>3 DEF Numbered
  <1>2. ASSUME NEW a \in Accounts, Delete(a) PROVE Numbered'
    BY <1>0, <1>t, <1>2, GroupFacts DEF Delete, Numbered
  <1>3. ASSUME NEW a \in Accounts, CommitMutation(a) PROVE Numbered'
    <2>1. UNCHANGED <<mutation, updates>> /\ exec.at = "commit" /\ exec'.at \in {"send", "commit"}
      BY <1>3 DEF CommitMutation, SubmitToGroup
    <2> QED
      BY <1>u, <2>1
  <1>4. ASSUME NEW g \in Groups, Update(g) PROVE Numbered'
    <2>1. /\ updates' = [updates EXCEPT ![g] = updates[g] + 1] /\ mutation' = mutation
          /\ exec'.at \in {"send", "execute"}
          /\ (exec.at = "update" /\ exec.grp = g) \/ (exec.at = "execute" /\ mutation[g[1]] = g)
      BY <1>4 DEF Update, SubmitToGroup
    <2>2. \A h \in Groups : updates'[h] \in Nat /\ updates'[h] >= updates[h]
                            /\ (h # g => updates'[h] = updates[h]) /\ updates'[g] > 0
      BY <1>t, <2>1
    <2>3. g = <<g[1], g[2]>> /\ g[1] \in Accounts /\ g[2] \in 1..MaxMutations
      BY DEF Groups
    <2>4. mutation[g[1]] = g /\ \A m \in 1..MaxMutations : m < g[2] => updates[<<g[1], m>>] > 0
      <3>1. CASE exec.at = "update" /\ exec.grp = g
        BY <1>0, <3>1 DEF Numbered
      <3>2. CASE exec.at = "execute" /\ mutation[g[1]] = g
        <4>1. updates[<<g[1], g[2]>>] > 0
          BY <1>0, <2>3, <3>2, GroupFacts DEF Numbered
        <4> QED
          BY <1>0, <2>3, <3>2, <4>1 DEF Numbered
      <3> QED
        BY <2>1, <3>1, <3>2
    <2>5. ASSUME NEW a \in Accounts, NEW m \in 1..MaxMutations, NEW n \in 1..MaxMutations,
                 m < n, updates'[<<a, n>>] > 0
          PROVE  updates'[<<a, m>>] > 0
      <3>1. <<a, m>> \in Groups /\ <<a, n>> \in Groups
        BY <1>g
      <3>2. updates[<<a, m>>] > 0
        <4>1. CASE <<a, n>> = g
          BY <2>3, <2>4, <2>5, <4>1
        <4>2. CASE <<a, n>> # g
          <5>1. updates[<<a, n>>] > 0
            BY <2>2, <2>5, <3>1, <4>2
          <5> QED
            BY <1>0, <2>5, <5>1 DEF Numbered
        <4> QED
          BY <4>1, <4>2
      <3>3. updates[<<a, m>>] \in Nat /\ updates'[<<a, m>>] \in Nat
            /\ updates'[<<a, m>>] >= updates[<<a, m>>]
        BY <1>t, <2>2, <3>1
      <3> QED
        BY <3>2, <3>3
    <2>6. ASSUME NEW a \in Accounts, mutation[a] # NoGroup PROVE updates'[mutation[a]] > 0
      <3>1. mutation[a] \in Groups
        BY <1>t, <2>6
      <3>2. CASE mutation[a] = g
        BY <2>2, <3>2
      <3>3. CASE mutation[a] # g
        <4>1. updates[mutation[a]] > 0
          BY <1>0, <2>1, <2>6, <3>3 DEF Numbered
        <4> QED
          BY <2>2, <3>1, <3>3, <4>1
      <3> QED
        BY <3>2, <3>3
    <2> QED
      BY <2>1, <2>5, <2>6 DEF Numbered
  <1>5. ASSUME Send PROVE Numbered'
    <2>1. UNCHANGED <<mutation, updates>> /\ exec.at = "send" /\ exec'.at # "update"
      BY <1>t, <1>5 DEF Send
    <2> QED
      BY <1>u, <2>1
  <1>6. ASSUME BeginCommit \/ CommitMain \/ JoinMain \/ JoinAndClose \/ Close PROVE Numbered'
    <2>1. UNCHANGED <<mutation, updates>> /\ exec.at # "update" /\ exec'.at # "update"
      BY <1>t, <1>6 DEF BeginCommit, CommitMain, JoinMain, JoinAndClose, Close
    <2> QED
      BY <1>u, <2>1
  <1>7. ASSUME MainReceive PROVE Numbered'
    <2>1. UNCHANGED <<mutation, updates>>
      BY <1>7 DEF MainReceive
    <2>2. exec' = exec \/ (exec.at \in Late /\ exec'.at = "joined")
      BY <1>0, <1>t, <1>7, MainMovesExecutor
    <2> QED
      BY <1>u, <1>v, <2>1, <2>2 DEF Late
  <1>8. ASSUME NEW g \in Groups, EncodeForTrie(g) PROVE Numbered'
    BY <1>v, <1>8 DEF EncodeForTrie
  <1>9. ASSUME Joined \/ NothingToEncode PROVE Numbered'
    BY <1>v, <1>9 DEF Joined, NothingToEncode
  <1>10. ASSUME NEW w \in Workers, Works(w) PROVE Numbered'
    BY <1>v, <1>10 DEF Works, Receive, ExecutePending, RunTask
  <1>11. ASSUME Done PROVE Numbered'
    BY <1>v, <1>11 DEF Done, vars
  <1> QED
    BY <1>1, <1>2, <1>3, <1>4, <1>5, <1>6, <1>7, <1>8, <1>9, <1>10, <1>11
    DEF Next, Executes, MainWorks
-----------------------------------------------------------------------------
(* The main trie and its goroutine.                                        *)

\* A task is submitted to the main trie together with the mutation it is about.
LEMMA TrieSubmit ==
    ASSUME Types, TrieFollows, NEW t \in MainTask, SubmitToMain(t), trie' = trie,
           \A a \in Accounts : IF Concerns(t, a) THEN Outcome(t) = mutation'[a]
                               ELSE mutation'[a] = mutation[a]
    PROVE  TrieFollows'
  <1>n. PICK n \in Nat : n = Len(tasks)
    BY DEF Types, MainTypes
  <1>1. /\ Len(tasks') = n + 1 /\ tasks'[n + 1] = t
        /\ \A i \in 1..n : tasks'[i] = tasks[i]
    BY <1>n DEF Types, MainTypes, SubmitToMain
  <1>2. n + 1 \in 1..(n + 1) /\ \A i \in 1..(n + 1) : i \in 1..n \/ i = n + 1
    OBVIOUS
  <1>3. ASSUME NEW a \in Accounts, \A i \in 1..Len(tasks') : ~Concerns(tasks'[i], a)
        PROVE  trie'[a] = mutation'[a]
    <2>1. ~Concerns(t, a)
      BY <1>1, <1>2, <1>3
    <2>2. \A i \in 1..n : i \in 1..(n + 1) /\ ~Concerns(tasks[i], a)
      BY <1>1, <1>3
    <2> QED
      BY <1>n, <2>1, <2>2 DEF TrieFollows
  <1>4. ASSUME NEW a \in Accounts, NEW i \in 1..Len(tasks'), Concerns(tasks'[i], a),
               \A j \in (i + 1)..Len(tasks') : ~Concerns(tasks'[j], a)
        PROVE  Outcome(tasks'[i]) = mutation'[a]
    <2>1. CASE i = n + 1
      BY <1>1, <1>4, <2>1
    <2>2. CASE i \in 1..n
      <3>1. n + 1 \in (i + 1)..(n + 1) /\ \A j \in (i + 1)..n : j \in (i + 1)..(n + 1) /\ j \in 1..n
        BY <2>2
      <3>2. ~Concerns(t, a) /\ \A j \in (i + 1)..n : ~Concerns(tasks[j], a)
        BY <1>1, <1>4, <3>1
      <3> QED
        BY <1>n, <1>1, <1>4, <2>2, <3>2 DEF TrieFollows
    <2> QED
      BY <1>1, <1>2, <2>1, <2>2
  <1> QED
    BY <1>3, <1>4 DEF TrieFollows

\* A task of the main trie about one account.
LEMMA TrieReceive ==
    ASSUME Types, TrieFollows, MainReceive
    PROVE  TrieFollows'
  <1>t. PICK t : t = Head(tasks)
    OBVIOUS
  <1>n. PICK n \in Nat : n = Len(tasks) /\ n # 0
    BY DEF Types, MainTypes, MainReceive
  <1>1. /\ t \in MainTask /\ t = tasks[1] /\ Len(tasks') = n - 1
        /\ \A i \in 1..(n - 1) : tasks'[i] = tasks[i + 1]
    BY <1>t, <1>n DEF Types, MainTypes, MainReceive
  <1>2. /\ mutation' = mutation /\ trie \in [Accounts -> Groups \cup {NoGroup}]
        /\ trie' = CASE t.do = "put"    -> [trie EXCEPT ![t.grp[1]] = t.grp]
                     [] t.do = "delete" -> [trie EXCEPT ![t.grp[1]] = NoGroup]
                     [] OTHER           -> trie
    BY <1>t DEF MainReceive, mutationVars, Types, MainTypes
  <1>3. \A a \in Accounts : trie'[a] = IF Concerns(t, a) THEN Outcome(t) ELSE trie[a]
    <2>1. CASE t.do = "put"
      BY <1>1, <1>2, <2>1, MainTaskKinds DEF Concerns, Outcome
    <2>2. CASE t.do = "delete"
      BY <1>1, <1>2, <2>2, MainTaskKinds DEF Concerns, Outcome
    <2>3. CASE t.do \notin {"put", "delete"}
      BY <1>1, <1>2, <2>3 DEF Concerns
    <2> QED
      BY <2>1, <2>2, <2>3
  <1>4. /\ \A i \in 1..n : i = 1 \/ (i - 1 \in 1..(n - 1) /\ (i - 1) + 1 = i)
        /\ \A i \in 1..(n - 1) : i + 1 \in 1..n
        /\ 1 \in 1..n
    BY <1>n
  <1>5. ASSUME NEW a \in Accounts, \A i \in 1..Len(tasks') : ~Concerns(tasks'[i], a)
        PROVE  trie'[a] = mutation'[a]
    <2>1. \A i \in 1..n : i # 1 => ~Concerns(tasks[i], a)
      <3> SUFFICES ASSUME NEW i \in 1..n, i # 1 PROVE ~Concerns(tasks[i], a)
        OBVIOUS
      <3>1. i - 1 \in 1..(n - 1) /\ (i - 1) + 1 = i
        BY <1>4
      <3>2. tasks'[i - 1] = tasks[i]
        BY <1>1, <3>1
      <3> QED
        BY <1>1, <1>5, <3>1, <3>2
    <2>2. CASE Concerns(t, a)
      <3>1. \A j \in (1 + 1)..n : j \in 1..n /\ j # 1
        OBVIOUS
      <3>2. Outcome(t) = mutation[a]
        BY <1>n, <1>1, <1>4, <2>1, <2>2, <3>1 DEF TrieFollows
      <3> QED
        BY <1>2, <1>3, <2>2, <3>2
    <2>3. CASE ~Concerns(t, a)
      <3>1. \A i \in 1..n : ~Concerns(tasks[i], a)
        BY <1>1, <2>1, <2>3
      <3> QED
        BY <1>n, <1>2, <1>3, <2>3, <3>1 DEF TrieFollows
    <2> QED
      BY <2>2, <2>3
  <1>6. ASSUME NEW a \in Accounts, NEW i \in 1..Len(tasks'), Concerns(tasks'[i], a),
               \A j \in (i + 1)..Len(tasks') : ~Concerns(tasks'[j], a)
        PROVE  Outcome(tasks'[i]) = mutation'[a]
    <2>1. i \in 1..(n - 1) /\ i + 1 \in 1..n /\ tasks'[i] = tasks[i + 1]
      BY <1>1, <1>4
    <2>2. \A j \in ((i + 1) + 1)..n : ~Concerns(tasks[j], a)
      <3> SUFFICES ASSUME NEW j \in ((i + 1) + 1)..n PROVE ~Concerns(tasks[j], a)
        OBVIOUS
      <3>1. j - 1 \in (i + 1)..(n - 1) /\ j - 1 \in 1..(n - 1) /\ (j - 1) + 1 = j
        BY <2>1
      <3>2. tasks'[j - 1] = tasks[j]
        BY <1>1, <3>1
      <3> QED
        BY <1>1, <1>6, <3>1, <3>2
    <2>3. Outcome(tasks[i + 1]) = mutation[a]
      BY <1>n, <1>6, <2>1, <2>2 DEF TrieFollows
    <2> QED
      BY <1>2, <2>1, <2>3
  <1> QED
    BY <1>5, <1>6 DEF TrieFollows

\* The main trie follows the mutations, as the tasks in its channel say.
LEMMA TrieFollowsStep ==
    ASSUME IInv, Next
    PROVE  TrieFollows'
  <1> USE DEF mutationVars, mainVars
  <1>0. Types /\ TrieFollows
    BY DEF IInv
  <1>t. mutation \in [Accounts -> Groups \cup {NoGroup}]
    BY <1>0 DEF Types, ExecTypes
  <1>u. ASSUME UNCHANGED <<tasks, trie, mutation>> PROVE TrieFollows'
    BY <1>0, <1>u DEF TrieFollows
  <1>1. ASSUME NEW a \in Accounts, UpdateFirst(a) PROVE TrieFollows'
    <2>t. PICK t : t = [do |-> "put", grp |-> MutationOf(a)]
      OBVIOUS
    <2>1. /\ mutation[a] = NoGroup /\ MutationOf(a) \in Groups /\ MutationOf(a)[1] = a
          /\ SubmitToMain(t) /\ trie' = trie
          /\ mutation' = [mutation EXCEPT ![a] = MutationOf(a)]
      BY <1>1, <2>t DEF UpdateFirst, MutationOf
    <2>2. t \in MainTask /\ t.do = "put" /\ t.grp = MutationOf(a)
      BY <2>t, <2>1, TaskFacts
    <2>3. \A b \in Accounts : IF Concerns(t, b) THEN Outcome(t) = mutation'[b]
                              ELSE mutation'[b] = mutation[b]
      BY <1>t, <2>1, <2>2 DEF Concerns, Outcome
    <2> QED
      BY <1>0, <2>1, <2>2, <2>3, TrieSubmit
  <1>2. ASSUME NEW a \in Accounts, Delete(a) PROVE TrieFollows'
    <2>t. PICK t : t = [do |-> "delete", grp |-> <<a, 0>>]
      OBVIOUS
    <2>1. SubmitToMain(t) /\ trie' = trie /\ mutation' = [mutation EXCEPT ![a] = NoGroup]
      BY <1>2, <2>t DEF Delete
    <2>2. t \in MainTask /\ t.do = "delete" /\ t.grp[1] = a
      BY <2>t, TaskFacts
    <2>3. \A b \in Accounts : IF Concerns(t, b) THEN Outcome(t) = mutation'[b]
                              ELSE mutation'[b] = mutation[b]
      BY <1>t, <2>1, <2>2 DEF Concerns, Outcome
    <2> QED
      BY <1>0, <2>1, <2>2, <2>3, TrieSubmit
  <1>3. ASSUME CommitMain \/ JoinMain \/ JoinAndClose PROVE TrieFollows'
    <2>1. PICK t \in MainTask : t.do \in {"commit", "unlock", "close"} /\ SubmitToMain(t)
      BY <1>3, TaskFacts DEF CommitMain, JoinMain, JoinAndClose
    <2>2. trie' = trie /\ mutation' = mutation /\ \A b \in Accounts : ~Concerns(t, b)
      BY <1>3, <2>1 DEF CommitMain, JoinMain, JoinAndClose, Concerns
    <2> QED
      BY <1>0, <2>1, <2>2, TrieSubmit
  <1>4. ASSUME MainReceive PROVE TrieFollows'
    BY <1>0, <1>4, TrieReceive
  <1>5. ASSUME NEW a \in Accounts, CommitMutation(a) PROVE TrieFollows'
    BY <1>u, <1>5 DEF CommitMutation
  <1>6. ASSUME NEW g \in Groups, Update(g) \/ EncodeForTrie(g) PROVE TrieFollows'
    BY <1>u, <1>6 DEF Update, EncodeForTrie
  <1>7. ASSUME Send \/ BeginCommit \/ Close \/ Joined \/ NothingToEncode PROVE TrieFollows'
    BY <1>u, <1>7 DEF Send, BeginCommit, Close, Joined, NothingToEncode
  <1>8. ASSUME NEW w \in Workers, Works(w) PROVE TrieFollows'
    BY <1>u, <1>8 DEF Works, Receive, ExecutePending, RunTask
  <1>9. ASSUME Done PROVE TrieFollows'
    BY <1>u, <1>9 DEF Done, vars
  <1> QED
    BY <1>1, <1>2, <1>3, <1>4, <1>5, <1>6, <1>7, <1>8, <1>9 DEF Next, Executes, MainWorks
-----------------------------------------------------------------------------
(* The phases of a block: execution and commit of the mutations, commit of *)
(* the main trie, Join, Close.                                             *)

\* The length of the main trie's channel after a task is added to it.
LEMMA MainAppend ==
    ASSUME Types, NEW t, SubmitToMain(t)
    PROVE  /\ Len(tasks) \in Nat /\ Len(tasks') = Len(tasks) + 1
           /\ tasks'[Len(tasks) + 1] = t /\ tasks' # <<>>
           /\ \A i \in 1..Len(tasks) : tasks'[i] = tasks[i]
  <1>1. tasks \in Seq(MainTask) /\ tasks' = Append(tasks, t)
    BY DEF Types, MainTypes, SubmitToMain
  <1>2. /\ Len(tasks) \in Nat /\ Len(tasks') = Len(tasks) + 1 /\ tasks'[Len(tasks) + 1] = t
        /\ \A i \in 1..Len(tasks) : tasks'[i] = tasks[i]
    BY <1>1
  <1>3. Len(<<>>) = 0 /\ Len(tasks) + 1 # 0
    BY <1>2
  <1> QED
    BY <1>2, <1>3

\* While the block is executed and the mutations are committed the main trie's goroutine
\* is only given puts and deletions.
LEMMA EarlyPhase ==
    ASSUME Types, CommitPhases, exec.at \in Early, exec'.at \in Early, main' = main,
           tasks' = tasks \/ \E t \in MainTask : SubmitToMain(t) /\ t.do \in {"put", "delete"}
    PROVE  CommitPhases'
  <1>1. main.at = "idle" /\ PutsUpTo(Len(tasks)) /\ main.left = {}
    BY DEF CommitPhases
  <1>2. PutsUpTo(Len(tasks))'
    <2>1. CASE tasks' = tasks
      BY <1>1, <2>1 DEF PutsUpTo
    <2>2. ASSUME NEW t \in MainTask, SubmitToMain(t), t.do \in {"put", "delete"}
          PROVE  PutsUpTo(Len(tasks))'
      <3>1. /\ Len(tasks) \in Nat /\ Len(tasks') = Len(tasks) + 1 /\ tasks'[Len(tasks) + 1] = t
            /\ \A i \in 1..Len(tasks) : tasks'[i] = tasks[i]
        BY <2>2, MainAppend
      <3>2. \A i \in 1..(Len(tasks) + 1) : i \in 1..Len(tasks) \/ i = Len(tasks) + 1
        BY <3>1
      <3> QED
        BY <1>1, <2>2, <3>1, <3>2 DEF PutsUpTo
    <2> QED
      BY <2>1, <2>2
  <1>3. exec'.at \notin Late
    BY DEF Early, Late
  <1> QED
    BY <1>1, <1>2, <1>3 DEF CommitPhases, Early

\* The commit of the main trie is the last task in its channel.
LEMMA CommitMainPhase ==
    ASSUME Types, CommitPhases, CommitMain
    PROVE  CommitPhases'
  <1>0. exec.at \in Early /\ main' = main /\ exec'.at = "unlock"
    BY DEF CommitMain, Early, Types, ExecTypes
  <1>1. main.at = "idle" /\ PutsUpTo(Len(tasks)) /\ main.left = {}
    BY <1>0 DEF CommitPhases
  <1>2. /\ Len(tasks) \in Nat /\ Len(tasks') = Len(tasks) + 1
        /\ tasks'[Len(tasks) + 1].do = "commit" /\ tasks' # <<>>
        /\ \A i \in 1..Len(tasks) : tasks'[i] = tasks[i]
    BY MainAppend DEF CommitMain
  <1>3. Len(tasks') - 1 = Len(tasks)
    BY <1>2
  <1>4. PutsUpTo(Len(tasks) - 1)'
    BY <1>1, <1>2, <1>3 DEF PutsUpTo
  <1>5. tasks'[Len(tasks')].do = "commit"
    BY <1>2
  <1> QED
    BY <1>0, <1>1, <1>2, <1>4, <1>5 DEF CommitPhases, Early

\* Then the unlock that Join waits for.
LEMMA JoinMainPhase ==
    ASSUME Types, CommitPhases, JoinMain
    PROVE  CommitPhases'
  <1>0. /\ exec.at = "unlock" /\ exec'.at = "wait"
        /\ UNCHANGED <<main, mutation, updates, root, enc>>
    BY DEF JoinMain, Types, ExecTypes, mutationVars
  <1>n. PICK n \in Nat : n = Len(tasks)
    BY DEF Types, MainTypes
  <1>1. /\ Len(tasks') = n + 1 /\ tasks'[n + 1].do = "unlock"
        /\ \A i \in 1..n : tasks'[i] = tasks[i]
    BY <1>n, MainAppend DEF JoinMain
  <1>2. /\ tasks # <<>> => n # 0
        /\ tasks = <<>> => n = 0
    BY <1>n DEF Types, MainTypes
  <1>3. CASE /\ tasks # <<>> /\ tasks[Len(tasks)].do = "commit"
             /\ PutsUpTo(Len(tasks) - 1) /\ main.at = "idle"
    <2>1. Len(tasks') - 1 = n /\ Len(tasks') - 2 = n - 1 /\ Len(tasks') >= 2 /\ n \in 1..n
      BY <1>1, <1>2, <1>3
    <2>2. tasks'[n].do = "commit" /\ tasks'[Len(tasks')].do = "unlock"
      BY <1>n, <1>1, <1>3, <2>1
    <2>3. \A i \in 1..(n - 1) : i \in 1..n
      OBVIOUS
    <2>4. PutsUpTo(Len(tasks) - 2)'
      BY <1>n, <1>1, <1>3, <2>1, <2>3 DEF PutsUpTo
    <2>5. (Len(tasks) >= 2 /\ tasks[Len(tasks)].do = "unlock" /\ tasks[Len(tasks) - 1].do = "commit")'
      BY <2>1, <2>2
    <2> QED
      BY <1>0, <1>3, <2>4, <2>5 DEF CommitPhases, Early
  <1>4. CASE tasks = <<>> /\ main.at # "ended" /\ Collected
    <2>1. Len(tasks') = 1 /\ tasks'[1].do = "unlock"
      BY <1>1, <1>2, <1>4
    <2>2. Collected'
      BY <1>0, <1>4 DEF Collected
    <2> QED
      BY <1>0, <1>4, <2>1, <2>2 DEF CommitPhases, Early
  <1> QED
    BY <1>0, <1>3, <1>4 DEF CommitPhases

\* Close, after Join.
LEMMA ClosePhase ==
    ASSUME Types, CommitPhases, JoinAndClose \/ Close
    PROVE  CommitPhases'
  <1>0. UNCHANGED <<main, mutation, updates, root, enc>>
    BY DEF JoinAndClose, Close, mutationVars, mainVars
  <1>1. Collected => Collected'
    BY <1>0 DEF Collected
  <1>2. CASE JoinAndClose
    <2>1. exec.at = "joined" /\ exec'.at = "closing"
      BY <1>2 DEF JoinAndClose, Types, ExecTypes
    <2>2. tasks = <<>> /\ main.at = "idle" /\ Collected /\ Len(<<>>) = 0
      BY <2>1 DEF CommitPhases
    <2>3. Len(tasks') = 1 /\ tasks'[1].do = "close"
      <3>1. Len(tasks') = Len(tasks) + 1 /\ tasks'[Len(tasks) + 1] = [do |-> "close"]
        BY <1>2, MainAppend DEF JoinAndClose
      <3> QED
        BY <2>2, <3>1
    <2> QED
      BY <1>0, <1>1, <2>1, <2>2, <2>3 DEF CommitPhases, Early
  <1>3. CASE Close
    <2>1. exec.at = "closing" /\ exec'.at = "closed" /\ main.at = "ended" /\ tasks' = tasks
      BY <1>3 DEF Close, Types, ExecTypes, mainVars
    <2>2. tasks = <<>> /\ Collected
      BY <2>1 DEF CommitPhases
    <2> QED
      BY <1>0, <1>1, <2>1, <2>2 DEF CommitPhases, Early
  <1> QED
    BY <1>2, <1>3

\* The goroutine of the main trie takes the next task.
LEMMA ReceivePhase ==
    ASSUME IInv, MainReceive
    PROVE  CommitPhases'
  <1>0. Types /\ CommitPhases /\ TrieFollows
    BY DEF IInv
  <1>n. PICK n \in Nat : n = Len(tasks) /\ n # 0
    BY <1>0 DEF Types, MainTypes, MainReceive
  <1>t. PICK t \in MainTask : t = Head(tasks) /\ t = tasks[1]
    BY <1>0 DEF Types, MainTypes, MainReceive
  <1>1. /\ Len(tasks') = n - 1 /\ (n = 1 => tasks' = <<>>)
        /\ \A i \in 1..(n - 1) : tasks'[i] = tasks[i + 1]
    BY <1>0, <1>n DEF Types, MainTypes, MainReceive
  <1>2. /\ main.at = "idle" /\ main.left = {} /\ tasks # <<>>
        /\ UNCHANGED <<root, mutation, updates, enc>>
    BY <1>0 DEF MainReceive, CommitPhases, mutationVars
  <1>3. main' = CASE t.do = "commit" -> [main EXCEPT !.at = "encode", !.left = Range(trie) \ {NoGroup}]
                  [] t.do = "close"  -> [main EXCEPT !.at = "ended"]
                  [] OTHER           -> main
    BY <1>t DEF MainReceive
  <1>4. exec' = IF t.do = "unlock" THEN [exec EXCEPT !.at = "joined"] ELSE exec
    BY <1>t DEF MainReceive
  <1>5. exec.at \in Early \cup Late /\ (t.do = "unlock" => exec'.at = "joined")
    BY <1>0, <1>4 DEF Types, ExecTypes
  <1>m. /\ t.do = "commit" => main'.at = "encode" /\ main'.left = Range(trie) \ {NoGroup}
        /\ t.do = "close" => main'.at = "ended" /\ main'.left = main.left
        /\ t.do \notin {"commit", "close"} => main' = main
    BY <1>0, <1>3 DEF Types, MainTypes
  <1>i. /\ 1 \in 1..n /\ n \in 1..n
        /\ \A m \in Nat : m <= n => \A i \in 1..(m - 1) : i + 1 \in 1..m /\ i \in 1..(n - 1)
    BY <1>n
  <1>p. ASSUME NEW m \in Nat, m <= n, PutsUpTo(m)
        PROVE  \A i \in 1..(m - 1) : tasks'[i].do \in {"put", "delete"}
    BY <1>1, <1>i, <1>p DEF PutsUpTo
  <1>6. CASE exec.at \in Early
    <2>1. PutsUpTo(n)
      BY <1>0, <1>n, <1>6 DEF CommitPhases
    <2>2. t.do \in {"put", "delete"}
      BY <1>t, <1>i, <2>1 DEF PutsUpTo
    <2>3. \A i \in 1..(n - 1) : tasks'[i].do \in {"put", "delete"}
      BY <1>n, <1>p, <2>1
    <2>4. PutsUpTo(Len(tasks))'
      BY <1>1, <2>3 DEF PutsUpTo
    <2>5. exec' = exec /\ main' = main /\ exec.at \notin Late
      BY <1>4, <1>6, <1>m, <2>2 DEF Early, Late
    <2> QED
      BY <1>2, <1>6, <2>4, <2>5 DEF CommitPhases, Late
  <1>7. CASE exec.at = "unlock"
    <2>1. tasks[n].do = "commit" /\ PutsUpTo(n - 1)
      BY <1>0, <1>n, <1>2, <1>7 DEF CommitPhases
    <2>2. CASE n = 1
      <3>1. t.do = "commit" /\ exec' = exec /\ tasks' = <<>>
        BY <1>t, <1>1, <1>4, <2>1, <2>2
      <3>2. main'.at = "encode" /\ main'.left = Range(trie) \ {NoGroup}
        BY <1>m, <3>1
      <3>3. \A a \in Accounts : trie[a] = mutation[a]
        <4>1. \A i \in 1..1 : i = 1
          OBVIOUS
        <4>2. \A a \in Accounts, i \in 1..Len(tasks) : ~Concerns(tasks[i], a)
          BY <1>t, <1>n, <2>2, <3>1, <4>1 DEF Concerns
        <4> QED
          BY <1>0, <4>2 DEF TrieFollows
      <3>4. Collected' /\ \A g \in main'.left : mutation'[g[1]] = g
        BY <1>0, <1>2, <3>2, <3>3 DEF Collected, Range, Types, MainTypes, ExecTypes
      <3> QED
        BY <1>2, <1>7, <3>1, <3>2, <3>4 DEF CommitPhases, Early
    <2>3. CASE n # 1
      <3>0. n - 1 \in Nat /\ n - 1 <= n /\ 1 \in 1..(n - 1) /\ n - 1 \in 1..(n - 1)
            /\ (n - 1) + 1 = n /\ (n - 1) - 1 = n - 2
        BY <1>n, <2>3
      <3>1. t.do \in {"put", "delete"}
        BY <1>t, <2>1, <3>0 DEF PutsUpTo
      <3>2. exec' = exec /\ main' = main
        BY <1>4, <1>m, <3>1
      <3>3. \A i \in 1..(n - 2) : tasks'[i].do \in {"put", "delete"}
        BY <1>p, <2>1, <3>0
      <3>4. PutsUpTo(Len(tasks) - 1)'
        BY <1>1, <3>0, <3>3 DEF PutsUpTo
      <3>5. tasks'[Len(tasks')].do = "commit" /\ tasks' # <<>>
        <4>1. tasks'[n - 1] = tasks[n]
          BY <1>1, <3>0
        <4>2. Len(tasks') # 0 /\ Len(<<>>) = 0
          BY <1>1, <3>0
        <4> QED
          BY <1>1, <2>1, <4>1, <4>2
      <3> QED
        BY <1>2, <1>7, <3>2, <3>4, <3>5 DEF CommitPhases, Early
    <2> QED
      BY <2>2, <2>3
  <1>8. CASE exec.at = "wait"
    <2>1. CASE /\ n >= 2 /\ tasks[n].do = "unlock" /\ tasks[n - 1].do = "commit" /\ PutsUpTo(n - 2)
      <3>1. CASE n = 2
        <4>1. t.do = "commit" /\ exec' = exec /\ Len(tasks') = 1 /\ tasks'[1] = tasks[2]
          BY <1>t, <1>1, <1>4, <2>1, <3>1
        <4>2. main'.at = "encode" /\ main'.left = Range(trie) \ {NoGroup}
          BY <1>m, <4>1
        <4>3. \A a \in Accounts : trie[a] = mutation[a]
          <5>1. \A i \in 1..2 : i = 1 \/ i = 2
            OBVIOUS
          <5>2. \A a \in Accounts, i \in 1..Len(tasks) : ~Concerns(tasks[i], a)
            BY <1>t, <1>n, <2>1, <3>1, <4>1, <5>1 DEF Concerns
          <5> QED
            BY <1>0, <5>2 DEF TrieFollows
        <4>4. Collected' /\ \A g \in main'.left : mutation'[g[1]] = g
          BY <1>0, <1>2, <4>2, <4>3 DEF Collected, Range, Types, MainTypes, ExecTypes
        <4>5. tasks'[1].do = "unlock"
          BY <2>1, <3>1, <4>1
        <4> QED
          BY <1>2, <1>8, <4>1, <4>2, <4>4, <4>5 DEF CommitPhases, Early
      <3>2. CASE n # 2
        <4>0. n - 2 \in Nat /\ n - 2 <= n /\ 1 \in 1..(n - 2) /\ n - 1 \in 1..(n - 1) /\ n - 2 \in 1..(n - 1)
              /\ (n - 1) + 1 = n /\ (n - 2) + 1 = n - 1 /\ (n - 2) - 1 = n - 3 /\ n - 1 >= 2
              /\ (n - 1) - 1 = n - 2 /\ (n - 1) - 2 = n - 3
          BY <1>n, <2>1, <3>2
        <4>1. t.do \in {"put", "delete"}
          BY <1>t, <2>1, <4>0 DEF PutsUpTo
        <4>2. exec' = exec /\ main' = main
          BY <1>4, <1>m, <4>1
        <4>3. \A i \in 1..(n - 3) : tasks'[i].do \in {"put", "delete"}
          BY <1>p, <2>1, <4>0
        <4>4. PutsUpTo(Len(tasks) - 2)'
          BY <1>1, <4>0, <4>3 DEF PutsUpTo
        <4>5. tasks'[Len(tasks')].do = "unlock" /\ tasks'[Len(tasks') - 1].do = "commit"
              /\ Len(tasks') >= 2
          <5>1. tasks'[n - 1] = tasks[n] /\ tasks'[n - 2] = tasks[n - 1]
            BY <1>1, <4>0
          <5> QED
            BY <1>1, <2>1, <4>0, <5>1
        <4> QED
          BY <1>2, <1>8, <4>2, <4>4, <4>5 DEF CommitPhases, Early
      <3> QED
        BY <3>1, <3>2
    <2>2. CASE n = 1 /\ tasks[1].do = "unlock" /\ Collected
      <3>1. t.do = "unlock" /\ tasks' = <<>> /\ main' = main
        BY <1>t, <1>1, <1>m, <2>2
      <3>2. exec'.at = "joined"
        BY <1>5, <3>1
      <3>3. Collected'
        BY <1>2, <2>2, <3>1 DEF Collected
      <3> QED
        BY <1>2, <3>1, <3>2, <3>3 DEF CommitPhases, Early
    <2> QED
      BY <1>0, <1>n, <1>8, <2>1, <2>2 DEF CommitPhases
  <1>9. CASE exec.at = "joined"
    BY <1>0, <1>2, <1>9 DEF CommitPhases
  <1>10. CASE exec.at = "closing"
    <2>1. n = 1 /\ tasks[1].do = "close" /\ Collected
      BY <1>0, <1>2, <1>n, <1>10 DEF CommitPhases
    <2>2. t.do = "close" /\ tasks' = <<>> /\ exec' = exec
      BY <1>t, <1>1, <1>4, <2>1
    <2>3. main'.at = "ended" /\ main'.left = {}
      BY <1>2, <1>m, <2>2
    <2>4. Collected'
      BY <1>2, <2>1, <2>3 DEF Collected
    <2> QED
      BY <1>2, <1>10, <2>2, <2>3, <2>4 DEF CommitPhases, Early
  <1>11. CASE exec.at = "closed"
    BY <1>0, <1>2, <1>11 DEF CommitPhases
  <1> QED
    BY <1>5, <1>6, <1>7, <1>8, <1>9, <1>10, <1>11 DEF Late

\* A value is encoded after all its updates.
LEMMA EncodePhase ==
    ASSUME Types, CommitPhases, NEW g \in Groups, g \in main.left, main.at \in {"encode", "joined"},
           enc[g] = updates[g], Encode(g), UNCHANGED <<tasks, mutation, updates, exec, enc>>
    PROVE  CommitPhases'
  <1>1. /\ main'.at = IF main.left = {g} THEN "idle" ELSE "encode"
        /\ main'.left = main.left \ {g}
        /\ root' = [root EXCEPT ![g[1]] = enc[g]]
    BY DEF Encode
  <1>2. /\ \A h \in main.left : mutation[h[1]] = h
        /\ \/ exec.at = "unlock" /\ tasks = <<>> /\ Collected
           \/ exec.at = "wait" /\ Len(tasks) = 1 /\ tasks[1].do = "unlock" /\ Collected
    BY DEF CommitPhases, Types, ExecTypes, Late
  <1>3. Collected'
    <2>1. root \in [Accounts -> Nat] /\ g[1] \in Accounts
      BY GroupFacts DEF Types, MainTypes
    <2> SUFFICES ASSUME NEW a \in Accounts, mutation[a] # NoGroup, mutation[a] \notin main.left \ {g}
                 PROVE  root'[a] = updates[mutation[a]]
      BY <1>1 DEF Collected
    <2>2. CASE a = g[1]
      BY <1>1, <1>2, <2>1, <2>2
    <2>3. CASE a # g[1]
      <3>1. mutation[a] # g
        BY <2>3 DEF Types, ExecTypes
      <3> QED
        BY <1>1, <1>2, <2>1, <2>3, <3>1 DEF Collected
    <2> QED
      BY <2>2, <2>3
  <1>4. main'.at \in {"idle", "encode"} /\ (main'.at = "idle" => main'.left = {})
    BY <1>1
  <1> QED
    BY <1>1, <1>2, <1>3, <1>4 DEF CommitPhases, Early

\* EncodeForTrie reads the encoding of a group that is empty, or waits for the group.
LEMMA EncodeForTriePhase ==
    ASSUME IInv, NEW g \in Groups, EncodeForTrie(g)
    PROVE  CommitPhases'
  <1>0. Types /\ Placed /\ InOrder /\ MutationsPending /\ CommitPhases
    BY DEF IInv
  <1>1. main.at = "encode" /\ g \in main.left /\ UNCHANGED <<tasks, mutation, updates, exec, enc>>
    BY DEF EncodeForTrie, mutationVars
  <1>2. CASE WasEmpty(g)
    <2>1. mutation[g[1]] = g /\ g \notin pending
      <3>1. exec.at \in Late
        BY <1>0, <1>1 DEF CommitPhases, Types, ExecTypes
      <3> QED
        BY <1>0, <1>1, <3>1, GroupFacts DEF CommitPhases, MutationsPending
    <2>2. PICK i \in Nat : Next_(g, i)
      BY <1>0, PositionRange
    <2>3. i \in 1..(Len(tasks_in_execution[g]) + 1) /\ Settling(g, i)
      BY <1>0, <2>2, PositionRange DEF InOrder
    <2>4. Remaining(g, i) = 0
      <3>1. tasks_in_execution[g] = <<>> /\ pending_tasks[g] = <<>>
            /\ Len(tasks_in_execution[g]) = 0 /\ Len(pending_tasks[g]) = 0
        BY <1>2 DEF WasEmpty
      <3>2. i = 1
        BY <2>3, <3>1
      <3> QED
        BY <3>1, <3>2 DEF Remaining, Executing
    <2>5. enc[g] = updates[g]
      BY <2>1, <2>3, <2>4 DEF Settling
    <2>6. Encode(g)
      BY <1>2 DEF EncodeForTrie
    <2> QED
      BY <1>0, <1>1, <2>5, <2>6, EncodePhase
  <1>3. CASE ~WasEmpty(g)
    <2>1. main' = [main EXCEPT !.at = "join", !.grp = g] /\ root' = root
      BY <1>3 DEF EncodeForTrie
    <2>2. main'.at = "join" /\ main'.grp = g /\ main'.left = main.left
      BY <1>0, <2>1 DEF Types, MainTypes
    <2>3. Collected => Collected'
      BY <1>1, <2>1, <2>2 DEF Collected
    <2> QED
      BY <1>0, <1>1, <2>2, <2>3 DEF CommitPhases
  <1> QED
    BY <1>2, <1>3

\* A task of a group that is run: the unlock comes when all updates are encoded.
LEMMA RunPhase ==
    ASSUME IInv, NEW w \in Workers, RunTask(w)
    PROVE  CommitPhases'
  <1>0. Types /\ Placed /\ InOrder /\ MutationsPending /\ CommitPhases
    BY DEF IInv
  <1>g. PICK g, i : g = worker[w].grp /\ i = worker[w].next
    OBVIOUS
  <1>t. PICK task : task = tasks_in_execution[g][i]
    OBVIOUS
  <1>1. /\ g \in Groups /\ task \in Task /\ Ordered(g, i) /\ Settling(g, i)
        /\ Remaining(g, i) \in Nat \ {0} /\ Upcoming(g, i, 1) = task
        /\ acc[g] < updates[g] => task = UpdateTask(acc[g] + 1)
        /\ acc[g] = updates[g] => task \in {CommitTask, UnlockTask}
        /\ enc'[g] = IF task.do = "commit" THEN acc[g] ELSE enc[g]
        /\ main' = IF task.do = "unlock" THEN [main EXCEPT !.at = "joined"] ELSE main
        /\ \A h \in Groups : h # g => enc'[h] = enc[h]
    BY <1>g, <1>t, RunFacts
  <1>2. UNCHANGED <<tasks, root, mutation, updates, pending, exec>>
    BY DEF RunTask, mutationVars
  <1>3. acc[g] \in Nat /\ updates[g] \in Nat /\ acc[g] <= updates[g]
    BY <1>0, <1>1 DEF Types, ExecTypes
  <1>4. task.do = "commit" => enc'[g] = updates[g]
    <2>1. task.do = "commit" => ~(acc[g] < updates[g])
      BY <1>1, <1>3, TaskKinds
    <2> QED
      BY <1>1, <1>3, <2>1
  <1>5. CASE task.do = "unlock"
    <2>1. task = UnlockTask /\ 1 \in 1..Remaining(g, i)
      BY <1>1, <1>5, TaskKinds
    <2>2. Remaining(g, i) = 1 /\ main.at = "join" /\ main.grp = g
      BY <1>1, <2>1 DEF Settling
    <2>3. \A k \in 1..1 : k = 1
      OBVIOUS
    <2>4. ~(\E k \in 1..Remaining(g, i) : Upcoming(g, i, k) = CommitTask)
      BY <1>1, <2>1, <2>2, <2>3, TasksDiffer
    <2>5. exec.at \in Late /\ g \in main.left /\ mutation[g[1]] = g
      BY <1>0, <2>2 DEF CommitPhases, Types, ExecTypes
    <2>6. g \notin pending
      BY <1>0, <2>5, <1>1, GroupFacts DEF MutationsPending
    <2>7. enc[g] = updates[g] /\ enc'[g] = enc[g]
      BY <1>1, <1>5, <2>4, <2>5, <2>6 DEF Settling
    <2>8. main'.at = "joined" /\ main'.grp = g /\ main'.left = main.left
      BY <1>0, <1>1, <1>5, <2>2 DEF Types, MainTypes
    <2>9. Collected => Collected'
      BY <1>2, <2>8 DEF Collected
    <2> QED
      BY <1>0, <1>2, <2>2, <2>5, <2>7, <2>8, <2>9 DEF CommitPhases
  <1>6. CASE task.do # "unlock"
    <2>1. main' = main
      BY <1>1, <1>6
    <2>2. Collected => Collected'
      BY <1>2, <2>1 DEF Collected
    <2>3. main.at = "joined" => enc'[main.grp] = updates[main.grp]
      <3>1. CASE main.grp = g
        BY <1>0, <1>1, <1>4, <3>1 DEF CommitPhases
      <3>2. CASE main.grp # g
        BY <1>0, <1>1, <3>2 DEF CommitPhases, Types, MainTypes
      <3> QED
        BY <3>1, <3>2
    <2> QED
      BY <1>0, <1>2, <2>1, <2>2, <2>3 DEF CommitPhases, PutsUpTo
  <1> QED
    BY <1>5, <1>6

\* Every step keeps the phases.
LEMMA CommitPhasesStep ==
    ASSUME IInv, Next
    PROVE  CommitPhases'
  <1> USE DEF mutationVars, mainVars
  <1>0. Types /\ CommitPhases
    BY DEF IInv
  <1>t. exec \in [at : Early \cup Late, grp : Groups \cup {NoGroup}]
    BY <1>0 DEF Types, ExecTypes
  <1>u. ASSUME UNCHANGED <<main, mutation, updates, exec, tasks, root, enc>> PROVE CommitPhases'
    BY <1>0, <1>u DEF CommitPhases, Collected, PutsUpTo
  <1>1. ASSUME NEW a \in Accounts, UpdateFirst(a) PROVE CommitPhases'
    <2>1. exec.at \in Early /\ exec'.at \in Early /\ main' = main
      BY <1>1 DEF UpdateFirst, Early
    <2>2. \E t \in MainTask : SubmitToMain(t) /\ t.do \in {"put", "delete"}
      BY <1>1, TaskFacts DEF UpdateFirst
    <2> QED
      BY <1>0, <2>1, <2>2, EarlyPhase
  <1>2. ASSUME NEW a \in Accounts, Delete(a) PROVE CommitPhases'
    <2>1. exec.at \in Early /\ exec'.at \in Early /\ main' = main
      BY <1>2 DEF Delete, Early
    <2>2. \E t \in MainTask : SubmitToMain(t) /\ t.do \in {"put", "delete"}
      BY <1>2, TaskFacts DEF Delete
    <2> QED
      BY <1>0, <2>1, <2>2, EarlyPhase
  <1>3. ASSUME NEW a \in Accounts, CommitMutation(a) PROVE CommitPhases'
    <2>1. exec.at \in Early /\ exec'.at \in Early /\ main' = main /\ tasks' = tasks
      BY <1>3 DEF CommitMutation, SubmitToGroup, Early
    <2> QED
      BY <1>0, <2>1, EarlyPhase
  <1>4. ASSUME NEW g \in Groups, Update(g) PROVE CommitPhases'
    <2>1. exec.at \in Early /\ exec'.at \in Early /\ main' = main /\ tasks' = tasks
      BY <1>4 DEF Update, SubmitToGroup, Early
    <2> QED
      BY <1>0, <2>1, EarlyPhase
  <1>5. ASSUME Send \/ BeginCommit PROVE CommitPhases'
    <2>1. exec.at \in Early /\ exec'.at \in Early /\ main' = main /\ tasks' = tasks
      BY <1>t, <1>5 DEF Send, BeginCommit, Early
    <2> QED
      BY <1>0, <2>1, EarlyPhase
  <1>6. ASSUME CommitMain \/ JoinMain \/ JoinAndClose \/ Close PROVE CommitPhases'
    BY <1>0, <1>6, CommitMainPhase, JoinMainPhase, ClosePhase
  <1>7. ASSUME MainReceive PROVE CommitPhases'
    BY <1>7, ReceivePhase
  <1>8. ASSUME NEW g \in Groups, EncodeForTrie(g) PROVE CommitPhases'
    BY <1>8, EncodeForTriePhase
  <1>9. ASSUME Joined PROVE CommitPhases'
    <2>1. main.at = "joined" /\ main.grp \in main.left /\ enc[main.grp] = updates[main.grp]
          /\ main.grp \in Groups
      BY <1>0, <1>9 DEF Joined, CommitPhases, Types, MainTypes
    <2>2. Encode(main.grp) /\ UNCHANGED <<tasks, mutation, updates, exec, enc>>
      BY <1>9 DEF Joined
    <2> QED
      BY <1>0, <2>1, <2>2, EncodePhase
  <1>10. ASSUME NothingToEncode PROVE CommitPhases'
    <2>1. /\ main.at = "encode" /\ main.left = {} /\ main'.at = "idle" /\ main'.left = {}
          /\ UNCHANGED <<tasks, root, mutation, updates, exec, enc>>
      BY <1>0, <1>10 DEF NothingToEncode, Types, MainTypes
    <2>2. Collected => Collected'
      BY <2>1 DEF Collected
    <2>3. /\ \/ exec.at = "unlock" /\ tasks = <<>> /\ Collected
             \/ exec.at = "wait" /\ Len(tasks) = 1 /\ tasks[1].do = "unlock" /\ Collected
      BY <1>0, <1>t, <2>1 DEF CommitPhases, Late
    <2> QED
      BY <2>1, <2>2, <2>3 DEF CommitPhases, Early
  <1>11. ASSUME NEW w \in Workers, Works(w) PROVE CommitPhases'
    <2>1. CASE Receive(w) \/ ExecutePending(w)
      BY <1>u, <2>1 DEF Receive, ExecutePending
    <2>2. CASE RunTask(w)
      BY <2>2, RunPhase
    <2> QED
      BY <1>11, <2>1, <2>2 DEF Works
  <1>12. ASSUME Done PROVE CommitPhases'
    BY <1>u, <1>12 DEF Done, vars
  <1> QED
    BY <1>1, <1>2, <1>3, <1>4, <1>5, <1>6, <1>7, <1>8, <1>9, <1>10, <1>11, <1>12
    DEF Next, Executes, MainWorks

\* The updates of a block stay within its bound.
LEMMA BudgetStep ==
    ASSUME IInv, Next
    PROVE  Budget'
  <1> USE DEF mutationVars
  <1>0. Types /\ Budget /\ CommitPhases
    BY DEF IInv
  <1>t. exec \in [at : Early \cup Late, grp : Groups \cup {NoGroup}] /\ updates \in [Groups -> Nat]
    BY <1>0 DEF Types, ExecTypes
  <1>u. ASSUME updates' = updates, exec'.at # "update" \/ exec' = exec PROVE Budget'
    BY <1>0, <1>u DEF Budget
  <1>1. ASSUME NEW a \in Accounts, UpdateFirst(a) PROVE Budget'
    BY <1>0, <1>1 DEF UpdateFirst, InBudget, Budget
  <1>2. ASSUME NEW g \in Groups, Update(g) PROVE Budget'
    <2>1. SumFunctionOnSet(updates, Groups) < MaxUpdates
      BY <1>0, <1>2 DEF Update, InBudget, Budget
    <2>2. /\ updates' = [updates EXCEPT ![g] = updates[g] + 1] /\ exec'.at # "update"
          /\ updates[g] \in Nat
      BY <1>t, <1>2 DEF Update, SubmitToGroup
    <2>3. /\ \A h \in Groups : updates[h] \in Int /\ updates'[h] \in Int
          /\ \A h \in Groups \ {g} : updates'[h] = updates[h]
          /\ updates'[g] = updates[g] + 1
      BY <1>t, <2>2
    <2>4. SumFunctionOnSet(updates', Groups)
            = SumFunctionOnSet(updates, Groups) + updates'[g] - updates[g]
      BY <2>3, GroupFacts, SumChange
    <2>5. SumFunctionOnSet(updates, Groups) \in Nat
      BY <1>t, GroupFacts, SumNat
    <2>6. SumFunctionOnSet(updates', Groups) = SumFunctionOnSet(updates, Groups) + 1
      BY <2>2, <2>3, <2>4, <2>5
    <2> QED
      BY <2>1, <2>2, <2>5, <2>6, GroupFacts DEF Budget
  <1>3. ASSUME NEW a \in Accounts, Delete(a) \/ CommitMutation(a) PROVE Budget'
    BY <1>u, <1>3 DEF Delete, CommitMutation, SubmitToGroup
  <1>4. ASSUME Send \/ BeginCommit \/ CommitMain \/ JoinMain \/ JoinAndClose \/ Close PROVE Budget'
    BY <1>t, <1>u, <1>4 DEF Send, BeginCommit, CommitMain, JoinMain, JoinAndClose, Close
  <1>5. ASSUME MainReceive PROVE Budget'
    BY <1>t, <1>u, <1>5 DEF MainReceive
  <1>6. ASSUME NEW g \in Groups, EncodeForTrie(g) PROVE Budget'
    BY <1>u, <1>6 DEF EncodeForTrie
  <1>7. ASSUME Joined \/ NothingToEncode PROVE Budget'
    BY <1>u, <1>7 DEF Joined, NothingToEncode
  <1>8. ASSUME NEW w \in Workers, Works(w) PROVE Budget'
    BY <1>u, <1>8 DEF Works, Receive, ExecutePending, RunTask
  <1>9. ASSUME Done PROVE Budget'
    BY <1>u, <1>9 DEF Done, vars
  <1> QED
    BY <1>1, <1>2, <1>3, <1>4, <1>5, <1>6, <1>7, <1>8, <1>9 DEF Next, Executes, MainWorks

\* Where the groups are, and the order of their tasks, stay settled in every step.
LEMMA PlacedStep ==
    ASSUME IInv, Next
    PROVE  Placed'
  <1> USE DEF groupVars, threadVars
  <1>0. Types /\ Placed /\ CommitPhases
    BY DEF IInv
  <1>t. exec \in [at : Early \cup Late, grp : Groups \cup {NoGroup}]
    BY <1>0 DEF Types, ExecTypes
  <1>1. ASSUME NEW a \in Accounts, UpdateFirst(a) \/ Delete(a) PROVE Placed'
    BY <1>0, <1>1, PlacedFrame DEF UpdateFirst, Delete
  <1>2. ASSUME NEW a \in Accounts, CommitMutation(a) PROVE Placed'
    <2>1. mutation[a] \in Groups /\ exec.at # "send" /\ UNCHANGED <<worker, pending_groups>>
      BY <1>0, <1>2 DEF CommitMutation, Types, ExecTypes
    <2>2. SubmitToGroup(mutation[a], CommitTask, "commit") /\ "commit" \in Early \ {"send"}
      BY <1>2 DEF CommitMutation, CommitTask, Early
    <2> QED
      BY <1>0, <2>1, <2>2, TaskFacts, PlacedSubmit
  <1>3. ASSUME NEW g \in Groups, Update(g) PROVE Placed'
    <2>1. exec.at # "send" /\ UNCHANGED <<worker, pending_groups>>
          /\ updates[g] \in Nat /\ updates'[g] = updates[g] + 1
      BY <1>0, <1>3 DEF Update, Types, ExecTypes
    <2>2. SubmitToGroup(g, UpdateTask(updates[g] + 1), "execute") /\ "execute" \in Early \ {"send"}
      BY <1>3, <2>1 DEF Update, UpdateTask, Early
    <2>3. UpdateTask(updates[g] + 1) \in Task
      BY <2>1, TaskFacts
    <2> QED
      BY <1>0, <2>1, <2>2, <2>3, PlacedSubmit
  <1>4. ASSUME BeginCommit \/ CommitMain \/ JoinMain \/ JoinAndClose \/ Close PROVE Placed'
    <2>1. UNCHANGED <<groupVars, worker, pending_groups>> /\ exec.at # "send" /\ exec'.at # "send"
      BY <1>t, <1>4 DEF BeginCommit, CommitMain, JoinMain, JoinAndClose, Close
    <2> QED
      BY <1>0, <2>1, PlacedFrame
  <1>5. ASSUME Send PROVE Placed'
    BY <1>0, <1>5, PlacedSend
  <1>6. ASSUME MainReceive PROVE Placed'
    <2>1. UNCHANGED <<groupVars, worker, pending_groups>>
      BY <1>6 DEF MainReceive
    <2>2. exec' = exec \/ (exec.at # "send" /\ exec'.at # "send")
      BY <1>0, <1>t, <1>6, MainMovesExecutor DEF Late
    <2> QED
      BY <1>0, <2>1, <2>2, PlacedFrame
  <1>7. ASSUME NEW g \in Groups, EncodeForTrie(g) PROVE Placed'
    <2>1. CASE WasEmpty(g)
      BY <1>0, <1>7, <2>1, PlacedFrame DEF EncodeForTrie
    <2>2. CASE ~WasEmpty(g)
      BY <1>0, <1>7, <2>2, PlacedJoin
    <2> QED
      BY <2>1, <2>2
  <1>8. ASSUME Joined \/ NothingToEncode PROVE Placed'
    BY <1>0, <1>8, PlacedFrame DEF Joined, NothingToEncode
  <1>9. ASSUME NEW w \in Workers, Works(w) PROVE Placed'
    BY <1>0, <1>9, PlacedReceive, PlacedSwap, PlacedRun DEF Works
  <1>10. ASSUME Done PROVE Placed'
    BY <1>0, <1>10, PlacedFrame DEF Done, vars
  <1> QED
    BY <1>1, <1>2, <1>3, <1>4, <1>5, <1>6, <1>7, <1>8, <1>9, <1>10 DEF Next, Executes, MainWorks

\* The tasks of every group stay in order.
LEMMA InOrderStep ==
    ASSUME IInv, Next
    PROVE  InOrder'
  <1> USE DEF groupVars, threadVars, mutationVars, mainVars
  <1>0. Types /\ InOrder /\ CommitPhases /\ Numbered /\ MutationsPending
    BY DEF IInv
  <1>t. mutation \in [Accounts -> Groups \cup {NoGroup}]
    BY <1>0 DEF Types, ExecTypes
  <1>n. worker' = worker /\ tasks_in_execution' = tasks_in_execution =>
          \A g \in Groups, i \in Nat : Next_(g, i)' => Next_(g, i)
    BY DEF Next_, Runs
  <1>u. ASSUME UNCHANGED <<groupVars, worker, updates, acc, enc, pending, mutation>>,
               main.at = "join" => main'.at = "join" /\ main'.grp = main.grp
        PROVE  InOrder'
    BY <1>0, <1>n, <1>u, InOrderFrame
  <1>1. ASSUME NEW a \in Accounts, UpdateFirst(a) PROVE InOrder'
    <2>1. /\ MutationOf(a) \in Groups /\ mutation[a] = NoGroup
          /\ mutation' = [mutation EXCEPT ![a] = MutationOf(a)]
          /\ pending' = pending \cup {MutationOf(a)}
          /\ UNCHANGED <<pending_tasks, tasks_in_execution, updates, acc, enc, worker, main>>
      BY <1>1 DEF UpdateFirst
    <2>2. updates[MutationOf(a)] = 0
      BY <1>0, <2>1, FreshMutation
    <2>3. \A g \in Groups : g \in pending' => g \in pending \/ updates[g] = 0
      BY <2>1, <2>2
    <2>4. \A g \in Groups : mutation'[g[1]] = g /\ g \notin pending' =>
                                mutation[g[1]] = g /\ g \notin pending
      BY <1>t, <2>1, GroupFacts
    <2>5. \A g \in Groups, i \in Nat : Next_(g, i)' => Next_(g, i)
      BY <1>n, <2>1
    <2>6. main.at = "join" => main'.at = "join" /\ main'.grp = main.grp
      BY <2>1
    <2> QED
      BY <1>0, <2>1, <2>3, <2>4, <2>5, <2>6, InOrderFrame
  <1>2. ASSUME NEW a \in Accounts, Delete(a) PROVE InOrder'
    <2>1. /\ mutation' = [mutation EXCEPT ![a] = NoGroup]
          /\ UNCHANGED <<pending_tasks, tasks_in_execution, updates, acc, enc, worker, main, pending>>
      BY <1>2 DEF Delete
    <2>2. \A g \in Groups : g \in pending' => g \in pending \/ updates[g] = 0
      BY <2>1
    <2>3. \A g \in Groups : mutation'[g[1]] = g /\ g \notin pending' =>
                                mutation[g[1]] = g /\ g \notin pending
      BY <1>t, <2>1, GroupFacts
    <2>4. \A g \in Groups, i \in Nat : Next_(g, i)' => Next_(g, i)
      BY <1>n, <2>1
    <2>5. main.at = "join" => main'.at = "join" /\ main'.grp = main.grp
      BY <2>1
    <2> QED
      BY <1>0, <2>1, <2>2, <2>3, <2>4, <2>5, InOrderFrame
  <1>3. ASSUME NEW a \in Accounts, CommitMutation(a) PROVE InOrder'
    BY <1>3, InOrderCommit
  <1>4. ASSUME NEW g \in Groups, Update(g) PROVE InOrder'
    BY <1>4, InOrderUpdate
  <1>5. ASSUME Send \/ BeginCommit \/ CommitMain \/ JoinMain \/ JoinAndClose \/ Close PROVE InOrder'
    BY <1>u, <1>5 DEF Send, BeginCommit, CommitMain, JoinMain, JoinAndClose, Close
  <1>6. ASSUME MainReceive PROVE InOrder'
    <2>1. UNCHANGED <<groupVars, worker, updates, acc, enc, pending, mutation>> /\ main.at # "join"
      BY <1>6 DEF MainReceive
    <2> QED
      BY <1>u, <2>1
  <1>7. ASSUME NEW g \in Groups, EncodeForTrie(g) PROVE InOrder'
    <2>1. CASE WasEmpty(g)
      <3>1. UNCHANGED <<groupVars, worker, updates, acc, enc, pending, mutation>> /\ main.at # "join"
        BY <1>7, <2>1 DEF EncodeForTrie
      <3> QED
        BY <1>u, <3>1
    <2>2. CASE ~WasEmpty(g)
      BY <1>7, <2>2, InOrderJoin
    <2> QED
      BY <2>1, <2>2
  <1>8. ASSUME Joined \/ NothingToEncode PROVE InOrder'
    <2>1. UNCHANGED <<groupVars, worker, updates, acc, enc, pending, mutation>> /\ main.at # "join"
      BY <1>8 DEF Joined, NothingToEncode
    <2> QED
      BY <1>u, <2>1
  <1>9. ASSUME NEW w \in Workers, Works(w) PROVE InOrder'
    BY <1>9, InOrderReceive, InOrderSwap, InOrderRun DEF Works
  <1>10. ASSUME Done PROVE InOrder'
    BY <1>u, <1>10 DEF Done, vars
  <1> QED
    BY <1>1, <1>2, <1>3, <1>4, <1>5, <1>6, <1>7, <1>8, <1>9, <1>10 DEF Next, Executes, MainWorks

\* Every step keeps the invariant.
LEMMA NextIInv == IInv /\ [Next]_vars => IInv'
  <1> SUFFICES ASSUME IInv, [Next]_vars PROVE IInv'
    OBVIOUS
  <1>1. CASE Next
    <2>1. Types'
      <3>1. CASE Done
        BY <3>1 DEF Done, vars, groupVars, threadVars, mainVars, mutationVars,
                    IInv, Types, GroupTypes, MainTypes, ExecTypes
      <3> QED
        BY <1>1, <3>1, ExecutesTypes, MainTypesStep, WorksTypes DEF Next
    <2> QED
      BY <1>1, <2>1, PlacedStep, InOrderStep, MutationsPendingStep, NumberedStep, BudgetStep,
         TrieFollowsStep, CommitPhasesStep DEF IInv
  <1>2. CASE UNCHANGED vars
    BY <1>2 DEF vars, groupVars, threadVars, mainVars, mutationVars, IInv, Types, GroupTypes,
        MainTypes, ExecTypes, Placed, InChannel, Held, Sending, WasEmpty, InOrder, Next_, Runs,
        Ordered, Settling, Remaining, Executing, Upcoming, MutationsPending, ExecutingBlock,
        Numbered, Budget, TrieFollows, CommitPhases, PutsUpTo, Collected
  <1> QED
    BY <1>1, <1>2

\* The threads keep the invariant in every run of a block, whatever the capacities and the
\* number of goroutines.
THEOREM ThreadsInvariant == Spec => []IInv
  <1>1. Init => IInv
    BY InitIInv
  <1>2. IInv /\ [Next]_vars => IInv'
    BY NextIInv
  <1> QED
    BY <1>1, <1>2, PTL DEF Spec
-----------------------------------------------------------------------------
(* What follows.                                                           *)

\* The channels, the groups and the goroutines have their types and capacities.
THEOREM ThreadsTyped == Spec => []TypeOK
  <1>1. IInv => TypeOK
    <2> SUFFICES ASSUME IInv PROVE TypeOK
      OBVIOUS
    <2>0. Types /\ Placed /\ Budget
      BY DEF IInv
    <2>1. ASSUME NEW g \in Groups
          PROVE  acc[g] \in 0..updates[g] /\ enc[g] \in 0..acc[g] /\ updates[g] \in 0..MaxUpdates
      <3>1. /\ acc[g] \in Nat /\ enc[g] \in Nat /\ updates[g] \in Nat
            /\ enc[g] <= acc[g] /\ acc[g] <= updates[g] /\ \A h \in Groups : updates[h] \in Nat
        BY <2>0 DEF Types, ExecTypes
      <3>2. updates[g] <= SumFunctionOnSet(updates, Groups)
        BY <3>1, GroupFacts, SumBounds
      <3>3. SumFunctionOnSet(updates, Groups) \in Nat
        BY <3>1, GroupFacts, SumNat
      <3>4. SumFunctionOnSet(updates, Groups) <= MaxUpdates
        BY <2>0 DEF Budget
      <3> QED
        BY <3>1, <3>2, <3>3, <3>4, GroupFacts
    <2>2. Len(pending_groups) <= QueueCap /\ Range(pending_groups) \subseteq Groups
      BY <2>0 DEF Types, GroupTypes, Range
    <2>3. \A w \in Workers :
            /\ worker[w].at \in {"idle", "lock", "run", "ended"}
            /\ worker[w].at = "run" => worker[w].next \in 1..Len(tasks_in_execution[worker[w].grp])
      BY <2>0 DEF Types, GroupTypes, WorkerState, Placed
    <2>4. Len(tasks) <= MainCap /\ main.left \subseteq Groups
          /\ Range(trie) \subseteq Groups \cup {NoGroup}
      BY <2>0 DEF Types, MainTypes, Range
    <2>5. pending \subseteq Groups /\ Range(mutation) \subseteq Groups \cup {NoGroup}
      BY <2>0 DEF Types, ExecTypes, Range
    <2> QED
      BY <2>1, <2>2, <2>3, <2>4, <2>5 DEF TypeOK
  <1> QED
    BY <1>1, ThreadsInvariant, PTL

\* Submit and execute_pending agree under the lock: a group with tasks is with exactly one
\* goroutine or on its way to one, a group without tasks with none.
THEOREM GroupsHaveOneHolder == Spec => []OneHolder
  <1>1. IInv => OneHolder
    <2> SUFFICES ASSUME IInv, NEW g \in Groups
                 PROVE  Holders(g) = IF WasEmpty(g) THEN 0 ELSE 1
      BY DEF OneHolder
    <2> DEFINE C == {i \in 1..Len(pending_groups) : pending_groups[i] = g}
               W == {w \in Workers : worker[w].grp = g}
               S == IF exec.at = "send" /\ exec.grp = g THEN 1 ELSE 0
    <2>0. Placed /\ g # NoGroup
      BY GroupFacts DEF IInv
    <2>1. Cardinality(C) = IF InChannel(g) THEN 1 ELSE 0
      <3>1. CASE InChannel(g)
        <4>1. PICK i \in 1..Len(pending_groups) : pending_groups[i] = g
          BY <3>1 DEF InChannel
        <4>2. C = {i}
          BY <2>0, <4>1 DEF Placed
        <4> QED
          BY <3>1, <4>2, FS_Singleton
      <3>2. CASE ~InChannel(g)
        <4>1. C = {}
          BY <3>2 DEF InChannel
        <4> QED
          BY <3>2, <4>1, FS_EmptySet
      <3> QED
        BY <3>1, <3>2
    <2>2. Cardinality(W) = IF Held(g) THEN 1 ELSE 0
      <3>1. CASE Held(g)
        <4>1. PICK w \in Workers : worker[w].grp = g
          BY <3>1 DEF Held
        <4>2. W = {w}
          BY <2>0, <4>1 DEF Placed
        <4> QED
          BY <3>1, <4>2, FS_Singleton
      <3>2. CASE ~Held(g)
        <4>1. W = {}
          BY <3>2 DEF Held
        <4> QED
          BY <3>2, <4>1, FS_EmptySet
      <3> QED
        BY <3>1, <3>2
    <2>3. S = IF Sending(g) THEN 1 ELSE 0
      BY DEF Sending
    <2>4. Holders(g) = Cardinality(C) + Cardinality(W) + S
      BY DEF Holders
    <2>5. /\ ~(InChannel(g) /\ Held(g)) /\ ~(InChannel(g) /\ Sending(g)) /\ ~(Held(g) /\ Sending(g))
          /\ WasEmpty(g) <=> ~(InChannel(g) \/ Held(g) \/ Sending(g))
      BY <2>0 DEF Placed
    <2> HIDE DEF C, W, S
    <2> QED
      BY <2>1, <2>2, <2>3, <2>4, <2>5
  <1> QED
    BY <1>1, ThreadsInvariant, PTL

\* When TrieSink.Commit returns, the main trie has the last mutation of each account that was
\* not deleted, and its root was computed from all updates of that mutation.
THEOREM CommitIsComplete == Spec => []RootComplete
  <1>1. IInv => RootComplete
    <2> SUFFICES ASSUME IInv, exec.at \in {"joined", "closing", "closed"}, NEW a \in Accounts
                 PROVE  /\ trie[a] = mutation[a]
                        /\ mutation[a] # NoGroup => root[a] = updates[mutation[a]]
      BY DEF RootComplete
    <2>1. CommitPhases /\ TrieFollows
      BY DEF IInv
    <2>2. Collected /\ main.at \in {"idle", "ended"} /\ main.left = {}
      BY <2>1 DEF CommitPhases
    <2>3. \A i \in 1..Len(tasks) : ~Concerns(tasks[i], a)
      <3>1. tasks = <<>> \/ (Len(tasks) = 1 /\ tasks[1].do = "close")
        BY <2>1 DEF CommitPhases
      <3>2. CASE tasks = <<>>
        BY <3>2
      <3>3. CASE Len(tasks) = 1 /\ tasks[1].do = "close"
        BY <3>3 DEF Concerns
      <3> QED
        BY <3>1, <3>2, <3>3
    <2> QED
      BY <2>1, <2>2, <2>3 DEF Collected, TrieFollows
  <1> QED
    BY <1>1, ThreadsInvariant, PTL

\* The tasks of a mutation run one by one in the order they were submitted: an account only
\* goes on to its next update, whichever goroutines run the tasks.
THEOREM TasksRunInOrder == Spec => TasksInOrder
  <1>1. IInv /\ [Next]_vars => [\A g \in Groups : acc'[g] \in {acc[g], acc[g] + 1}]_vars
    <2> SUFFICES ASSUME IInv, Next, NEW h \in Groups
                 PROVE  acc'[h] \in {acc[h], acc[h] + 1}
      OBVIOUS
    <2>1. ASSUME NEW w \in Workers, RunTask(w) PROVE acc'[h] \in {acc[h], acc[h] + 1}
      <3>g. PICK g, i : g = worker[w].grp /\ i = worker[w].next
        OBVIOUS
      <3>t. PICK task : task = tasks_in_execution[g][i]
        OBVIOUS
      <3>1. /\ g \in Groups /\ task \in Task
            /\ acc[g] < updates[g] => task = UpdateTask(acc[g] + 1)
            /\ acc[g] = updates[g] => task \in {CommitTask, UnlockTask}
            /\ acc'[g] = IF task.do = "update" THEN task.n ELSE acc[g]
            /\ \A x \in Groups : x # g => acc'[x] = acc[x]
        BY <2>1, <3>g, <3>t, RunFacts
      <3>2. acc[g] \in Nat /\ updates[g] \in Nat /\ acc[g] <= updates[g]
        BY <3>1 DEF IInv, Types, ExecTypes
      <3>3. task.do = "update" => task.n = acc[g] + 1
        BY <3>1, <3>2, TaskKinds
      <3> QED
        BY <3>1, <3>3
    <2>2. (\A w \in Workers : ~RunTask(w)) => acc' = acc
      BY DEF Next, Executes, MainWorks, Works, UpdateFirst, Delete, CommitMutation, Update, Send,
             BeginCommit, CommitMain, JoinMain, JoinAndClose, Close, MainReceive, Joined,
             NothingToEncode, EncodeForTrie, Receive, ExecutePending, Done, vars
    <2> QED
      BY <2>1, <2>2
  <1> QED
    BY <1>1, ThreadsInvariant, PTL DEF Spec, TasksInOrder
=============================================================================
