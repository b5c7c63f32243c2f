------------------------------- MODULE TaskGroup -------------------------------
(***************************************************************************)
(* The threads that build the tries of a block while it is executed        *)
(* (trie_sink.go, util/goroutines): the sequential task groups, one for    *)
(* each account mutation, run by a fixed number of goroutines; the         *)
(* goroutine of the main trie; and the executor of the block, which        *)
(* submits to both, commits, joins and closes them.                        *)
(***************************************************************************)
EXTENDS Naturals, Sequences, FiniteSets, FiniteSetsExt, SequencesExt

CONSTANTS
    Accounts,     \* accounts the block changes
    Workers,      \* goroutines of the SequentialTaskGroupExecutor
    QueueCap,     \* capacity of pending_groups (1024)
    MainCap,      \* capacity of the main trie's channel (1024)
    MaxMutations, \* bound: mutations of one account; a second one follows a deletion
    MaxUpdates    \* bound: updates of the block

ASSUME TaskGroupAssumption ==
    /\ QueueCap \in Nat \ {0} /\ MainCap \in Nat \ {0}
    /\ MaxUpdates \in Nat /\ MaxMutations \in Nat
    /\ IsFiniteSet(Accounts) /\ IsFiniteSet(Workers) /\ Workers # {}

\* A mutation has its own group: the n-th mutation of an account in this block.
Groups == Accounts \X (1..MaxMutations)

NoGroup == <<>>

VARIABLES
    pending_tasks, tasks_in_execution,   \* of each group
    pending_groups,                      \* the channel of groups
    closed,       \* pending_groups is closed
    worker,       \* worker[w]: where the goroutine is, its group, its next task
    tasks,        \* the channel of the main trie's goroutine
    main,         \* where that goroutine is, the values it has to encode, the one it is at
    trie,         \* trie[a]: the mutation the main trie has for an account
    root,         \* root[a]: what the commit of the main trie read of it
    exec,         \* where the executor is and the group it works on
    mutation,     \* mutation[a]: the mutation of an account, if it has one
    pending,      \* mutations in the main trie and not committed
    updates,      \* how often each mutation was updated
    acc, enc      \* the account of each mutation, and its encoding

groupVars == <<pending_tasks, tasks_in_execution>>
threadVars == <<worker, pending_groups, closed>>
mainVars == <<tasks, main, trie, root>>
mutationVars == <<mutation, pending, updates>>
vars == <<groupVars, threadVars, mainVars, mutationVars, exec, acc, enc>>

Idle == [at |-> "idle", grp |-> NoGroup, next |-> 0]

Init ==
    /\ pending_tasks = [g \in Groups |-> <<>>]
    /\ tasks_in_execution = [g \in Groups |-> <<>>]
    /\ pending_groups = <<>> /\ closed = FALSE
    /\ worker = [w \in Workers |-> Idle]
    /\ tasks = <<>>
    /\ main = [at |-> "idle", left |-> {}, grp |-> NoGroup]
    /\ trie = [a \in Accounts |-> NoGroup] /\ root = [a \in Accounts |-> 0]
    /\ exec = [at |-> "execute", grp |-> NoGroup]
    /\ mutation = [a \in Accounts |-> NoGroup] /\ pending = {}
    /\ updates = [g \in Groups |-> 0]
    /\ acc = [g \in Groups |-> 0] /\ enc = [g \in Groups |-> 0]
-----------------------------------------------------------------------------
(* SequentialTaskGroup.  Submit holds the lock for the first of its steps  *)
(* and sends the group afterwards.                                         *)

\* Mutant: tasks being executed are not asked for.
WasEmptyPending(g) == pending_tasks[g] = <<>>

WasEmpty(g) == pending_tasks[g] = <<>> /\ tasks_in_execution[g] = <<>>

\* Mutant: the new task goes before the ones that wait.
SubmitToGroupFirst(g, task, then) ==
    /\ pending_tasks' = [pending_tasks EXCEPT ![g] = <<task>> \o @]
    /\ exec' = [at |-> IF WasEmpty(g) THEN "send" ELSE then, grp |-> g]
    /\ UNCHANGED tasks_in_execution

\* Submit, under the lock; a group that was empty is sent to the goroutines next.
SubmitToGroup(g, task, then) ==
    /\ pending_tasks' = [pending_tasks EXCEPT ![g] = Append(@, task)]
    /\ exec' = [at |-> IF WasEmpty(g) THEN "send" ELSE then, grp |-> g]
    /\ UNCHANGED tasks_in_execution

\* The send blocks while the channel is full.  The executor then goes on with the block,
\* or with the commit of the mutations, of which this one is no longer pending.
Send ==
    /\ exec.at = "send" /\ Len(pending_groups) < QueueCap
    /\ pending_groups' = Append(pending_groups, exec.grp)
    /\ exec' = [exec EXCEPT !.at =
            IF exec.grp \in pending THEN "execute" ELSE "commit"]
    /\ UNCHANGED <<groupVars, worker, closed, mainVars, mutationVars, acc, enc>>

\* A goroutine receives a group; when the channel is closed and empty it ends.
Receive(w) ==
    /\ worker[w].at = "idle"
    /\ IF pending_groups # <<>>
       THEN /\ worker' = [worker EXCEPT ![w] = [at |-> "lock", grp |-> Head(pending_groups), next |-> 0]]
            /\ pending_groups' = Tail(pending_groups)
       ELSE /\ closed
            /\ worker' = [worker EXCEPT ![w].at = "ended"]
            /\ UNCHANGED pending_groups
    /\ UNCHANGED <<groupVars, closed, mainVars, mutationVars, exec, acc, enc>>

\* Mutant: the tasks that were executed stay in place when the goroutine leaves.
SwapKeeping(w) == LET g == worker[w].grp IN
    IF pending_tasks[g] = <<>>
    THEN worker' = [worker EXCEPT ![w] = Idle] /\ UNCHANGED groupVars
    ELSE /\ tasks_in_execution' = [tasks_in_execution EXCEPT ![g] = pending_tasks[g]]
         /\ pending_tasks' = [pending_tasks EXCEPT ![g] = <<>>]
         /\ worker' = [worker EXCEPT ![w].at = "run", ![w].next = 1]

\* execute_pending under the lock: leave, or take all pending tasks.
Swap(w) == LET g == worker[w].grp IN
    IF pending_tasks[g] = <<>>
    THEN /\ tasks_in_execution' = [tasks_in_execution EXCEPT ![g] = <<>>]
         /\ worker' = [worker EXCEPT ![w] = Idle]
         /\ UNCHANGED pending_tasks
    ELSE /\ tasks_in_execution' = [tasks_in_execution EXCEPT ![g] = pending_tasks[g]]
         /\ pending_tasks' = [pending_tasks EXCEPT ![g] = <<>>]
         /\ worker' = [worker EXCEPT ![w].at = "run", ![w].next = 1]

ExecutePending(w) ==
    /\ worker[w].at = "lock"
    /\ Swap(w)
    /\ UNCHANGED <<pending_groups, closed, mainVars, mutationVars, exec, acc, enc>>

\* A task of an account mutation: an update sets the account, the commit encodes it,
\* an unlock ends a Join.
RunTask(w) ==
    LET g == worker[w].grp
        i == worker[w].next
        task == tasks_in_execution[g][i]
    IN  /\ worker[w].at = "run"
        /\ acc' = IF task.do = "update" THEN [acc EXCEPT ![g] = task.n] ELSE acc
        /\ enc' = IF task.do = "commit" THEN [enc EXCEPT ![g] = acc[g]] ELSE enc
        /\ main' = IF task.do = "unlock" THEN [main EXCEPT !.at = "joined"] ELSE main
        /\ worker' = [worker EXCEPT ![w] =
                IF i < Len(tasks_in_execution[g]) THEN [@ EXCEPT !.next = i + 1]
                ELSE [@ EXCEPT !.at = "lock"]]
        /\ UNCHANGED <<groupVars, pending_groups, closed, tasks, trie, root, mutationVars, exec>>
-----------------------------------------------------------------------------
(* The goroutine of the main trie.  A send to it blocks while its channel  *)
(* is full.                                                                *)

SubmitToMain(task) == Len(tasks) < MainCap /\ tasks' = Append(tasks, task)

MainReceive ==
    /\ main.at = "idle" /\ tasks # <<>>
    /\ LET task == Head(tasks)
       IN  /\ trie' = CASE task.do = "put"    -> [trie EXCEPT ![task.grp[1]] = task.grp]
                        [] task.do = "delete" -> [trie EXCEPT ![task.grp[1]] = NoGroup]
                        [] OTHER              -> trie
           /\ main' = CASE task.do = "commit" ->
                             [main EXCEPT !.at = "encode", !.left = Range(trie) \ {NoGroup}]
                        [] task.do = "close"  -> [main EXCEPT !.at = "ended"]
                        [] OTHER              -> main
           /\ exec' = IF task.do = "unlock" THEN [exec EXCEPT !.at = "joined"] ELSE exec
    /\ tasks' = Tail(tasks)
    /\ UNCHANGED <<groupVars, threadVars, root, mutationVars, acc, enc>>

\* The value is encoded; with the last one the commit of the trie is done.
Encode(g) ==
    /\ root' = [root EXCEPT ![g[1]] = enc[g]]
    /\ main' = [at |-> IF main.left = {g} THEN "idle" ELSE "encode",
                left |-> main.left \ {g}, grp |-> NoGroup]

\* Mutant: the encoding is read without waiting for the group.
EncodeForTrieUnjoined(g) ==
    /\ main.at = "encode" /\ g \in main.left
    /\ Encode(g)
    /\ UNCHANGED <<groupVars, threadVars, tasks, trie, mutationVars, exec, acc, enc>>

\* The commit of the trie calls EncodeForTrie of each value, which joins the group: at
\* once when it is empty, else by a task that unlocks the mutex Join waits for.
EncodeForTrie(g) ==
    /\ main.at = "encode" /\ g \in main.left
    /\ IF WasEmpty(g)
       THEN Encode(g) /\ UNCHANGED groupVars
       ELSE /\ pending_tasks' = [pending_tasks EXCEPT ![g] = Append(@, [do |-> "unlock"])]
            /\ main' = [main EXCEPT !.at = "join", !.grp = g]
            /\ UNCHANGED <<tasks_in_execution, root>>
    /\ UNCHANGED <<threadVars, tasks, trie, mutationVars, exec, acc, enc>>

Joined ==
    /\ main.at = "joined"
    /\ Encode(main.grp)
    /\ UNCHANGED <<groupVars, threadVars, tasks, trie, mutationVars, exec, acc, enc>>

\* The commit of a main trie without values to encode.
NothingToEncode ==
    /\ main.at = "encode" /\ main.left = {}
    /\ main' = [main EXCEPT !.at = "idle"]
    /\ UNCHANGED <<groupVars, threadVars, tasks, trie, root, mutationVars, exec, acc, enc>>
-----------------------------------------------------------------------------
(* The executor: updates and deletions of accounts in any order, then the  *)
(* commit of the mutations, of the main trie, and the end.                 *)

InBudget == SumFunctionOnSet(updates, Groups) < MaxUpdates

\* The mutation an update of the account goes to: its own, or a new one.
MutationOf(a) ==
    IF mutation[a] # NoGroup THEN mutation[a]
    ELSE <<a, 1 + Cardinality({n \in 1..MaxMutations : updates[<<a, n>>] > 0})>>

\* The first Update of a mutation puts it into the main trie; pending is set.
UpdateFirst(a) ==
    /\ exec.at = "execute" /\ mutation[a] = NoGroup
    /\ InBudget /\ MutationOf(a) \in Groups
    /\ SubmitToMain([do |-> "put", grp |-> MutationOf(a)])
    /\ mutation' = [mutation EXCEPT ![a] = MutationOf(a)]
    /\ pending' = pending \cup {MutationOf(a)}
    /\ exec' = [at |-> "update", grp |-> MutationOf(a)]
    /\ UNCHANGED <<groupVars, threadVars, main, trie, root, updates, acc, enc>>

\* Every Update submits a task that sets the account.
Update(g) ==
    /\ \/ exec.at = "update" /\ exec.grp = g
       \/ exec.at = "execute" /\ mutation[g[1]] = g /\ InBudget
    /\ updates' = [updates EXCEPT ![g] = @ + 1]
    /\ SubmitToGroup(g, [do |-> "update", n |-> updates'[g]], "execute")
    /\ UNCHANGED <<threadVars, mainVars, mutation, pending, acc, enc>>

\* Delete: the mutation of the account is dropped, its group is left to itself.
Delete(a) ==
    /\ exec.at = "execute" /\ mutation[a] # NoGroup
    /\ SubmitToMain([do |-> "delete", grp |-> <<a, 0>>])
    /\ mutation' = [mutation EXCEPT ![a] = NoGroup]
    /\ UNCHANGED <<groupVars, threadVars, main, trie, root, exec, pending, updates, acc, enc>>

BeginCommit ==
    /\ exec.at = "execute"
    /\ exec' = [at |-> "commit", grp |-> NoGroup]
    /\ UNCHANGED <<groupVars, threadVars, mainVars, mutationVars, acc, enc>>

\* The Commit of a mutation: it is no longer pending, and a task encodes the account.
CommitMutation(a) ==
    /\ exec.at = "commit" /\ mutation[a] \in pending
    /\ pending' = pending \ {mutation[a]}
    /\ SubmitToGroup(mutation[a], [do |-> "commit"], "commit")
    /\ UNCHANGED <<threadVars, mainVars, mutation, updates, acc, enc>>

\* TrieSink.Commit: the commit of the main trie is submitted, then the task Join waits for.
CommitMain ==
    /\ exec.at = "commit" /\ \A a \in Accounts : mutation[a] \notin pending
    /\ SubmitToMain([do |-> "commit"])
    /\ exec' = [exec EXCEPT !.at = "unlock"]
    /\ UNCHANGED <<groupVars, threadVars, main, trie, root, mutationVars, acc, enc>>

JoinMain ==
    /\ exec.at = "unlock"
    /\ SubmitToMain([do |-> "unlock"])
    /\ exec' = [exec EXCEPT !.at = "wait"]
    /\ UNCHANGED <<groupVars, threadVars, main, trie, root, mutationVars, acc, enc>>

\* Close: the main trie's goroutine ends, then the channel of groups is closed.
JoinAndClose ==
    /\ exec.at = "joined"
    /\ SubmitToMain([do |-> "close"])
    /\ exec' = [exec EXCEPT !.at = "closing"]
    /\ UNCHANGED <<groupVars, threadVars, main, trie, root, mutationVars, acc, enc>>

Close ==
    /\ exec.at = "closing" /\ main.at = "ended"
    /\ closed' = TRUE
    /\ exec' = [exec EXCEPT !.at = "closed"]
    /\ UNCHANGED <<groupVars, worker, pending_groups, mainVars, mutationVars, acc, enc>>

Executes ==
    \/ \E a \in Accounts : UpdateFirst(a) \/ Delete(a) \/ CommitMutation(a)
    \/ \E g \in Groups : Update(g)
    \/ Send \/ BeginCommit \/ CommitMain \/ JoinMain \/ JoinAndClose \/ Close

Works(w) == Receive(w) \/ ExecutePending(w) \/ RunTask(w)

MainWorks ==
    \/ MainReceive \/ Joined \/ NothingToEncode
    \/ \E g \in Groups : EncodeForTrie(g)

\* Everything is closed and nothing is left to do.
Done ==
    /\ exec.at = "closed" /\ \A w \in Workers : worker[w].at = "ended"
    /\ UNCHANGED vars

Next == Executes \/ MainWorks \/ (\E w \in Workers : Works(w)) \/ Done

\* A goroutine that can go on is scheduled at some time; a block ends.
Fairness ==
    /\ \A w \in Workers : WF_vars(Works(w))
    /\ WF_vars(MainWorks)
    /\ WF_vars(Executes)

Spec == Init /\ [][Next]_vars /\ Fairness
-----------------------------------------------------------------------------
(* What the threads promise.                                               *)

\* Type correctness of the channels, the groups and the goroutines.
TypeOK ==
    /\ \A g \in Groups : /\ acc[g] \in 0..updates[g] /\ enc[g] \in 0..acc[g]
                         /\ updates[g] \in 0..MaxUpdates
    /\ Len(pending_groups) <= QueueCap /\ Range(pending_groups) \subseteq Groups
    /\ Len(tasks) <= MainCap
    /\ \A w \in Workers :
         /\ worker[w].at \in {"idle", "lock", "run", "ended"}
         /\ worker[w].at = "run" => worker[w].next \in 1..Len(tasks_in_execution[worker[w].grp])
    /\ pending \subseteq Groups /\ Range(mutation) \subseteq Groups \cup {NoGroup}
    /\ main.left \subseteq Groups /\ Range(trie) \subseteq Groups \cup {NoGroup}

\* Where a group is: on its way into the channel, in it, or with a goroutine.
Holders(g) ==
    Cardinality({i \in 1..Len(pending_groups) : pending_groups[i] = g})
    + Cardinality({w \in Workers : worker[w].grp = g})
    + (IF exec.at = "send" /\ exec.grp = g THEN 1 ELSE 0)

\* A group with tasks is with exactly one goroutine or on its way to one, and a group
\* without tasks with none: Submit, which decides under the lock whether to send the
\* group, and execute_pending, which decides under it whether to leave, agree.  Else two
\* goroutines would write one storage trie, or the tasks would never be run.
OneHolder == \A g \in Groups : Holders(g) = IF WasEmpty(g) THEN 0 ELSE 1

\* When TrieSink.Commit returns, the main trie has the last mutation of each account that
\* was not deleted, and its root was computed from all updates of that mutation, though
\* other goroutines applied and encoded them.
RootComplete ==
    exec.at \in {"joined", "closing", "closed"} =>
        \A a \in Accounts :
            /\ trie[a] = mutation[a]
            /\ mutation[a] # NoGroup => root[a] = updates[mutation[a]]

\* The tasks of a mutation run one by one in the order they were submitted: an account
\* never goes back to an earlier update, whichever goroutines run the tasks.
TasksInOrder == [][\A g \in Groups : acc'[g] \in {acc[g], acc[g] + 1}]_vars

\* The commit of a block and Close return, with every goroutine ended and every task run:
\* the executor waits for the main trie's goroutine, which waits for the groups, which
\* wait for room in the channel and for a goroutine.
BlockEnds ==
    <>(/\ exec.at = "closed" /\ \A w \in Workers : worker[w].at = "ended"
       /\ \A g \in Groups : WasEmpty(g))
=============================================================================
