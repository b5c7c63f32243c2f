-------------------------------- MODULE StateDb --------------------------------
(***************************************************************************)
(* The state database over RocksDB: the pending block whose writes collect *)
(* in a batch on the writer thread, the commit that writes the batch,      *)
(* readers of committed blocks with their pooled iterators, pruning, the   *)
(* views of most recent values, and stopping at any point.                 *)
(*                                                                         *)
(* Accounts have a value in the main trie, stored under key and version,   *)
(* and a storage trie with one value.  The values a block writes are named *)
(* by the block.  An account's value names the block that last wrote its   *)
(* storage: that storage root is a node of the account tries.              *)
(***************************************************************************)
EXTENDS Integers, Sequences, FiniteSets, FiniteSetsExt, SequencesExt

CONSTANTS
    Accounts,
    Readers,
    QueueSize,      \* capacity of the writer thread's queue (1024)
    PoolSize,       \* capacity of a pool of iterators
    LastBlock,      \* bound: the last block written
    MaxStops,       \* bound: how often a running process stops
    Absent          \* no entry under a key

\* Types.BlockNumberNIL, the block number before genesis: the largest uint64, from
\* which the next number wraps to 0.
NIL == -1
Blocks == 0..LastBlock

\* A value of the main trie: the block that wrote it and the one whose storage
\* root it holds (NIL for none); the empty value has block NIL.
Value == [by : Blocks, root : Blocks \cup {NIL}]
Empty == [by |-> NIL, root |-> NIL]

ASSUME StateDbAssumption ==
    /\ QueueSize \in Nat \ {0} /\ PoolSize \in Nat
    /\ LastBlock \in Nat /\ MaxStops \in Nat
    /\ Absent \notin Value \cup {Empty} /\ IsFiniteSet(Accounts)

\* A put of account a: of its value only, of its value and its storage, or of the
\* empty value (a deleted account).
Kinds == {"value", "storage", "delete"}

VARIABLES
    disk,        \* what RocksDB holds
    batch,       \* the write batch: puts of the pending block
    queue,       \* tasks of the writer thread
    state_desc,  \* number of the last committed block, in memory
    pending,     \* pending_blk_n
    exec,        \* where the block execution is
    pool,        \* [generation, idle]: the iterators of main trie values
    reader,      \* what each reader does
    wrong,       \* a reader was given a value its block did not have (history)
    contents,    \* contents[b][a]: the value of a after block b (history)
    prune,       \* where a Prune is: its block and the steps left
    disabled,    \* opts.DisableMostRecentTrieValueViews
    opening,     \* what Init has left to do with the views
    stops

readVars == <<pool, reader, wrong>>
openVars == <<disabled, opening, stops>>
blockVars == <<state_desc, pending, contents>>
vars == <<disk, batch, queue, exec, prune, readVars, openVars, blockVars>>

NoValues == [a \in Accounts |-> Absent]
NoReads == [r \in Readers |-> [at |-> "idle"]]
FreshPool == [generation |-> 0, idle |-> <<>>]
\* blk: the block given to the last Prune; left: its steps still to be taken; the
\* others are what its threads have collected; torn: stopped while a column of
\* nodes was dropped and not filled again.
NoPrune == [blk |-> 0, left |-> {}, roots |-> {}, storageRoots |-> {}, torn |-> FALSE]

Init ==
    /\ disk = [vals |-> [b \in Blocks |-> NoValues],       \* COL_main_trie_value
               slots |-> [b \in Blocks |-> NoValues],      \* COL_acc_trie_value
               latest |-> NoValues,                        \* the view of most recent values
               roots |-> {}, storageRoots |-> {},          \* nodes of the tries
               desc |-> NIL, status |-> ""]
    /\ batch = <<>> /\ queue = <<>>
    /\ state_desc = NIL /\ pending = NIL
    /\ exec = "stopped"
    /\ pool = FreshPool /\ reader = NoReads /\ wrong = FALSE
    /\ contents = [b \in Blocks |-> NoValues]
    /\ prune = NoPrune
    /\ disabled \in BOOLEAN
    /\ opening = "status"
    /\ stops = 0
-----------------------------------------------------------------------------
(* Reading under a version.                                                *)

\* SeekForPrev: the newest version of a that is not above b; the empty value reads
\* as absence.
Versions(vals, a, b) == {v \in 0..b : vals[v][a] # Absent}
Seek(vals, a, b) ==
    LET vs == Versions(vals, a, b)
    IN  IF vs = {} \/ vals[Max(vs)][a] = Empty THEN Absent ELSE vals[Max(vs)][a]

\* PendingBlockState.Get of a trie value: the view of most recent values, or the
\* last committed version when the views are disabled.
PendingGet(a) ==
    IF disabled THEN Seek(disk.vals, a, state_desc)
    ELSE IF disk.latest[a] = Empty THEN Absent ELSE disk.latest[a]
-----------------------------------------------------------------------------
(* LatestState.                                                            *)

\* GoroutineGroup.Submit blocks while the channel is full.
Submit(task) == Len(queue) < QueueSize /\ queue' = Append(queue, task)

BeginPendingBlock ==
    /\ exec = "idle" /\ prune.left = {} /\ ~prune.torn /\ pending < LastBlock
    /\ pending' = pending + 1
    /\ contents' = [contents EXCEPT ![pending + 1] =
                        IF pending = NIL THEN NoValues ELSE contents[pending]]
    /\ exec' = "pending"
    /\ UNCHANGED <<disk, batch, queue, state_desc, prune, readVars, openVars>>

\* What a put of account a leaves under its key when it was old before.
Written(old, kind) ==
    IF kind = "delete" THEN Empty
    ELSE [by |-> pending, root |-> IF kind = "storage" THEN pending
                                   ELSE IF old = Absent THEN NIL ELSE old.root]

\* PendingBlockState.Put, when the tries are committed.  An account deleted and made again
\* in one block is put twice, and the second put replaces the first in the batch, under the
\* same key: the model has that one alone.
Put(a, kind) ==
    LET old == IF pending = 0 THEN Absent ELSE contents[pending - 1][a]
    IN  /\ exec = "pending"
        /\ contents[pending][a] = old
        /\ kind = "delete" => old # Absent
        /\ Submit([do |-> "put", acc |-> a, kind |-> kind, blk |-> pending,
                   val |-> Written(PendingGet(a), kind)])
        /\ contents' = [contents EXCEPT ![pending][a] =
                            IF kind = "delete" THEN Absent ELSE Written(old, kind)]
        /\ UNCHANGED <<disk, batch, state_desc, pending, exec, prune, readVars, openVars>>

\* Commit: the writing task, then Join, then the task that clears the batch.
CommitSubmit ==
    /\ exec = "pending"
    /\ Submit([do |-> "commit", blk |-> pending])
    /\ exec' = "join"
    /\ UNCHANGED <<disk, batch, prune, readVars, openVars, blockVars>>

\* Mutant: Join waits without a task that would wake it.
JoinUnsubmitted ==
    /\ exec = "join" /\ exec' = "wait"
    /\ UNCHANGED <<disk, batch, queue, prune, readVars, openVars, blockVars>>

Join ==
    /\ exec = "join"
    /\ Submit([do |-> "unlock"])
    /\ exec' = "wait"
    /\ UNCHANGED <<disk, batch, prune, readVars, openVars, blockVars>>

ClearSubmit ==
    /\ exec = "joined"
    /\ Submit([do |-> "clear"])
    /\ exec' = "idle"
    /\ UNCHANGED <<disk, batch, prune, readVars, openVars, blockVars>>
-----------------------------------------------------------------------------
(* The writer thread.  A writing task has three steps that readers can come *)
(* between: the write, the invalidation of the pools, the new descriptor.   *)

Doing(task) == queue # <<>> /\ Head(queue).do = task

Puts(kinds) == {p \in ToSet(batch) : p.kind \in kinds}

\* A column with the puts of the batch under their versions, and a view of most
\* recent values with them.
Versioned(col, kinds) == [b \in Blocks |-> [a \in Accounts |->
    LET ps == {p \in Puts(kinds) : p.acc = a /\ p.blk = b}
    IN  IF ps = {} THEN col[b][a] ELSE (CHOOSE p \in ps : TRUE).val]]

MostRecent(col, kinds) == [a \in Accounts |->
    LET ps == {p \in Puts(kinds) : p.acc = a}
    IN  IF ps = {} \/ disabled THEN col[a] ELSE (CHOOSE p \in ps : TRUE).val]

\* db.Write of the batch and the descriptor: all of it or nothing.
Flushed(blk) ==
    [disk EXCEPT !.vals = Versioned(disk.vals, Kinds),
                 !.slots = Versioned(disk.slots, {"storage"}),
                 !.latest = MostRecent(disk.latest, Kinds),
                 !.roots = @ \cup {blk},
                 !.storageRoots = @ \cup {<<p.acc, p.blk>> : p \in Puts({"storage"})},
                 !.desc = blk]

\* Mutant: iterators that are in use are taken back afterwards.
InvalidatedIdle(p) == [p EXCEPT !.idle = <<>>]

\* Pool.Invalidate: iterators made before are not handed out again.
Invalidated(p) == [generation |-> p.generation + 1, idle |-> <<>>]

WriterPut ==
    /\ Doing("put")
    /\ batch' = Append(batch, Head(queue)) /\ queue' = Tail(queue)
    /\ UNCHANGED <<disk, exec, prune, readVars, openVars, blockVars>>

WriterWrite ==
    /\ Doing("commit")
    /\ disk' = Flushed(Head(queue).blk)
    /\ queue' = [queue EXCEPT ![1].do = "invalidate"]
    /\ UNCHANGED <<batch, exec, prune, readVars, openVars, blockVars>>

WriterInvalidate ==
    /\ Doing("invalidate")
    /\ pool' = Invalidated(pool)
    /\ queue' = [queue EXCEPT ![1].do = "publish"]
    /\ UNCHANGED <<disk, batch, exec, prune, reader, wrong, openVars, blockVars>>

WriterPublish ==
    /\ Doing("publish")
    /\ state_desc' = Head(queue).blk /\ queue' = Tail(queue)
    /\ UNCHANGED <<disk, batch, exec, prune, pending, contents, readVars, openVars>>

WriterUnlock ==
    /\ Doing("unlock")
    /\ exec' = "joined" /\ queue' = Tail(queue)
    /\ UNCHANGED <<disk, batch, prune, readVars, openVars, blockVars>>

WriterClear ==
    /\ Doing("clear")
    /\ batch' = <<>> /\ queue' = Tail(queue)
    /\ UNCHANGED <<disk, exec, prune, readVars, openVars, blockVars>>

Writer == WriterPut \/ WriterWrite \/ WriterInvalidate \/ WriterPublish \/ WriterUnlock \/ WriterClear
-----------------------------------------------------------------------------
(* Readers of committed blocks.                                            *)

\* GetBlockStateReader refuses a block that is not committed yet.
OpenReader(r, b) ==
    /\ exec # "stopped" /\ reader[r].at = "idle"
    /\ state_desc # NIL /\ b <= state_desc
    /\ reader' = [reader EXCEPT ![r] = [at |-> "open", blk |-> b]]
    /\ UNCHANGED <<disk, batch, queue, exec, prune, pool, wrong, openVars, blockVars>>

\* Pool.Get: an idle iterator or a new one, which sees the database as it is now.
Handle == IF pool.idle # <<>> THEN Head(pool.idle)
          ELSE [generation |-> pool.generation, sees |-> disk.vals]

\* Versions below this block may be pruned.
Floor == Max({0, prune.blk - 1})

\* block_state_reader.Get: the iterator is taken, moved and read.
Get(r, a) ==
    /\ reader[r].at = "open"
    /\ pool' = IF pool.idle # <<>> THEN [pool EXCEPT !.idle = Tail(@)] ELSE pool
    /\ wrong' = (wrong \/ (/\ reader[r].blk >= Floor
                           /\ Seek(Handle.sees, a, reader[r].blk) # contents[reader[r].blk][a]))
    /\ reader' = [reader EXCEPT ![r] = [at |-> "read", blk |-> reader[r].blk, handle |-> Handle]]
    /\ UNCHANGED <<disk, batch, queue, exec, prune, openVars, blockVars>>

\* Pool.Return, deferred: an iterator of an older generation, or one too many, is
\* closed.
Return(r) ==
    /\ reader[r].at = "read"
    /\ pool' = IF reader[r].handle.generation = pool.generation /\ Len(pool.idle) < PoolSize
               THEN [pool EXCEPT !.idle = Append(@, reader[r].handle)] ELSE pool
    /\ reader' = [reader EXCEPT ![r] = [at |-> "idle"]]
    /\ UNCHANGED <<disk, batch, queue, exec, prune, wrong, openVars, blockVars>>
-----------------------------------------------------------------------------
(* Prune, called between blocks.  Its three goroutines, the last of which   *)
(* starts two more, take their steps in any order; readers go on meanwhile. *)

\* Mutant: the newest version below blk is pruned as well.
SupersededBy(col, a, blk) == {v \in Blocks : col[v][a] # Absent /\ v < blk}

\* Versions of a with a later version below blk.
Superseded(col, a, blk) ==
    {v \in Blocks : col[v][a] # Absent /\ \E w \in Blocks : v < w /\ w < blk /\ col[w][a] # Absent}

Pruned(col, blk) ==
    [v \in Blocks |-> [a \in Accounts |->
        IF v \in Superseded(col, a, blk) THEN Absent ELSE col[v][a]]]

\* The caller names the roots to keep: those of the blocks from blk on.  A block that
\* is not committed is refused.
Prune(blk) ==
    /\ exec = "idle" /\ prune.left = {} /\ state_desc # NIL
    /\ blk \in (prune.blk + 1)..state_desc
    /\ prune' = [prune EXCEPT !.blk = blk, !.left = {"slots", "collect roots", "scan"}]
    /\ UNCHANGED <<disk, batch, queue, exec, readVars, openVars, blockVars>>

Step(done, next) == [prune EXCEPT !.left = (@ \ {done}) \cup next]

deleteStateValues ==
    /\ "slots" \in prune.left
    /\ disk' = [disk EXCEPT !.slots = Pruned(@, prune.blk)]
    /\ prune' = Step("slots", {})
    /\ UNCHANGED <<batch, queue, exec, readVars, openVars, blockVars>>

\* recreateMainTrie: the nodes below the roots to keep are read, the column is
\* dropped, and they are written back.
recreateMainTrie ==
    /\ \/ /\ "collect roots" \in prune.left
          /\ prune' = [Step("collect roots", {"drop roots"}) EXCEPT
                            !.roots = disk.roots \cap (prune.blk..state_desc)]
          /\ UNCHANGED disk
       \/ /\ "drop roots" \in prune.left
          /\ disk' = [disk EXCEPT !.roots = {}]
          /\ prune' = Step("drop roots", {"put roots"})
       \/ /\ "put roots" \in prune.left
          /\ disk' = [disk EXCEPT !.roots = prune.roots]
          /\ prune' = Step("put roots", {})
    /\ UNCHANGED <<batch, queue, exec, readVars, openVars, blockVars>>

\* The values met by deleteStateRoot.  It decodes each as an account, which panics
\* for the empty value of a deleted one.
AllVersions == {e \in Blocks \X Accounts : disk.vals[e[1]][e[2]] # Absent}
ScanPanics == "scan" \in prune.left /\ \E e \in AllVersions : disk.vals[e[1]][e[2]] = Empty

deleteStateRoot ==
    /\ \/ /\ "scan" \in prune.left /\ ~ScanPanics
          /\ LET kept == {e \in AllVersions : e[1] \notin Superseded(disk.vals, e[2], prune.blk)}
                 named == {<<e[2], disk.vals[e[1]][e[2]].root>> : e \in kept}
             IN  prune' = [Step("scan", {"values", "drop storage"}) EXCEPT
                                !.storageRoots = disk.storageRoots \cap named]
          /\ UNCHANGED disk
       \/ /\ "values" \in prune.left
          /\ disk' = [disk EXCEPT !.vals = Pruned(@, prune.blk)]
          /\ prune' = Step("values", {})
       \/ /\ "drop storage" \in prune.left
          /\ disk' = [disk EXCEPT !.storageRoots = {}]
          /\ prune' = Step("drop storage", {"put storage"})
       \/ /\ "put storage" \in prune.left
          /\ disk' = [disk EXCEPT !.storageRoots = prune.storageRoots]
          /\ prune' = Step("put storage", {})
    /\ UNCHANGED <<batch, queue, exec, readVars, openVars, blockVars>>
-----------------------------------------------------------------------------
(* Stopping and starting.                                                  *)

\* The process ends: by a crash, or by the panic of a prune.  What is in memory is
\* lost; a block that was not written will be executed anew.
Stop ==
    /\ exec # "stopped" /\ (stops < MaxStops \/ ScanPanics)
    /\ batch' = <<>> /\ queue' = <<>> /\ exec' = "stopped"
    /\ state_desc' = NIL /\ pending' = NIL
    /\ contents' = [b \in Blocks |-> IF b <= disk.desc THEN contents[b] ELSE NoValues]
    /\ pool' = FreshPool /\ reader' = NoReads
    /\ prune' = [prune EXCEPT !.left = {}, !.roots = {}, !.storageRoots = {},
                    !.torn = @ \/ {"put roots", "put storage"} \cap prune.left # {}]
    /\ disabled' \in BOOLEAN
    /\ opening' = "status"
    /\ stops' = IF stops < MaxStops THEN stops + 1 ELSE stops
    /\ UNCHANGED <<disk, wrong>>

\* LatestState.Init: the views cannot be had again once they were disabled.
ViewsSupported ==
    CASE disk.status = ""        -> disabled \/ disk.desc = NIL
      [] disk.status = "enabled" -> TRUE
      [] OTHER                   -> disabled

NextStatus ==
    CASE disk.status = ""                     -> IF disabled THEN "disabled" ELSE "enabled"
      [] disk.status = "enabled" /\ disabled  -> "disabling"
      [] OTHER                                -> disk.status

OpenStatus ==
    /\ exec = "stopped" /\ opening = "status" /\ ViewsSupported
    /\ disk' = [disk EXCEPT !.status = NextStatus]
    /\ opening' = IF NextStatus = "disabling" THEN "drop" ELSE "done"
    /\ UNCHANGED <<batch, queue, exec, prune, readVars, disabled, stops, blockVars>>

\* The assertion fails; the operator starts the node with the views disabled.
OpenRefused ==
    /\ exec = "stopped" /\ opening = "status" /\ ~ViewsSupported
    /\ disabled' = TRUE
    /\ UNCHANGED <<disk, batch, queue, exec, prune, readVars, opening, stops, blockVars>>

OpenDrop ==
    /\ exec = "stopped" /\ opening = "drop"
    /\ disk' = [disk EXCEPT !.latest = NoValues]
    /\ opening' = "mark"
    /\ UNCHANGED <<batch, queue, exec, prune, readVars, disabled, stops, blockVars>>

OpenMark ==
    /\ exec = "stopped" /\ opening = "mark"
    /\ disk' = [disk EXCEPT !.status = "disabled"]
    /\ opening' = "done"
    /\ UNCHANGED <<batch, queue, exec, prune, readVars, disabled, stops, blockVars>>

\* The descriptor that was read becomes the committed block.
Opened ==
    /\ exec = "stopped" /\ opening = "done"
    /\ state_desc' = disk.desc /\ pending' = disk.desc
    /\ exec' = "idle"
    /\ UNCHANGED <<disk, batch, queue, contents, prune, readVars, openVars>>

\* The process is killed while it starts.
StopOpening ==
    /\ exec = "stopped" /\ opening # "status"
    /\ opening' = "status"
    /\ disabled' \in BOOLEAN
    /\ UNCHANGED <<disk, batch, queue, exec, prune, stops, readVars, blockVars>>

Execution == BeginPendingBlock \/ CommitSubmit \/ Join \/ ClearSubmit
                \/ \E a \in Accounts, k \in Kinds : Put(a, k)
Reading == \E r \in Readers : Return(r) \/ (\E b \in Blocks : OpenReader(r, b)) \/ (\E a \in Accounts : Get(r, a))
Pruning == deleteStateValues \/ recreateMainTrie \/ deleteStateRoot \/ \E blk \in Blocks : Prune(blk)
Opening == OpenStatus \/ OpenRefused \/ OpenDrop \/ OpenMark \/ Opened \/ StopOpening

Next == Execution \/ Writer \/ Reading \/ Pruning \/ Opening \/ Stop

\* The writer goroutine runs, and so does the thread inside Commit.
Fairness == WF_vars(Writer) /\ WF_vars(Join) /\ WF_vars(ClearSubmit)

Spec == Init /\ [][Next]_vars /\ Fairness
-----------------------------------------------------------------------------
\* Types of the variables, and the capacity of the queue and the pool.
TypeOK ==
    /\ disk.vals \in [Blocks -> [Accounts -> Value \cup {Empty, Absent}]]
    /\ disk.latest \in [Accounts -> Value \cup {Empty, Absent}]
    /\ disk.desc \in Blocks \cup {NIL} /\ disk.roots \subseteq Blocks
    /\ Len(queue) <= QueueSize /\ Len(pool.idle) <= PoolSize
    /\ Len(batch) <= Cardinality(Accounts)
    /\ state_desc \in Blocks \cup {NIL} /\ pending \in Blocks \cup {NIL}
    /\ exec \in {"stopped", "idle", "pending", "join", "wait", "joined"}

\* block_state_reader.Get: a reader of a committed block reads what that block left,
\* whatever is committed, pruned or read by others meanwhile: no iterator it is given
\* is older than the block.  (Prune may take versions before its block.)
\* PendingBlockState.Get: a block being executed reads what the last committed one left,
\* from the views or from versions, also after restarts that disabled the views in
\* the middle of which the node was stopped again.
ReadsExact ==
    /\ ~wrong
    /\ exec \in {"idle", "pending"} =>
          \A a \in Accounts :
              PendingGet(a) = IF state_desc = NIL THEN Absent ELSE contents[state_desc][a]

\* LatestState.Commit, Prune: at every moment, so after any stop, the database holds
\* exactly the blocks up to the descriptor: from the last pruned block on the value of
\* each account, the storage root it names and the value under it, and the state root.
\* (Between the steps of a prune, or if one was interrupted, nodes may miss.)
CommittedWhole ==
    /\ \A e \in AllVersions : e[1] <= disk.desc
    /\ \A b \in Floor..disk.desc, a \in Accounts :
          LET v == contents[b][a]
          IN  /\ Seek(disk.vals, a, b) = v
              /\ v # Absent /\ v.root # NIL =>
                    /\ Versions(disk.slots, a, b) # {} /\ Max(Versions(disk.slots, a, b)) = v.root
                    /\ prune.left = {} /\ ~prune.torn => <<a, v.root>> \in disk.storageRoots
    /\ prune.left = {} /\ ~prune.torn => (prune.blk..disk.desc) \subseteq disk.roots

\* Commit returns, unless the process stops: neither Join nor the task after it waits
\* for ever on the writer thread.
CommitReturns == exec \in {"join", "wait", "joined"} ~> exec \in {"idle", "stopped"}
=============================================================================
