----------------------------- MODULE StateDbProofs -----------------------------
(***************************************************************************)
(* Proofs about the state database, for every set of accounts and readers, *)
(* every capacity of the queue and the pool, and any number of blocks and  *)
(* stops.                                                                  *)
(***************************************************************************)
EXTENDS StateDb, FiniteSums

-----------------------------------------------------------------------------
(* Versions of a key in a column.                                          *)

\* m is the newest version of a that is not above b.
Top(col, a, b, m) ==
    /\ m \in 0..b /\ col[m][a] # Absent
    /\ \A v \in 0..b : v > m => col[v][a] = Absent

\* A column has a newest version of a key up to b, or none.
LEMMA TopOrNone ==
  ASSUME NEW col, NEW a, NEW b \in Blocks \cup {NIL}
  PROVE  (\E m : Top(col, a, b, m)) \/ (\A v \in 0..b : col[v][a] = Absent)
<1> SUFFICES ASSUME NEW w \in 0..b, col[w][a] # Absent
             PROVE  \E m : Top(col, a, b, m)
  OBVIOUS
<1> DEFINE T == {n \in Nat : n <= b /\ col[b - n][a] # Absent}
<1>b. b \in Nat
  BY StateDbAssumption DEF Blocks, NIL
<1>1. b - w \in T
  <2>1. b - (b - w) = w /\ b - w \in Nat /\ b - w <= b
    BY <1>b
  <2> QED BY <2>1
<1>2. T \in SUBSET Nat /\ T # {}
  BY <1>1
<1>3. PICK n \in T : \A k \in T : n <= k
  <2> HIDE DEF T
  <2> QED BY <1>2, LeastNatural
<1>4. b - n \in 0..b /\ col[b - n][a] # Absent
  BY <1>b
<1>5. ASSUME NEW v \in 0..b, v > b - n, col[v][a] # Absent PROVE FALSE
  <2>1. b - (b - v) = v /\ b - v \in Nat /\ b - v <= b /\ b - v < n
    BY <1>b, <1>5
  <2>2. b - v \in T
    BY <2>1, <1>5
  <2> QED BY <2>1, <2>2, <1>3
<1> QED BY <1>4, <1>5 DEF Top

\* A read under a version finds the newest one that is not above it.
LEMMA SeekTop ==
  ASSUME NEW col, NEW a, NEW b \in Blocks \cup {NIL}, NEW m, Top(col, a, b, m)
  PROVE  /\ Versions(col, a, b) # {} /\ Max(Versions(col, a, b)) = m
         /\ Seek(col, a, b) = IF col[m][a] = Empty THEN Absent ELSE col[m][a]
<1>b. b \in Nat /\ m \in 0..b
  BY StateDbAssumption DEF Blocks, NIL, Top
<1>1. m \in Versions(col, a, b)
  BY <1>b DEF Top, Versions
<1>2. \A y \in Versions(col, a, b) : y \in 0..b /\ m >= y
  BY <1>b DEF Top, Versions
<1>3. Max(Versions(col, a, b)) = m
  <2> DEFINE S == Versions(col, a, b)
  <2>1. m \in S /\ \A y \in S : y \in Int /\ m >= y
    BY <1>1, <1>2
  <2> HIDE DEF S
  <2>2. \A x \in S : (\A y \in S : x >= y) => x = m
    BY <2>1, <1>b
  <2>3. Max(S) = m
    BY <2>1, <2>2 DEF Max
  <2> QED BY <2>3 DEF S
<1> QED BY <1>1, <1>3 DEF Seek

\* A read finds nothing when the key has no version up to the block.
LEMMA SeekNone ==
  ASSUME NEW col, NEW a, NEW b, \A v \in 0..b : col[v][a] = Absent
  PROVE  Seek(col, a, b) = Absent
<1>1. Versions(col, a, b) = {}
  BY DEF Versions
<1> QED BY <1>1 DEF Seek

\* Only the versions of the key that are not above b matter.
LEMMA SeekSame ==
  ASSUME NEW c, NEW d, NEW a, NEW b \in Blocks \cup {NIL},
         \A v \in 0..b : c[v][a] = d[v][a]
  PROVE  Seek(c, a, b) = Seek(d, a, b)
<1>1. CASE \E m : Top(c, a, b, m)
  <2>1. PICK m : Top(c, a, b, m)
    BY <1>1
  <2>2. Top(d, a, b, m) /\ c[m][a] = d[m][a]
    BY <2>1 DEF Top
  <2> QED BY <2>1, <2>2, SeekTop
<1>2. CASE \A v \in 0..b : c[v][a] = Absent
  BY <1>2, SeekNone
<1> QED BY <1>1, <1>2, TopOrNone

\* A block that has no version of the key reads as the one before.
LEMMA SeekNext ==
  ASSUME NEW c, NEW d, NEW a, NEW b \in Blocks,
         \A v \in 0..(b - 1) : c[v][a] = d[v][a], d[b][a] = Absent
  PROVE  /\ Seek(d, a, b) = Seek(c, a, b - 1)
         /\ \A m : Top(c, a, b - 1, m) => Top(d, a, b, m)
<1>b. b \in Nat /\ b - 1 \in Blocks \cup {NIL}
  BY StateDbAssumption DEF Blocks, NIL
<1>v. \A v \in 0..b : v \in 0..(b - 1) \/ v = b
  BY <1>b
<1>t. ASSUME NEW m, Top(c, a, b - 1, m) PROVE Top(d, a, b, m) /\ d[m][a] = c[m][a]
  <2>1. m \in 0..(b - 1) /\ m \in 0..b
    BY <1>b, <1>t DEF Top
  <2> QED BY <2>1, <1>v, <1>t DEF Top
<1>1. CASE \E m : Top(c, a, b - 1, m)
  <2>1. PICK m : Top(c, a, b - 1, m)
    BY <1>1
  <2>2. Seek(c, a, b - 1) = IF c[m][a] = Empty THEN Absent ELSE c[m][a]
    BY <2>1, <1>b, SeekTop
  <2>3. Seek(d, a, b) = IF d[m][a] = Empty THEN Absent ELSE d[m][a]
    BY <2>1, <1>t, SeekTop
  <2> QED BY <2>1, <2>2, <2>3, <1>t
<1>2. CASE \A v \in 0..(b - 1) : c[v][a] = Absent
  <2>1. \A v \in 0..b : d[v][a] = Absent
    BY <1>2, <1>v
  <2>2. Seek(d, a, b) = Absent /\ Seek(c, a, b - 1) = Absent
    BY <2>1, <1>2, SeekNone
  <2> QED BY <1>t, <2>2
<1> QED BY <1>1, <1>2, <1>b, TopOrNone

\* Prune keeps the newest version that a block from blk - 1 on reads.
LEMMA NewestKept ==
  ASSUME NEW col, NEW a \in Accounts, NEW blk \in Blocks, NEW b \in Blocks, b >= blk - 1,
         NEW m, Top(col, a, b, m)
  PROVE  /\ m \notin Superseded(col, a, blk)
         /\ Top(Pruned(col, blk), a, b, m) /\ Pruned(col, blk)[m][a] = col[m][a]
<1>b. b \in Nat /\ m \in 0..b /\ blk \in Nat /\ m \in Blocks /\ \A v \in 0..b : v \in Blocks
  BY StateDbAssumption DEF Blocks, NIL, Top
<1>1. m \notin Superseded(col, a, blk)
  <2> SUFFICES ASSUME NEW w \in Blocks, m < w, w < blk, col[w][a] # Absent PROVE FALSE
    BY DEF Superseded
  <2>1. w \in 0..b
    BY <1>b DEF Blocks
  <2> QED BY <2>1 DEF Top
<1>2. \A v \in Blocks : Pruned(col, blk)[v][a] = IF v \in Superseded(col, a, blk) THEN Absent ELSE col[v][a]
  BY DEF Pruned
<1>3. Pruned(col, blk)[m][a] = col[m][a]
  BY <1>1, <1>2, <1>b
<1>4. \A v \in 0..b : v > m => Pruned(col, blk)[v][a] = Absent
  BY <1>2, <1>b DEF Top
<1> QED BY <1>1, <1>3, <1>4, <1>b DEF Top

\* Pruning below a block does not change what is read from that block, or the one before it, on.
LEMMA SeekPruned ==
  ASSUME NEW col, NEW a \in Accounts, NEW blk \in Blocks, NEW b \in Blocks, b >= blk - 1
  PROVE  Seek(Pruned(col, blk), a, b) = Seek(col, a, b)
<1>1. CASE \E m : Top(col, a, b, m)
  <2>1. PICK m : Top(col, a, b, m)
    BY <1>1
  <2>2. Top(Pruned(col, blk), a, b, m) /\ Pruned(col, blk)[m][a] = col[m][a]
    BY <2>1, NewestKept
  <2>3. Seek(col, a, b) = IF col[m][a] = Empty THEN Absent ELSE col[m][a]
    BY <2>1, SeekTop
  <2>4. Seek(Pruned(col, blk), a, b)
          = IF Pruned(col, blk)[m][a] = Empty THEN Absent ELSE Pruned(col, blk)[m][a]
    BY <2>2, SeekTop
  <2> QED BY <2>2, <2>3, <2>4
<1>2. CASE \A v \in 0..b : col[v][a] = Absent
  <2>1. \A v \in 0..b : v \in Blocks
    BY StateDbAssumption DEF Blocks
  <2>2. \A v \in 0..b : Pruned(col, blk)[v][a] = Absent
    BY <1>2, <2>1 DEF Pruned
  <2> QED BY <1>2, <2>2, SeekNone
<1> QED BY <1>1, <1>2, TopOrNone
-----------------------------------------------------------------------------
(* Types.                                                                  *)

Stored == Value \cup {Empty, Absent}
Columns == [Blocks -> [Accounts -> Stored]]
Handles == [generation : Nat, sees : Columns]

PutTask == [do : {"put"}, acc : Accounts, kind : Kinds, blk : Blocks, val : Value \cup {Empty}]
CommitTask == [do : {"commit", "invalidate", "publish"}, blk : Blocks]
Task == PutTask \cup CommitTask \cup [do : {"unlock", "clear"}]

Steps == {"slots", "collect roots", "drop roots", "put roots", "scan", "values", "drop storage", "put storage"}

DiskRecord ==
    [vals : Columns, slots : Columns, latest : [Accounts -> Stored], roots : SUBSET Blocks,
     storageRoots : SUBSET (Accounts \X Blocks), desc : Blocks \cup {NIL},
     status : {"", "enabled", "disabling", "disabled"}]

PruneRecord ==
    [blk : Blocks, left : SUBSET Steps, roots : SUBSET Blocks, storageRoots : SUBSET (Accounts \X Blocks),
     torn : BOOLEAN]

DiskTypes ==
    /\ disk \in DiskRecord
    /\ contents \in [Blocks -> [Accounts -> Value \cup {Absent}]]
    /\ prune \in PruneRecord

BlockTypes ==
    /\ batch \in Seq(PutTask) /\ queue \in Seq(Task)
    /\ state_desc \in Blocks \cup {NIL} /\ pending \in Blocks \cup {NIL}
    /\ exec \in {"stopped", "idle", "pending", "join", "wait", "joined"}
    /\ opening \in {"status", "drop", "mark", "done"}

ReadTypes ==
    /\ pool \in [generation : Nat, idle : Seq(Handles)]
    /\ reader \in [Readers -> [at : {"idle"}] \cup [at : {"open"}, blk : Blocks]
                              \cup [at : {"read"}, blk : Blocks, handle : Handles]]

Types == DiskTypes /\ BlockTypes /\ ReadTypes
-----------------------------------------------------------------------------
(* The writer's queue in each phase of a block.                            *)

\* The puts of a block, after the task that clears the batch of the one before.
Preparing(n) ==
    \A i \in 1..n : queue[i].do = "put" \/ (i = 1 /\ queue[i].do = "clear")

\* The batch and the commit are still in the first n tasks of the queue.
Unwritten(n) ==
    /\ n >= 1 /\ queue[n].do = "commit" /\ queue[n].blk = pending /\ Preparing(n - 1)
    /\ disk.desc = pending - 1 /\ state_desc = pending - 1

\* The batch is written; n tasks are left of the commit.
Written_(n) ==
    /\ disk.desc = pending
    /\ \/ n = 0 /\ state_desc = pending
       \/ n = 1 /\ queue[1].do \in {"invalidate", "publish"} /\ queue[1].blk = pending
            /\ state_desc = pending - 1

Phases ==
    /\ exec = "stopped" => queue = <<>> /\ batch = <<>> /\ state_desc = NIL /\ pending = NIL
    /\ exec = "idle" => /\ state_desc = disk.desc /\ pending = disk.desc
                        /\ \/ queue = <<>> /\ batch = <<>>
                           \/ Len(queue) = 1 /\ queue[1].do = "clear"
    /\ exec = "pending" => /\ pending \in Blocks /\ Preparing(Len(queue))
                           /\ disk.desc = pending - 1 /\ state_desc = pending - 1
    /\ exec = "join" => pending \in Blocks /\ (Unwritten(Len(queue)) \/ Written_(Len(queue)))
    /\ exec = "wait" => /\ pending \in Blocks /\ Len(queue) >= 1 /\ queue[Len(queue)].do = "unlock"
                        /\ Unwritten(Len(queue) - 1) \/ Written_(Len(queue) - 1)
    /\ exec = "joined" => queue = <<>> /\ pending \in Blocks /\ Written_(0)
    /\ prune.left # {} => exec = "idle"
    /\ prune.blk = 0 \/ prune.blk <= disk.desc
-----------------------------------------------------------------------------
(* What the puts of the pending block and the database say.                *)

Before(b, a) == IF b = 0 THEN Absent ELSE contents[b - 1][a]

\* The batch of the pending block is not written yet.
Open == exec = "pending" \/ (exec \in {"join", "wait"} /\ disk.desc = pending - 1)

Clearing == queue # <<>> /\ queue[1].do = "clear"
Effective ==
    {queue[i] : i \in {j \in 1..Len(queue) : queue[j].do = "put"}}
      \cup (IF Clearing THEN {} ELSE ToSet(batch))

\* A put tells the value the pending block has for its account.
Tells(p) ==
    LET old == Before(pending, p.acc)  new == contents[pending][p.acc]
    IN  /\ p.blk = pending /\ new # old
        /\ p.kind = "delete" => p.val = Empty /\ new = Absent
        /\ p.kind # "delete" => p.val = new /\ new # Absent
        /\ p.kind = "storage" => new.root = pending
        /\ p.kind = "value" => new.root = IF old = Absent THEN NIL ELSE old.root

PutsTell ==
    Open => /\ \A p \in Effective : Tells(p)
            /\ \A p, q \in Effective : p.acc = q.acc => p = q
            /\ \A a \in Accounts :
                 (\A p \in Effective : p.acc # a) => contents[pending][a] = Before(pending, a)

\* A column has the values c of the accounts after the blocks from lo to hi.
Shows(c, col, lo, hi) == \A b \in lo..hi, a \in Accounts : Seek(col, a, b) = c[b][a]

\* The blocks up to b wrote the values of b.
Fresh(b) == \A a \in Accounts : contents[b][a] # Absent => contents[b][a].by <= b

DiskTells ==
    /\ Shows(contents, disk.vals, Floor, disk.desc)
    /\ \A v \in Blocks : v > disk.desc => \A a \in Accounts : disk.vals[v][a] = Absent /\ disk.slots[v][a] = Absent
    /\ \A b \in Floor..disk.desc, a \in Accounts :
         contents[b][a] # Absent /\ contents[b][a].root # NIL =>
           Top(disk.slots, a, b, contents[b][a].root)
    /\ \A b \in Blocks : Fresh(b)
-----------------------------------------------------------------------------
(* Nodes, views, iterators.                                                *)

\* The storage roots that the committed accounts name.
Holds(roots) ==
    \A b \in Floor..disk.desc, a \in Accounts :
        contents[b][a] # Absent /\ contents[b][a].root # NIL => <<a, contents[b][a].root>> \in roots

NodesKept ==
    /\ "collect roots" \in prune.left => {"drop roots", "put roots"} \cap prune.left = {}
    /\ "scan" \in prune.left => {"drop storage", "put storage"} \cap prune.left = {}
    /\ ~prune.torn =>
        /\ "put storage" \notin prune.left => Holds(disk.storageRoots)
        /\ {"drop storage", "put storage"} \cap prune.left # {} => Holds(prune.storageRoots)
        /\ "put roots" \notin prune.left => (prune.blk..disk.desc) \subseteq disk.roots
        /\ {"drop roots", "put roots"} \cap prune.left # {} => (prune.blk..disk.desc) \subseteq prune.roots

Committed(a) == IF disk.desc = NIL THEN Absent ELSE contents[disk.desc][a]

ViewsTell ==
    /\ disk.status = "" => disk.desc = NIL /\ disk.latest = NoValues
    /\ disk.status = "enabled" =>
         \A a \in Accounts : Committed(a) = IF disk.latest[a] = Empty THEN Absent ELSE disk.latest[a]
    /\ opening \in {"drop", "mark"} => disk.status = "disabling" /\ disabled
    /\ opening = "done" => \/ disk.status = "enabled" /\ ~disabled
                           \/ disk.status = "disabled" /\ disabled
    /\ exec # "stopped" => opening = "done"

\* The last block that the iterators of the pool see.
Seen == IF queue # <<>> /\ queue[1].do = "publish" THEN disk.desc ELSE state_desc

HandlesShow ==
    /\ ~wrong
    /\ \A i \in 1..Len(pool.idle) :
         pool.idle[i].generation = pool.generation /\ Shows(contents, pool.idle[i].sees, Floor, Seen)
    /\ \A r \in Readers : reader[r].at = "read" =>
         /\ reader[r].handle.generation <= pool.generation
         /\ reader[r].handle.generation = pool.generation => Shows(contents, reader[r].handle.sees, Floor, Seen)
    /\ \A r \in Readers : reader[r].at = "open" => reader[r].blk <= state_desc
    /\ exec = "stopped" => pool.idle = <<>> /\ \A r \in Readers : reader[r].at = "idle"

IInv == Types /\ Phases /\ PutsTell /\ DiskTells /\ NodesKept /\ ViewsTell /\ HandlesShow
-----------------------------------------------------------------------------
(* Lemmas about the parts of the invariant.                                *)

\* What Append does to a queue.
LEMMA QueueAppend ==
  ASSUME NEW S, NEW s \in Seq(S), NEW t \in S
  PROVE  /\ Append(s, t) \in Seq(S) /\ Append(s, t) # <<>>
         /\ Len(Append(s, t)) = Len(s) + 1 /\ Append(s, t)[Len(s) + 1] = t
         /\ \A i \in 1..Len(s) : Append(s, t)[i] = s[i]
  OBVIOUS

\* What taking the head off a queue leaves.
LEMMA QueueTail ==
  ASSUME NEW S, NEW s \in Seq(S), s # <<>>
  PROVE  /\ Len(s) \in Nat /\ Len(s) >= 1 /\ Head(s) = s[1] /\ s[1] \in S
         /\ Tail(s) \in Seq(S) /\ Len(Tail(s)) = Len(s) - 1
         /\ \A i \in 1..(Len(s) - 1) : Tail(s)[i] = s[i + 1]
  OBVIOUS

\* The tasks by what they do.
LEMMA TaskKinds ==
  /\ \A t \in Task : t.do = "put" => t \in PutTask
  /\ \A t \in Task : t.do \in {"commit", "invalidate", "publish"} => t \in CommitTask
  /\ \A t \in PutTask : t \in Task /\ t.do = "put"
  /\ \A t \in CommitTask : t \in Task
  BY DEF Task, PutTask, CommitTask

\* Block numbers are numbers, and the floor is one.
LEMMA Numbers ==
  ASSUME Types
  PROVE  /\ Blocks \subseteq Nat /\ NIL = -1 /\ LastBlock \in Nat
         /\ disk.desc \in Int /\ disk.desc >= -1 /\ disk.desc <= LastBlock
         /\ state_desc \in Int /\ pending \in Int /\ prune.blk \in Nat /\ Floor \in Nat
         /\ Floor = IF prune.blk = 0 THEN 0 ELSE prune.blk - 1
<1>1. /\ disk.desc \in Blocks \cup {NIL} /\ state_desc \in Blocks \cup {NIL}
      /\ pending \in Blocks \cup {NIL} /\ prune.blk \in Blocks
  BY DEF Types, DiskTypes, BlockTypes, DiskRecord, PruneRecord, Steps
<1>2. Floor = IF prune.blk = 0 THEN 0 ELSE prune.blk - 1
  <2>1. prune.blk \in Nat
    BY <1>1, StateDbAssumption DEF Blocks
  <2> DEFINE m == IF prune.blk = 0 THEN 0 ELSE prune.blk - 1
  <2>2. m \in {0, prune.blk - 1} /\ \A x \in {0, prune.blk - 1} : m >= x /\ (x >= m => x = m)
    BY <2>1
  <2> HIDE DEF m
  <2>3. Max({0, prune.blk - 1}) = m
    BY <2>2 DEF Max
  <2> QED BY <2>3 DEF Floor, m
<1> QED BY <1>1, <1>2, StateDbAssumption DEF Blocks, NIL

\* Fewer blocks of the same contents.
LEMMA ShowsFewer ==
  ASSUME NEW c, NEW d, NEW col, NEW lo, NEW hi, NEW lo2, NEW hi2, Shows(c, col, lo, hi),
         \A b \in lo2..hi2 : b \in lo..hi /\ d[b] = c[b]
  PROVE  Shows(d, col, lo2, hi2)
  BY DEF Shows

\* The iterators show what they showed when the committed blocks stay.
LEMMA HandlesFrame ==
  ASSUME HandlesShow, UNCHANGED <<pool, reader, wrong>>,
         \A b \in Floor'..Seen' : b \in Floor..Seen /\ contents'[b] = contents[b],
         \A b \in Blocks : b <= state_desc => b <= state_desc', Types,
         exec' = "stopped" => exec = "stopped"
  PROVE  HandlesShow'
<1>1. ASSUME NEW i \in 1..Len(pool.idle)
      PROVE  pool.idle[i].generation = pool.generation /\ Shows(contents', pool.idle[i].sees, Floor', Seen')
  <2>1. pool.idle[i].generation = pool.generation /\ Shows(contents, pool.idle[i].sees, Floor, Seen)
    BY DEF HandlesShow
  <2> QED BY <2>1, ShowsFewer
<1>2. ASSUME NEW r \in Readers, reader[r].at = "read"
      PROVE  /\ reader[r].handle.generation <= pool.generation
             /\ reader[r].handle.generation = pool.generation =>
                  Shows(contents', reader[r].handle.sees, Floor', Seen')
  <2>1. /\ reader[r].handle.generation <= pool.generation
        /\ reader[r].handle.generation = pool.generation =>
                  Shows(contents, reader[r].handle.sees, Floor, Seen)
    BY <1>2 DEF HandlesShow
  <2> QED BY <2>1, ShowsFewer
<1>3. ASSUME NEW r \in Readers, reader[r].at = "open" PROVE reader[r].blk <= state_desc'
  <2>1. reader[r].blk \in Blocks
    BY <1>3 DEF Types, ReadTypes
  <2> QED BY <2>1, <1>3 DEF HandlesShow
<1>4. ~wrong /\ (exec' = "stopped" => pool.idle = <<>> /\ \A r \in Readers : reader[r].at = "idle")
  BY DEF HandlesShow
<1> QED
  <2>1. pool' = pool /\ reader' = reader /\ wrong' = wrong
    OBVIOUS
  <2> QED BY <1>1, <1>2, <1>3, <1>4, <2>1 DEF HandlesShow

\* The columns tell what they told when only blocks after the descriptor change.
LEMMA DiskFrame ==
  ASSUME DiskTells, Types, disk'.vals = disk.vals, disk'.slots = disk.slots, disk'.desc = disk.desc,
         \A b \in Floor'..disk.desc : b \in Floor..disk.desc /\ contents'[b] = contents[b],
         \A b \in Blocks : Fresh(b)'
  PROVE  DiskTells'
<1>1. Shows(contents', disk.vals, Floor', disk.desc)
  BY ShowsFewer DEF DiskTells
<1>2. \A b \in Floor'..disk.desc, a \in Accounts :
         contents'[b][a] # Absent /\ contents'[b][a].root # NIL =>
           Top(disk.slots, a, b, contents'[b][a].root)
  BY DEF DiskTells
<1>3. \A v \in Blocks : v > disk.desc => \A a \in Accounts : disk.vals[v][a] = Absent /\ disk.slots[v][a] = Absent
  BY DEF DiskTells
<1> QED BY <1>1, <1>2, <1>3 DEF DiskTells

\* The trie nodes stay kept when neither the columns of nodes nor the pruning moved.
LEMMA NodesFrame ==
  ASSUME NodesKept, Types, disk'.desc = disk.desc, disk'.roots = disk.roots,
         disk'.storageRoots = disk.storageRoots, prune' = prune,
         \A b \in Floor'..disk.desc : b \in Floor..disk.desc /\ contents'[b] = contents[b]
  PROVE  NodesKept'
  BY DEF NodesKept, Holds

\* The most recent view stays right when neither it nor the last block moved.
LEMMA ViewsFrame ==
  ASSUME ViewsTell, Types, disk'.desc = disk.desc, disk'.latest = disk.latest, disk'.status = disk.status,
         UNCHANGED <<opening, disabled>>, exec' # "stopped" => exec # "stopped",
         disk.desc # NIL => contents'[disk.desc] = contents[disk.desc]
  PROVE  ViewsTell'
  BY DEF ViewsTell, Committed
-----------------------------------------------------------------------------
(* The block execution.                                                    *)

\* An empty database satisfies the inductive invariant.
LEMMA InitIInv ==
  ASSUME Init
  PROVE  IInv
<1>a. LastBlock \in Nat /\ 0 \in Blocks /\ NIL = -1 /\ Blocks \subseteq Nat
  BY StateDbAssumption DEF Blocks, NIL
<1>1. Types
  <2>1. NoValues \in [Accounts -> Stored] /\ NoValues \in [Accounts -> Value \cup {Absent}]
    BY DEF NoValues, Stored
  <2>2. [b \in Blocks |-> NoValues] \in Columns
    BY <2>1 DEF Columns
  <2>3. DiskTypes
    <3>1. disk \in DiskRecord
      BY <2>1, <2>2 DEF Init, DiskRecord, PruneRecord, Steps
    <3>2. contents \in [Blocks -> [Accounts -> Value \cup {Absent}]]
      BY <2>1 DEF Init
    <3>3. prune \in PruneRecord
      BY <1>a DEF Init, NoPrune, DiskRecord, PruneRecord, Steps
    <3> QED BY <3>1, <3>2, <3>3 DEF DiskTypes
  <2>4. BlockTypes
    <3>1. batch = <<>> /\ queue = <<>> /\ state_desc = NIL /\ pending = NIL /\ exec = "stopped" /\ opening = "status"
      BY DEF Init
    <3> QED BY <3>1 DEF BlockTypes
  <2>5. ReadTypes
    <3>1. pool = [generation |-> 0, idle |-> <<>>] /\ reader = [r \in Readers |-> [at |-> "idle"]]
      BY DEF Init, FreshPool, NoReads
    <3> QED BY <3>1 DEF ReadTypes
  <2> QED BY <2>3, <2>4, <2>5 DEF Types
<1>2. Phases
  BY DEF Init, Phases, NoPrune
<1>3. PutsTell
  BY DEF Init, PutsTell, Open
<1>f. disk.desc = -1 /\ Floor \in Nat /\ state_desc = -1 /\ queue = <<>>
  BY <1>1, <1>a, Numbers DEF Init
<1>4. DiskTells
  <2>1. \A b : b \notin Floor..disk.desc
    BY <1>f
  <2>2. \A v \in Blocks, a \in Accounts :
           disk.vals[v][a] = Absent /\ disk.slots[v][a] = Absent /\ contents[v][a] = Absent
    BY DEF Init, NoValues
  <2> QED BY <2>1, <2>2 DEF DiskTells, Shows, Fresh
<1>5. NodesKept
  <2>1. prune.left = {} /\ prune.blk = 0
    BY DEF Init, NoPrune
  <2>2. Floor..disk.desc = {} /\ 0..disk.desc = {}
    BY <1>f
  <2> QED BY <2>1, <2>2 DEF NodesKept, Holds
<1>6. ViewsTell
  <2>1. disk.status = "" /\ disk.desc = NIL /\ disk.latest = NoValues /\ opening = "status" /\ exec = "stopped"
    BY DEF Init
  <2> QED BY <2>1 DEF ViewsTell
<1>7. HandlesShow
  <2>1. ~wrong /\ pool.idle = <<>> /\ \A r \in Readers : reader[r].at = "idle"
    BY DEF Init, FreshPool, NoReads
  <2> QED BY <2>1 DEF HandlesShow
<1> QED BY <1>1, <1>2, <1>3, <1>4, <1>5, <1>6, <1>7 DEF IInv

\* BeginPendingBlock preserves the inductive invariant.
LEMMA BeginStep ==
  ASSUME IInv, BeginPendingBlock
  PROVE  IInv'
<1>i. Types /\ Phases /\ PutsTell /\ DiskTells /\ NodesKept /\ ViewsTell /\ HandlesShow
  BY DEF IInv
<1>n. /\ Blocks \subseteq Nat /\ NIL = -1 /\ LastBlock \in Nat /\ disk.desc \in Int /\ disk.desc >= -1
      /\ disk.desc <= LastBlock /\ Floor \in Nat
  BY <1>i, Numbers
<1>a. /\ UNCHANGED <<disk, batch, queue, state_desc, prune, pool, reader, wrong, disabled, opening, stops>>
      /\ exec = "idle" /\ exec' = "pending" /\ pending < LastBlock /\ pending' = pending + 1
      /\ contents' = [contents EXCEPT ![pending + 1] =
                        IF pending = NIL THEN NoValues ELSE contents[pending]]
      /\ prune.left = {}
  BY DEF BeginPendingBlock, readVars, openVars
<1>b. /\ pending = disk.desc /\ state_desc = disk.desc /\ pending' \in Blocks /\ pending' = disk.desc + 1
      /\ \/ queue = <<>> /\ batch = <<>>
         \/ Len(queue) = 1 /\ queue[1].do = "clear"
  BY <1>i, <1>a, <1>n DEF Phases, Blocks
<1>c. contents \in [Blocks -> [Accounts -> Value \cup {Absent}]] /\ pending \in Blocks \cup {NIL}
  BY <1>i DEF Types, DiskTypes, BlockTypes
<1>d. DiskTypes'
  <2>1. (IF pending = NIL THEN NoValues ELSE contents[pending]) \in [Accounts -> Value \cup {Absent}]
    BY <1>c DEF NoValues
  <2>2. contents' \in [Blocks -> [Accounts -> Value \cup {Absent}]]
    BY <2>1, <1>a, <1>b, <1>c
  <2> QED BY <2>2, <1>a, <1>i DEF Types, DiskTypes
<1>1. Types'
  <2>1. BlockTypes' /\ ReadTypes'
    BY <1>a, <1>b, <1>i DEF Types, BlockTypes, ReadTypes
  <2> QED BY <2>1, <1>d DEF Types
<1>2. Phases'
  <2>1. Preparing(Len(queue))'
    BY <1>a, <1>b DEF Preparing
  <2> QED BY <1>a, <1>b, <1>n, <1>i, <2>1 DEF Phases
<1>s. \A b \in Blocks : b # pending' => contents'[b] = contents[b]
  BY <1>a, <1>b, <1>c
<1>t. \A a \in Accounts : contents'[pending'][a] = Before(pending, a)'
  <2>1. contents'[pending'] = IF pending = NIL THEN NoValues ELSE contents[pending]
    BY <1>a, <1>b, <1>c
  <2>2. pending' = 0 <=> pending = NIL
    BY <1>b, <1>n
  <2>3. pending # NIL => pending' - 1 = pending /\ contents'[pending' - 1] = contents[pending]
    BY <1>a, <1>b, <1>n, <1>s, <1>c
  <2> QED BY <2>1, <2>2, <2>3 DEF Before, NoValues
<1>3. PutsTell'
  <2>1. Effective' = {}
    BY <1>a, <1>b DEF Effective, Clearing, ToSet
  <2> QED BY <2>1, <1>t DEF PutsTell
<1>u. Floor' = Floor /\ \A b \in Floor..disk.desc : b \in Blocks /\ b # pending'
  BY <1>a, <1>b, <1>n DEF Floor, Blocks
<1>4. DiskTells'
  <2>1. \A b \in Blocks : Fresh(b)'
    <3> SUFFICES ASSUME NEW b \in Blocks, NEW a \in Accounts, contents'[b][a] # Absent
                 PROVE  contents'[b][a].by <= b
      BY DEF Fresh
    <3>1. CASE b # pending'
      BY <3>1, <1>s, <1>i DEF DiskTells, Fresh
    <3>2. CASE b = pending'
      <4>1. pending # NIL /\ contents'[b] = contents[pending] /\ pending \in Blocks
        BY <3>2, <1>a, <1>b, <1>c DEF NoValues
      <4>2. contents[pending][a].by <= pending /\ contents[pending][a] \in Value
        BY <4>1, <1>i, <1>c DEF DiskTells, Fresh
      <4>3. contents[pending][a].by \in Nat /\ pending \in Nat
        BY <4>1, <4>2, <1>n DEF Value
      <4> QED BY <4>1, <4>2, <4>3, <3>2, <1>a
    <3> QED BY <3>1, <3>2
  <2> QED BY <2>1, <1>u, <1>s, <1>a, <1>i, DiskFrame
<1>5. NodesKept'
  BY <1>u, <1>s, <1>a, <1>i, NodesFrame
<1>6. ViewsTell'
  <2>1. disk.desc # NIL => disk.desc \in Blocks /\ disk.desc # pending'
    BY <1>b, <1>n, <1>c
  <2>2. disk.desc # NIL => contents'[disk.desc] = contents[disk.desc]
    BY <2>1, <1>s
  <2> QED BY <2>2, <1>a, <1>i, ViewsFrame
<1>7. HandlesShow'
  <2>1. Seen' = disk.desc /\ Seen = disk.desc
    BY <1>a, <1>b DEF Seen
  <2>2. \A b \in Floor'..Seen' : b \in Floor..Seen /\ contents'[b] = contents[b]
    BY <2>1, <1>u, <1>s
  <2> QED BY <2>2, <1>a, <1>i, HandlesFrame
<1> QED BY <1>1, <1>2, <1>3, <1>4, <1>5, <1>6, <1>7 DEF IInv

\* PendingBlockState.Get gives what the last committed block left, from the views or
\* from the versions.
LEMMA PendingReads ==
  ASSUME IInv, exec \in {"idle", "pending"}, NEW a \in Accounts
  PROVE  PendingGet(a) = IF state_desc = NIL THEN Absent ELSE contents[state_desc][a]
<1>i. Types /\ Phases /\ PutsTell /\ DiskTells /\ NodesKept /\ ViewsTell /\ HandlesShow
  BY DEF IInv
<1>n. /\ Blocks \subseteq Nat /\ NIL = -1 /\ disk.desc \in Int /\ disk.desc >= -1 /\ prune.blk \in Nat
      /\ Floor = IF prune.blk = 0 THEN 0 ELSE prune.blk - 1
  BY <1>i, Numbers
<1>a. state_desc = disk.desc /\ (prune.blk = 0 \/ prune.blk <= disk.desc)
  BY <1>i, <1>n DEF Phases
<1>1. CASE disabled
  <2>1. PendingGet(a) = Seek(disk.vals, a, disk.desc)
    BY <1>1, <1>a DEF PendingGet
  <2>2. CASE disk.desc = NIL
    <3>1. \A v \in 0..disk.desc : disk.vals[v][a] = Absent
      BY <2>2, <1>n
    <3> QED BY <2>1, <2>2, <3>1, <1>a, SeekNone
  <2>3. CASE disk.desc # NIL
    <3>1. disk.desc \in Floor..disk.desc
      BY <2>3, <1>n, <1>a
    <3> QED BY <2>1, <2>3, <3>1, <1>a, <1>i DEF DiskTells, Shows
  <2> QED BY <2>2, <2>3
<1>2. CASE ~disabled
  <2>1. disk.status = "enabled"
    BY <1>2, <1>i DEF ViewsTell
  <2>2. Committed(a) = IF disk.latest[a] = Empty THEN Absent ELSE disk.latest[a]
    BY <2>1, <1>i DEF ViewsTell
  <2> QED BY <2>2, <1>2, <1>a DEF PendingGet, Committed
<1> QED BY <1>1, <1>2

\* The puts that count are those in the queue, and those in the batch unless it will
\* be cleared first.
LEMMA EffectivePuts ==
  ASSUME Types
  PROVE  /\ \A p : p \in Effective <=> \/ \E i \in 1..Len(queue) : queue[i] = p /\ p.do = "put"
                                       \/ ~Clearing /\ \E i \in 1..Len(batch) : batch[i] = p
         /\ \A p \in Effective : p \in PutTask
<1>1. batch \in Seq(PutTask) /\ queue \in Seq(Task)
  BY DEF Types, BlockTypes
<1>2. \A p : p \in ToSet(batch) <=> \E i \in 1..Len(batch) : batch[i] = p
  BY <1>1 DEF ToSet
<1>3. \A p : p \in Effective <=> \/ \E i \in 1..Len(queue) : queue[i] = p /\ p.do = "put"
                                 \/ ~Clearing /\ \E i \in 1..Len(batch) : batch[i] = p
  BY <1>2 DEF Effective
<1>4. \A i \in 1..Len(queue) : queue[i] \in Task
  BY <1>1
<1>5. \A i \in 1..Len(batch) : batch[i] \in PutTask
  BY <1>1
<1> QED BY <1>3, <1>4, <1>5, TaskKinds

\* A put of the execution thread preserves the inductive invariant.
LEMMA PutStep ==
  ASSUME IInv, NEW a \in Accounts, NEW kind \in Kinds, Put(a, kind)
  PROVE  IInv'
<1>i. Types /\ Phases /\ PutsTell /\ DiskTells /\ NodesKept /\ ViewsTell /\ HandlesShow
  BY DEF IInv
<1>n. /\ Blocks \subseteq Nat /\ NIL = -1 /\ LastBlock \in Nat /\ disk.desc \in Int /\ disk.desc >= -1
      /\ Floor \in Nat
  BY <1>i, Numbers
<1>e. exec = "pending"
  BY DEF Put
<1>b. /\ pending \in Blocks /\ Preparing(Len(queue)) /\ disk.desc = pending - 1 /\ state_desc = pending - 1
  BY <1>i, <1>e DEF Phases
<1>c. contents \in [Blocks -> [Accounts -> Value \cup {Absent}]]
  BY <1>i DEF Types, DiskTypes
<1>o. PICK old : old = Before(pending, a)
  OBVIOUS
<1>g. PendingGet(a) = old
  <2>1. PendingGet(a) = IF state_desc = NIL THEN Absent ELSE contents[state_desc][a]
    BY <1>e, PendingReads
  <2>2. state_desc = NIL <=> pending = 0
    BY <1>b, <1>n
  <2> QED BY <2>1, <2>2, <1>o, <1>b DEF Before
<1>w. PICK val : val = Written(old, kind)
  OBVIOUS
<1>t. PICK t : t = [do |-> "put", acc |-> a, kind |-> kind, blk |-> pending, val |-> val]
  OBVIOUS
<1>p. PICK new : new = IF kind = "delete" THEN Absent ELSE val
  OBVIOUS
<1>a. /\ queue' = Append(queue, t) /\ contents' = [contents EXCEPT ![pending][a] = new]
      /\ contents[pending][a] = old /\ (kind = "delete" => old # Absent)
      /\ UNCHANGED <<disk, batch, state_desc, pending, exec, prune, pool, reader, wrong,
                     disabled, opening, stops>>
  BY <1>g, <1>o, <1>w, <1>t, <1>p DEF Put, Submit, Before, readVars, openVars
<1>h. old \in Value \cup {Absent}
  <2>1. pending # 0 => pending - 1 \in Blocks
    BY <1>b, <1>n DEF Blocks
  <2> QED BY <2>1, <1>o, <1>c DEF Before
<1>v. /\ val \in Value \cup {Empty}
      /\ kind = "delete" => val = Empty /\ new = Absent
      /\ kind # "delete" => val \in Value /\ new = val /\ new # Absent /\ val.by = pending
      /\ kind = "storage" => new.root = pending
      /\ kind = "value" => new.root = IF old = Absent THEN NIL ELSE old.root
  <2>1. CASE kind = "delete"
    BY <2>1, <1>w, <1>p DEF Written
  <2>2. CASE kind # "delete"
    <3> DEFINE rt == IF kind = "storage" THEN pending ELSE IF old = Absent THEN NIL ELSE old.root
    <3>1. rt \in Blocks \cup {NIL}
      BY <1>h, <1>b DEF Value
    <3>2. val = [by |-> pending, root |-> rt]
      BY <2>2, <1>w DEF Written
    <3> HIDE DEF rt
    <3>3. val \in Value /\ val.by = pending /\ val.root = rt
      BY <3>1, <3>2, <1>b DEF Value
    <3>4. new = val /\ val # Absent
      BY <3>3, <2>2, <1>p, StateDbAssumption
    <3> QED BY <3>3, <3>4, <2>2 DEF rt, Kinds
  <2> QED BY <2>1, <2>2
<1>k. t \in PutTask /\ t \in Task /\ t.do = "put" /\ t.acc = a /\ t.kind = kind /\ t.blk = pending /\ t.val = val
  <2>1. t \in PutTask
    BY <1>t, <1>v, <1>b DEF PutTask
  <2> QED BY <2>1, <1>t, TaskKinds
<1>q. /\ queue \in Seq(Task) /\ queue' \in Seq(Task) /\ queue' # <<>> /\ Len(queue') = Len(queue) + 1
      /\ queue'[Len(queue) + 1] = t /\ \A j \in 1..Len(queue) : queue'[j] = queue[j]
  BY <1>a, <1>k, <1>i, QueueAppend DEF Types, BlockTypes
<1>l. Len(queue) \in Nat /\ \A j \in 1..Len(queue') : j \in 1..Len(queue) \/ j = Len(queue) + 1
  BY <1>q
<1>m. /\ \A b \in Blocks : b # pending => contents'[b] = contents[b]
      /\ contents'[pending][a] = new
      /\ \A c \in Accounts : c # a => contents'[pending][c] = contents[pending][c]
      /\ contents' \in [Blocks -> [Accounts -> Value \cup {Absent}]]
  <2>1. new \in Value \cup {Absent}
    BY <1>v, <1>p
  <2> QED BY <2>1, <1>a, <1>b, <1>c
<1>1. Types'
  <2>1. DiskTypes' /\ ReadTypes'
    BY <1>a, <1>m, <1>i DEF Types, DiskTypes, ReadTypes
  <2>2. BlockTypes'
    BY <1>a, <1>q, <1>i DEF Types, BlockTypes
  <2> QED BY <2>1, <2>2 DEF Types
<1>2. Phases'
  <2>1. Preparing(Len(queue))'
    BY <1>q, <1>l, <1>k, <1>b DEF Preparing
  <2> QED BY <1>a, <1>b, <1>e, <1>i, <2>1 DEF Phases
<1>3. PutsTell'
  <2>1. Clearing' <=> Clearing
    <3>1. CASE queue = <<>>
      BY <3>1, <1>q, <1>k DEF Clearing
    <3>2. CASE queue # <<>>
      BY <3>2, <1>q DEF Clearing
    <3> QED BY <3>1, <3>2
  <2>2. \A p : p \in Effective' <=> p \in Effective \/ p = t
    <3>1. \A p : p \in Effective' <=> \/ \E j \in 1..Len(queue') : queue'[j] = p /\ p.do = "put"
                                      \/ ~Clearing' /\ \E j \in 1..Len(batch') : batch'[j] = p
      <4>1. batch' \in Seq(PutTask)
        BY <1>1 DEF Types, BlockTypes
      <4> QED BY <4>1 DEF Effective, ToSet
    <3>2. \A p : (\E j \in 1..Len(queue') : queue'[j] = p /\ p.do = "put")
                   <=> (\E j \in 1..Len(queue) : queue[j] = p /\ p.do = "put") \/ p = t
      BY <1>q, <1>l, <1>k
    <3>3. \A p : p \in Effective <=> \/ \E j \in 1..Len(queue) : queue[j] = p /\ p.do = "put"
                                     \/ ~Clearing /\ \E j \in 1..Len(batch) : batch[j] = p
      BY <1>i, EffectivePuts
    <3> QED BY <3>1, <3>2, <3>3, <2>1, <1>a
  <2>3. \A c \in Accounts : Before(pending, c)' = Before(pending, c)
    <3>1. pending # 0 => pending - 1 \in Blocks /\ pending - 1 # pending
      BY <1>b, <1>n DEF Blocks
    <3> QED BY <3>1, <1>m, <1>a DEF Before
  <2>4. /\ \A p \in Effective : Tells(p) /\ p \in PutTask
        /\ \A p, q \in Effective : p.acc = q.acc => p = q
        /\ \A c \in Accounts :
                 (\A p \in Effective : p.acc # c) => contents[pending][c] = Before(pending, c)
    BY <1>i, <1>e, EffectivePuts DEF PutsTell, Open
  <2>5. \A p \in Effective : p.acc # a /\ p.acc \in Accounts
    BY <2>4, <1>a, <1>o DEF Tells, PutTask
  <2>6. new # old
    <3>1. CASE kind = "delete"
      BY <3>1, <1>v, <1>a
    <3>2. CASE kind # "delete" /\ old # Absent
      <4>1. pending # 0 /\ old = contents[pending - 1][a] /\ pending - 1 \in Blocks
        BY <3>2, <1>o, <1>b, <1>n DEF Before, Blocks
      <4>2. old.by <= pending - 1 /\ old.by \in Nat
        <5>1. old.by <= pending - 1
          BY <4>1, <3>2, <1>i DEF DiskTells, Fresh
        <5>2. old.by \in Blocks
          BY <3>2, <1>h DEF Value
        <5> QED BY <5>1, <5>2, <1>n
      <4> QED BY <4>2, <3>2, <1>v, <1>b, <1>n
    <3>3. CASE kind # "delete" /\ old = Absent
      BY <3>3, <1>v
    <3> QED BY <3>1, <3>2, <3>3
  <2>7. Tells(t)'
    <3>1. t.acc = a /\ contents'[pending'][t.acc] = new /\ Before(pending, t.acc)' = old /\ pending' = pending
      BY <1>k, <1>m, <1>a, <2>3, <1>o
    <3> QED BY <3>1, <2>6, <1>k, <1>v, <1>a DEF Tells, Kinds
  <2>8. ASSUME NEW p \in Effective PROVE Tells(p)'
    <3>1. contents'[pending'][p.acc] = contents[pending][p.acc] /\ Before(pending, p.acc)' = Before(pending, p.acc)
          /\ pending' = pending
      BY <2>5, <2>3, <1>m, <1>a
    <3> QED BY <3>1, <2>4 DEF Tells
  <2>9. ASSUME NEW c \in Accounts, \A p \in Effective' : p.acc # c
        PROVE  contents'[pending'][c] = Before(pending, c)'
    <3>1. c # a /\ \A p \in Effective : p.acc # c
      BY <2>9, <2>2, <1>k
    <3> QED BY <3>1, <2>4, <2>3, <1>m, <1>a
  <2>10. \A p, q \in Effective' : p.acc = q.acc => p = q
    BY <2>2, <2>4, <2>5, <1>k
  <2> QED BY <2>2, <2>7, <2>8, <2>9, <2>10 DEF PutsTell
<1>u. Floor' = Floor /\ \A b \in Floor..disk.desc : b \in Blocks /\ b # pending
  BY <1>a, <1>b, <1>n DEF Floor, Blocks
<1>4. DiskTells'
  <2>1. \A b \in Blocks : Fresh(b)'
    <3> SUFFICES ASSUME NEW b \in Blocks, NEW c \in Accounts, contents'[b][c] # Absent
                 PROVE  contents'[b][c].by <= b
      BY DEF Fresh
    <3>1. CASE b = pending /\ c = a
      BY <3>1, <1>m, <1>v, <1>b, <1>n
    <3>2. CASE ~(b = pending /\ c = a)
      BY <3>2, <1>m, <1>i DEF DiskTells, Fresh
    <3> QED BY <3>1, <3>2
  <2> QED BY <2>1, <1>u, <1>m, <1>a, <1>i, DiskFrame
<1>5. NodesKept'
  BY <1>u, <1>m, <1>a, <1>i, NodesFrame
<1>6. ViewsTell'
  <2>1. disk.desc # NIL => disk.desc \in Blocks /\ disk.desc # pending
    <3>1. disk.desc \in Blocks \cup {NIL}
      BY <1>i DEF Types, DiskTypes, DiskRecord, PruneRecord, Steps
    <3> QED BY <3>1, <1>b, <1>n
  <2>2. disk.desc # NIL => contents'[disk.desc] = contents[disk.desc]
    BY <2>1, <1>m
  <2> QED BY <2>2, <1>a, <1>i, ViewsFrame
<1>7. HandlesShow'
  <2>1. Seen' = disk.desc /\ Seen = disk.desc
    <3>1. queue # <<>> => queue[1].do # "publish" /\ queue'[1] = queue[1]
      BY <1>b, <1>q DEF Preparing
    <3>2. queue = <<>> => queue'[1].do # "publish"
      BY <1>q, <1>k
    <3> QED BY <3>1, <3>2, <1>a, <1>b DEF Seen
  <2>2. \A b \in Floor'..Seen' : b \in Floor..Seen /\ contents'[b] = contents[b]
    BY <2>1, <1>u, <1>m
  <2> QED BY <2>2, <1>a, <1>i, HandlesFrame
<1> QED BY <1>1, <1>2, <1>3, <1>4, <1>5, <1>6, <1>7 DEF IInv

\* Steps of the block execution and of the writer that leave the database alone.
LEMMA QuietFrame ==
  ASSUME IInv, UNCHANGED <<disk, contents, prune, disabled, opening>>, exec' # "stopped" => exec # "stopped"
  PROVE  DiskTypes' /\ DiskTells' /\ NodesKept' /\ ViewsTell' /\ Floor' = Floor
<1>i. Types /\ Phases /\ PutsTell /\ DiskTells /\ NodesKept /\ ViewsTell /\ HandlesShow
  BY DEF IInv
<1>a. disk' = disk /\ contents' = contents /\ prune' = prune /\ disabled' = disabled /\ opening' = opening
  OBVIOUS
<1>f. Floor' = Floor
  BY <1>a DEF Floor
<1>1. DiskTypes'
  BY <1>a, <1>i DEF Types, DiskTypes
<1>2. DiskTells'
  <2>1. \A b \in Blocks : Fresh(b)'
    BY <1>a, <1>i DEF DiskTells, Fresh
  <2> QED BY <2>1, <1>a, <1>f, <1>i, DiskFrame
<1>3. NodesKept'
  BY <1>a, <1>f, <1>i, NodesFrame
<1>4. ViewsTell'
  BY <1>a, <1>i, ViewsFrame
<1> QED BY <1>f, <1>1, <1>2, <1>3, <1>4

\* The same iterators when neither the contents nor what they see changes.
LEMMA HandlesQuiet ==
  ASSUME IInv, UNCHANGED <<contents, pool, reader, wrong, state_desc>>, Floor' = Floor, Seen' = Seen,
         exec' = "stopped" => exec = "stopped"
  PROVE  HandlesShow'
<1>i. Types /\ HandlesShow
  BY DEF IInv
<1>a. contents' = contents /\ pool' = pool /\ reader' = reader /\ wrong' = wrong /\ state_desc' = state_desc
  OBVIOUS
<1> QED BY <1>i, <1>a, HandlesFrame

\* The puts tell what they told when they and the contents stay.
LEMMA PutsFrame ==
  ASSUME PutsTell, Effective' = Effective, UNCHANGED <<contents, pending>>, Open' => Open
  PROVE  PutsTell'
<1>a. contents' = contents /\ pending' = pending
  OBVIOUS
<1>1. \A b, c : Before(b, c)' = Before(b, c)
  BY <1>a DEF Before
<1>2. \A p : Tells(p) => Tells(p)'
  BY <1>a, <1>1 DEF Tells, Before
<1> QED BY <1>a, <1>1, <1>2 DEF PutsTell, Before

\* A task that neither puts nor clears, at the end of the queue.
LEMMA EffectiveAppend ==
  ASSUME IInv, NEW t \in Task, t.do \notin {"put", "clear"}, queue' = Append(queue, t), batch' = batch
  PROVE  Effective' = Effective
<1>i. Types
  BY DEF IInv
<1>q. /\ queue \in Seq(Task) /\ queue' \in Seq(Task) /\ queue' # <<>> /\ Len(queue') = Len(queue) + 1
      /\ queue'[Len(queue) + 1] = t /\ \A j \in 1..Len(queue) : queue'[j] = queue[j]
  BY <1>i, QueueAppend DEF Types, BlockTypes
<1>l. Len(queue) \in Nat /\ \A j \in 1..Len(queue') : j \in 1..Len(queue) \/ j = Len(queue) + 1
  BY <1>q
<1>1. Clearing' <=> Clearing
  <2>1. CASE queue = <<>>
    BY <2>1, <1>q DEF Clearing
  <2>2. CASE queue # <<>>
    BY <2>2, <1>q DEF Clearing
  <2> QED BY <2>1, <2>2
<1>2. {queue'[i] : i \in {j \in 1..Len(queue') : queue'[j].do = "put"}}
        = {queue[i] : i \in {j \in 1..Len(queue) : queue[j].do = "put"}}
  BY <1>q, <1>l
<1> QED BY <1>1, <1>2 DEF Effective

\* Commit handing its task to the writer thread preserves the inductive invariant.
LEMMA CommitSubmitStep ==
  ASSUME IInv, CommitSubmit
  PROVE  IInv'
<1>i. Types /\ Phases /\ PutsTell /\ DiskTells /\ NodesKept /\ ViewsTell /\ HandlesShow
  BY DEF IInv
<1>t. PICK t : t = [do |-> "commit", blk |-> pending]
  OBVIOUS
<1>a. /\ exec = "pending" /\ exec' = "join" /\ queue' = Append(queue, t)
      /\ UNCHANGED <<disk, batch, prune, pool, reader, wrong, disabled, opening, stops,
                     state_desc, pending, contents>>
  BY <1>t DEF CommitSubmit, Submit, readVars, openVars, blockVars
<1>b. pending \in Blocks /\ Preparing(Len(queue)) /\ disk.desc = pending - 1 /\ state_desc = pending - 1
  BY <1>i, <1>a DEF Phases
<1>k. t \in Task /\ t.do = "commit" /\ t.blk = pending
  <2>1. t \in CommitTask
    BY <1>t, <1>b DEF CommitTask
  <2> QED BY <2>1, <1>t, TaskKinds
<1>q. /\ queue \in Seq(Task) /\ queue' \in Seq(Task) /\ queue' # <<>> /\ Len(queue') = Len(queue) + 1
      /\ queue'[Len(queue) + 1] = t /\ \A j \in 1..Len(queue) : queue'[j] = queue[j] /\ Len(queue) \in Nat
  BY <1>a, <1>k, <1>i, QueueAppend DEF Types, BlockTypes
<1>f. DiskTypes' /\ DiskTells' /\ NodesKept' /\ ViewsTell' /\ Floor' = Floor
  BY <1>a, QuietFrame
<1>1. Types'
  BY <1>a, <1>f, <1>q, <1>i DEF Types, BlockTypes, ReadTypes
<1>2. Phases'
  <2>1. Len(queue') - 1 = Len(queue) /\ Len(queue') >= 1 /\ queue'[Len(queue')] = t
    BY <1>q
  <2>2. Preparing(Len(queue) - 1)'
    BY <2>1, <1>q, <1>b DEF Preparing
  <2>3. Unwritten(Len(queue))'
    BY <2>1, <2>2, <1>a, <1>b, <1>k DEF Unwritten
  <2> QED BY <2>3, <1>a, <1>b, <1>i DEF Phases
<1>3. PutsTell'
  <2>1. Effective' = Effective
    BY <1>a, <1>k, EffectiveAppend
  <2> QED BY <2>1, <1>a, <1>i, PutsFrame DEF Open
<1>7. HandlesShow'
  <2>1. Seen' = Seen
    <3>1. queue # <<>> => queue[1].do # "publish" /\ queue'[1] = queue[1]
      BY <1>b, <1>q DEF Preparing
    <3>2. queue = <<>> => queue'[1].do # "publish"
      BY <1>q, <1>k
    <3> QED BY <3>1, <3>2, <1>a, <1>q DEF Seen
  <2> QED BY <2>1, <1>a, <1>f, HandlesQuiet
<1> QED BY <1>1, <1>2, <1>3, <1>f, <1>7 DEF IInv

\* Commit queueing the unlock task it waits on preserves the inductive invariant.
LEMMA JoinStep ==
  ASSUME IInv, Join
  PROVE  IInv'
<1>i. Types /\ Phases /\ PutsTell /\ DiskTells /\ NodesKept /\ ViewsTell /\ HandlesShow
  BY DEF IInv
<1>t. PICK t : t = [do |-> "unlock"]
  OBVIOUS
<1>a. /\ exec = "join" /\ exec' = "wait" /\ queue' = Append(queue, t)
      /\ UNCHANGED <<disk, batch, prune, pool, reader, wrong, disabled, opening, stops,
                     state_desc, pending, contents>>
  BY <1>t DEF Join, Submit, readVars, openVars, blockVars
<1>b. pending \in Blocks /\ (Unwritten(Len(queue)) \/ Written_(Len(queue)))
  BY <1>i, <1>a DEF Phases
<1>k. t \in Task /\ t.do = "unlock"
  BY <1>t DEF Task
<1>q. /\ queue \in Seq(Task) /\ queue' \in Seq(Task) /\ queue' # <<>> /\ Len(queue') = Len(queue) + 1
      /\ queue'[Len(queue) + 1] = t /\ \A j \in 1..Len(queue) : queue'[j] = queue[j] /\ Len(queue) \in Nat
  BY <1>a, <1>k, <1>i, QueueAppend DEF Types, BlockTypes
<1>f. DiskTypes' /\ DiskTells' /\ NodesKept' /\ ViewsTell' /\ Floor' = Floor
  BY <1>a, QuietFrame
<1>1. Types'
  BY <1>a, <1>f, <1>q, <1>i DEF Types, BlockTypes, ReadTypes
<1>2. Phases'
  <2>1. Len(queue') - 1 = Len(queue) /\ Len(queue') >= 1 /\ queue'[Len(queue')] = t
    BY <1>q
  <2>2. ASSUME NEW n \in Nat, n = Len(queue), Unwritten(n) PROVE Unwritten(n)'
    <3>1. Preparing(n - 1)'
      BY <2>2, <1>q DEF Preparing, Unwritten
    <3> QED BY <3>1, <2>2, <1>q, <1>a DEF Unwritten
  <2>3. ASSUME NEW n \in Nat, n = Len(queue), Written_(n) PROVE Written_(n)'
    BY <2>3, <1>q, <1>a DEF Written_
  <2>4. PICK n \in Nat : n = Len(queue)
    BY <1>q
  <2>5. Unwritten(n)' \/ Written_(n)'
    BY <2>2, <2>3, <2>4, <1>b
  <2>6. n = Len(queue') - 1
    BY <2>1, <2>4
  <2>7. (Unwritten(Len(queue) - 1) \/ Written_(Len(queue) - 1))'
    BY <2>5, <2>6
  <2> QED BY <2>1, <2>7, <1>k, <1>a, <1>b, <1>i DEF Phases
<1>3. PutsTell'
  <2>1. Effective' = Effective
    BY <1>a, <1>k, EffectiveAppend
  <2> QED BY <2>1, <1>a, <1>i, PutsFrame DEF Open
<1>7. HandlesShow'
  <2>1. Seen' = Seen
    <3>1. CASE queue # <<>>
      BY <3>1, <1>q, <1>a DEF Seen
    <3>2. CASE queue = <<>>
      BY <3>2, <1>q, <1>k, <1>a DEF Seen
    <3> QED BY <3>1, <3>2
  <2> QED BY <2>1, <1>a, <1>f, HandlesQuiet
<1> QED BY <1>1, <1>2, <1>3, <1>f, <1>7 DEF IInv

\* Commit handing over the task that clears the batch preserves the inductive invariant.
LEMMA ClearSubmitStep ==
  ASSUME IInv, ClearSubmit
  PROVE  IInv'
<1>i. Types /\ Phases /\ PutsTell /\ DiskTells /\ NodesKept /\ ViewsTell /\ HandlesShow
  BY DEF IInv
<1>t. PICK t : t = [do |-> "clear"]
  OBVIOUS
<1>a. /\ exec = "joined" /\ exec' = "idle" /\ queue' = Append(queue, t)
      /\ UNCHANGED <<disk, batch, prune, pool, reader, wrong, disabled, opening, stops,
                     state_desc, pending, contents>>
  BY <1>t DEF ClearSubmit, Submit, readVars, openVars, blockVars
<1>b. queue = <<>> /\ pending \in Blocks /\ disk.desc = pending /\ state_desc = pending
  BY <1>i, <1>a DEF Phases, Written_
<1>k. t \in Task /\ t.do = "clear"
  BY <1>t DEF Task
<1>q. queue' \in Seq(Task) /\ queue' # <<>> /\ Len(queue') = 1 /\ queue'[1] = t
  BY <1>a, <1>b, <1>k
<1>f. DiskTypes' /\ DiskTells' /\ NodesKept' /\ ViewsTell' /\ Floor' = Floor
  BY <1>a, QuietFrame
<1>1. Types'
  BY <1>a, <1>f, <1>q, <1>i DEF Types, BlockTypes, ReadTypes
<1>2. Phases'
  BY <1>q, <1>k, <1>a, <1>b, <1>i DEF Phases
<1>3. PutsTell'
  BY <1>a DEF PutsTell, Open
<1>7. HandlesShow'
  <2>1. Seen' = Seen
    BY <1>q, <1>k, <1>a, <1>b DEF Seen
  <2> QED BY <2>1, <1>a, <1>f, HandlesQuiet
<1> QED BY <1>1, <1>2, <1>3, <1>f, <1>7 DEF IInv
-----------------------------------------------------------------------------
(* The writer thread.                                                      *)

\* The first task of the queue tells the phase of the block.
LEMMA HeadPut ==
  ASSUME IInv, queue # <<>>, queue[1].do \in {"put", "clear"}
  PROVE  /\ exec \in {"idle", "pending", "join", "wait"}
         /\ exec = "idle" => Len(queue) = 1 /\ queue[1].do = "clear"
         /\ exec = "join" => Len(queue) >= 2 /\ Unwritten(Len(queue))
         /\ exec = "wait" => Len(queue) >= 3 /\ Unwritten(Len(queue) - 1)
<1>i. Types /\ Phases /\ queue \in Seq(Task)
  BY DEF IInv, Types, BlockTypes
<1>l. Len(queue) \in Nat /\ Len(queue) >= 1
  BY <1>i
<1>1. exec \in {"idle", "pending", "join", "wait"}
  BY <1>i DEF Types, BlockTypes, Phases
<1>2. exec = "idle" => Len(queue) = 1 /\ queue[1].do = "clear"
  BY <1>i DEF Phases
<1>3. ASSUME exec = "join" PROVE Len(queue) >= 2 /\ Unwritten(Len(queue))
  <2>1. Unwritten(Len(queue)) \/ Written_(Len(queue))
    BY <1>3, <1>i DEF Phases
  <2>2. ~Written_(Len(queue))
    BY <1>l DEF Written_
  <2>3. Len(queue) # 1
    BY <2>1, <2>2 DEF Unwritten
  <2>4. Len(queue) >= 2
    <3>1. \A n \in Nat : n >= 1 /\ n # 1 => n >= 2
      OBVIOUS
    <3> QED BY <2>3, <1>l, <3>1
  <2>5. Unwritten(Len(queue))
    BY <2>1, <2>2
  <2> QED BY <2>4, <2>5
<1>4. ASSUME exec = "wait" PROVE Len(queue) >= 3 /\ Unwritten(Len(queue) - 1)
  <2>1. (Unwritten(Len(queue) - 1) \/ Written_(Len(queue) - 1)) /\ queue[Len(queue)].do = "unlock"
    BY <1>4, <1>i DEF Phases
  <2>2. Len(queue) # 1
    BY <2>1
  <2>3. ~Written_(Len(queue) - 1)
    BY <2>2, <1>l DEF Written_
  <2>4. Len(queue) # 2
    BY <2>1, <2>3 DEF Unwritten
  <2>5. Len(queue) >= 3
    <3>1. \A n \in Nat : n >= 1 /\ n # 1 /\ n # 2 => n >= 3
      OBVIOUS
    <3> QED BY <2>2, <2>4, <1>l, <3>1
  <2>6. Unwritten(Len(queue) - 1)
    BY <2>1, <2>3
  <2> QED BY <2>5, <2>6
<1> QED BY <1>1, <1>2, <1>3, <1>4

\* When the writer is at the commit task, or at the unlock behind it, every put of the
\* block has been taken and the execution thread is inside Commit.
LEMMA HeadCommit ==
  ASSUME IInv, queue # <<>>, queue[1].do \in {"commit", "invalidate", "publish", "unlock"}
  PROVE  /\ exec \in {"join", "wait"} /\ pending \in Blocks
         /\ exec = "wait" => queue[Len(queue)].do = "unlock"
         /\ queue[1].do # "unlock" => /\ Len(queue) = IF exec = "join" THEN 1 ELSE 2
                                      /\ queue[1].blk = pending /\ state_desc = pending - 1
                                      /\ disk.desc = IF queue[1].do = "commit" THEN pending - 1 ELSE pending
         /\ queue[1].do = "unlock" => Len(queue) = 1 /\ exec = "wait" /\ state_desc = pending /\ disk.desc = pending
<1>i. Types /\ Phases /\ queue \in Seq(Task) /\ exec \in {"stopped", "idle", "pending", "join", "wait", "joined"}
  BY DEF IInv, Types, BlockTypes
<1>l. Len(queue) \in Nat /\ Len(queue) >= 1
  BY <1>i
<1>1. exec # "stopped" /\ exec # "idle" /\ exec # "joined"
  BY <1>i DEF Phases
<1>2. exec # "pending"
  <2>1. ASSUME Preparing(Len(queue)) PROVE FALSE
    BY <2>1, <1>l DEF Preparing
  <2> QED BY <2>1, <1>i DEF Phases
<1>3. ASSUME NEW n \in Nat, Unwritten(n) PROVE n = 1 /\ queue[1].do = "commit"
  <2>1. n # 1 => n - 1 >= 1 /\ 1 \in 1..(n - 1)
    BY <1>3 DEF Unwritten
  <2>2. n = 1
    BY <2>1, <1>3 DEF Unwritten, Preparing
  <2> QED BY <2>2, <1>3 DEF Unwritten
<1>4. CASE exec = "join"
  <2>1. pending \in Blocks /\ (Unwritten(Len(queue)) \/ Written_(Len(queue)))
    BY <1>4, <1>i DEF Phases
  <2>2. CASE Unwritten(Len(queue))
    <3>1. Len(queue) = 1 /\ queue[1].do = "commit"
      BY <2>2, <1>3, <1>l
    <3> QED BY <3>1, <2>1, <2>2, <1>4 DEF Unwritten
  <2>3. CASE Written_(Len(queue))
    BY <2>1, <2>3, <1>4, <1>l DEF Written_
  <2> QED BY <2>1, <2>2, <2>3
<1>5. CASE exec = "wait"
  <2>1. pending \in Blocks /\ (Unwritten(Len(queue) - 1) \/ Written_(Len(queue) - 1)) /\ queue[Len(queue)].do = "unlock"
    BY <1>5, <1>i DEF Phases
  <2>2. CASE Unwritten(Len(queue) - 1)
    <3>1. Len(queue) - 1 \in Nat
      BY <1>l
    <3>2. Len(queue) - 1 = 1 /\ queue[1].do = "commit"
      BY <2>2, <1>3, <3>1
    <3>3. Len(queue) = 2
      BY <3>2, <1>l
    <3>4. queue[1].blk = pending /\ disk.desc = pending - 1 /\ state_desc = pending - 1
      BY <3>2, <2>2 DEF Unwritten
    <3> QED BY <3>2, <3>3, <3>4, <2>1, <1>5
  <2>3. CASE Written_(Len(queue) - 1)
    <3>1. CASE Len(queue) - 1 = 0
      <4>1. Len(queue) = 1
        BY <3>1, <1>l
      <4> QED BY <4>1, <2>1, <2>3, <1>5 DEF Written_
    <3>2. CASE Len(queue) - 1 # 0
      <4>1. Len(queue) - 1 = 1 /\ Len(queue) = 2
        BY <3>2, <2>3, <1>l DEF Written_
      <4> QED BY <4>1, <2>1, <2>3, <1>5 DEF Written_
    <3> QED BY <3>1, <3>2
  <2> QED BY <2>1, <2>2, <2>3
<1> QED BY <1>1, <1>2, <1>4, <1>5, <1>i

\* The phases after the first put, or the clearing of the batch, is done.
LEMMA TailPrepared ==
  ASSUME IInv, queue # <<>>, queue[1].do \in {"put", "clear"}, queue' = Tail(queue),
         UNCHANGED <<exec, pending, state_desc, disk, prune>>, exec = "idle" => batch' = <<>>
  PROVE  /\ Phases' /\ Seen' = Seen /\ ~Clearing' /\ queue' \in Seq(Task)
         /\ Len(queue) \in Nat /\ Len(queue') = Len(queue) - 1
         /\ \A j \in 1..Len(queue') : queue'[j] = queue[j + 1] /\ j + 1 \in 1..Len(queue)
<1>i. Types /\ Phases /\ queue \in Seq(Task)
  BY DEF IInv, Types, BlockTypes
<1>a. exec' = exec /\ pending' = pending /\ state_desc' = state_desc /\ disk' = disk /\ prune' = prune
  OBVIOUS
<1>h. /\ exec \in {"idle", "pending", "join", "wait"}
      /\ exec = "idle" => Len(queue) = 1 /\ queue[1].do = "clear"
      /\ exec = "join" => Len(queue) >= 2 /\ Unwritten(Len(queue))
      /\ exec = "wait" => Len(queue) >= 3 /\ Unwritten(Len(queue) - 1)
  BY HeadPut
<1>q. /\ Len(queue) \in Nat /\ Len(queue) >= 1 /\ queue' \in Seq(Task) /\ Len(queue') = Len(queue) - 1
      /\ \A j \in 1..(Len(queue) - 1) : queue'[j] = queue[j + 1]
  BY <1>i, QueueTail
<1>r. \A j \in 1..Len(queue') : queue'[j] = queue[j + 1] /\ j + 1 \in 1..Len(queue)
  BY <1>q
<1>1. ASSUME NEW n \in Nat, n <= Len(queue), n >= 1, Preparing(n)
      PROVE  /\ \A k : k = n - 1 => Preparing(k)'
             /\ \A j \in 1..(n - 1) : queue'[j].do = "put"
  <2>1. \A j \in 1..(n - 1) : j \in 1..(Len(queue) - 1) /\ j + 1 \in 1..n /\ j + 1 # 1
    BY <1>1, <1>q
  <2>2. \A j \in 1..(n - 1) : queue'[j].do = "put"
    BY <2>1, <1>1, <1>q DEF Preparing
  <2> QED BY <2>2 DEF Preparing
<1>2. ASSUME NEW n \in Nat, n <= Len(queue), n >= 2, Unwritten(n)
      PROVE  /\ \A k : k = n - 1 => Unwritten(k)'
             /\ queue'[1].do \in {"put", "commit"}
  <2>1. n - 1 \in Nat /\ n - 1 >= 1 /\ n - 1 <= Len(queue) /\ n - 1 \in 1..(Len(queue) - 1) /\ (n - 1) + 1 = n
    BY <1>2, <1>q
  <2>2. Preparing(n - 1)
    BY <1>2 DEF Unwritten
  <2>3. /\ \A k : k = (n - 1) - 1 => Preparing(k)'
        /\ \A j \in 1..((n - 1) - 1) : queue'[j].do = "put"
    BY <2>1, <2>2, <1>1
  <2>4. queue'[n - 1] = queue[n]
    BY <2>1, <1>q
  <2>5. \A k : k = n - 1 => Unwritten(k)'
    BY <2>1, <2>3, <2>4, <1>2, <1>a DEF Unwritten
  <2>6. queue'[1].do \in {"put", "commit"}
    <3>1. CASE n = 2
      <4>1. n - 1 = 1
        BY <3>1
      <4> QED BY <4>1, <2>4, <1>2 DEF Unwritten
    <3>2. CASE n # 2
      <4>1. 1 \in 1..((n - 1) - 1)
        BY <3>2, <1>2
      <4> QED BY <4>1, <2>3
    <3> QED BY <3>1, <3>2
  <2> QED BY <2>5, <2>6
<1>k. Seen = state_desc
  BY DEF Seen
<1>3. CASE exec = "idle"
  <2>1. Len(queue') = 0 /\ queue' = <<>>
    BY <1>3, <1>h, <1>q
  <2>2. Phases'
    BY <2>1, <1>3, <1>a, <1>i DEF Phases
  <2> QED BY <2>1, <2>2, <1>q, <1>r, <1>k, <1>a DEF Seen, Clearing
<1>4. CASE exec = "pending"
  <2>1. pending \in Blocks /\ Preparing(Len(queue)) /\ disk.desc = pending - 1 /\ state_desc = pending - 1
    BY <1>4, <1>i DEF Phases
  <2>2. PICK n \in Nat : n = Len(queue)
    BY <1>q
  <2>3. /\ \A k : k = n - 1 => Preparing(k)'
        /\ \A j \in 1..(n - 1) : queue'[j].do = "put"
    BY <2>1, <2>2, <1>1, <1>q
  <2>4. Preparing(Len(queue))'
    BY <2>2, <2>3, <1>q
  <2>5. queue' # <<>> => queue'[1].do = "put"
    <3>1. queue' # <<>> => Len(queue') >= 1
      BY <1>q
    <3>2. queue' # <<>> => 1 \in 1..(n - 1)
      BY <3>1, <2>2, <1>q
    <3> QED BY <3>2, <2>3
  <2>6. Phases'
    BY <2>1, <2>4, <1>4, <1>a, <1>i DEF Phases
  <2> QED BY <2>5, <2>6, <1>q, <1>r, <1>k, <1>a DEF Seen, Clearing
<1>5. CASE exec = "join"
  <2>1. pending \in Blocks /\ Len(queue) >= 2 /\ Unwritten(Len(queue))
    BY <1>5, <1>h, <1>i DEF Phases
  <2>2. PICK n \in Nat : n = Len(queue)
    BY <1>q
  <2>3. n >= 2 /\ n <= Len(queue) /\ Unwritten(n)
    BY <2>1, <2>2
  <2>4. (\A k : k = n - 1 => Unwritten(k)') /\ queue'[1].do \in {"put", "commit"}
    BY <2>3, <1>2
  <2>5. Unwritten(Len(queue))'
    BY <2>2, <2>4, <1>q
  <2>6. Phases'
    BY <2>1, <2>5, <1>5, <1>a, <1>i DEF Phases
  <2> QED BY <2>4, <2>6, <1>q, <1>r, <1>k, <1>a DEF Seen, Clearing
<1>6. CASE exec = "wait"
  <2>1. pending \in Blocks /\ Len(queue) >= 3 /\ Unwritten(Len(queue) - 1) /\ queue[Len(queue)].do = "unlock"
    BY <1>6, <1>h, <1>i DEF Phases
  <2>2. PICK n \in Nat : n = Len(queue) - 1
    <3>1. \A m \in Nat : m >= 1 => m - 1 \in Nat
      OBVIOUS
    <3> QED BY <1>q, <3>1
  <2>3. n >= 2 /\ n <= Len(queue) /\ Unwritten(n)
    BY <2>1, <2>2, <1>q
  <2>4. (\A k : k = n - 1 => Unwritten(k)') /\ queue'[1].do \in {"put", "commit"}
    BY <2>3, <1>2
  <2>5. Len(queue') - 1 = n - 1 /\ Len(queue') >= 1 /\ Len(queue') \in 1..Len(queue') /\ Len(queue') + 1 = Len(queue)
    BY <2>2, <2>3, <1>q
  <2>6. Unwritten(Len(queue) - 1)' /\ queue'[Len(queue')].do = "unlock"
    BY <2>1, <2>5, <2>4, <1>r
  <2>7. Phases'
    BY <2>1, <2>5, <2>6, <1>6, <1>a, <1>i DEF Phases
  <2> QED BY <2>4, <2>7, <1>q, <1>r, <1>k, <1>a DEF Seen, Clearing
<1> QED BY <1>3, <1>4, <1>5, <1>6, <1>h

\* The writer taking a put into its batch preserves the inductive invariant.
LEMMA WriterPutStep ==
  ASSUME IInv, WriterPut
  PROVE  IInv'
<1>i. Types /\ Phases /\ PutsTell /\ DiskTells /\ NodesKept /\ ViewsTell /\ HandlesShow
  BY DEF IInv
<1>a. /\ queue # <<>> /\ Head(queue).do = "put" /\ batch' = Append(batch, Head(queue)) /\ queue' = Tail(queue)
      /\ UNCHANGED <<disk, exec, prune, pool, reader, wrong, disabled, opening, stops,
                     state_desc, pending, contents>>
  BY DEF WriterPut, Doing, readVars, openVars, blockVars
<1>b. batch \in Seq(PutTask) /\ queue \in Seq(Task)
  BY <1>i DEF Types, BlockTypes
<1>h. Head(queue) = queue[1] /\ queue[1] \in PutTask /\ queue[1].do = "put"
  BY <1>a, <1>b, QueueTail, TaskKinds
<1>j. exec # "idle"
  BY <1>a, <1>h, HeadPut
<1>q. /\ Phases' /\ Seen' = Seen /\ ~Clearing' /\ queue' \in Seq(Task)
      /\ Len(queue) \in Nat /\ Len(queue') = Len(queue) - 1
      /\ \A j \in 1..Len(queue') : queue'[j] = queue[j + 1] /\ j + 1 \in 1..Len(queue)
  BY <1>a, <1>h, <1>j, TailPrepared
<1>c. /\ batch' \in Seq(PutTask) /\ Len(batch') = Len(batch) + 1 /\ batch'[Len(batch) + 1] = queue[1]
      /\ (\A j \in 1..Len(batch) : batch'[j] = batch[j]) /\ Len(batch) \in Nat
  BY <1>a, <1>b, <1>h, QueueAppend
<1>f. DiskTypes' /\ DiskTells' /\ NodesKept' /\ ViewsTell' /\ Floor' = Floor
  BY <1>a, QuietFrame
<1>1. Types'
  BY <1>a, <1>f, <1>q, <1>c, <1>i DEF Types, BlockTypes, ReadTypes
<1>3. PutsTell'
  <2>1. \A p : p \in Effective' <=> \/ \E j \in 1..Len(queue') : queue'[j] = p /\ p.do = "put"
                                    \/ \E j \in 1..Len(batch') : batch'[j] = p
    <3>1. \A p : p \in ToSet(batch') <=> \E j \in 1..Len(batch') : batch'[j] = p
      BY <1>c DEF ToSet
    <3> QED BY <3>1, <1>q DEF Effective
  <2>2. \A p : p \in Effective <=> \/ \E j \in 1..Len(queue) : queue[j] = p /\ p.do = "put"
                                   \/ \E j \in 1..Len(batch) : batch[j] = p
    <3>1. ~Clearing
      BY <1>h DEF Clearing
    <3> QED BY <3>1, <1>i, EffectivePuts
  <2>3. \A p : (\E j \in 1..Len(batch') : batch'[j] = p)
                 <=> (\E j \in 1..Len(batch) : batch[j] = p) \/ p = queue[1]
    <3>1. \A j \in 1..Len(batch') : j \in 1..Len(batch) \/ j = Len(batch) + 1
      BY <1>c
    <3>2. \A j \in 1..Len(batch) : j \in 1..Len(batch')
      BY <1>c
    <3>3. Len(batch) + 1 \in 1..Len(batch')
      BY <1>c
    <3> QED BY <3>1, <3>2, <3>3, <1>c
  <2>4. \A p : (\E j \in 1..Len(queue) : queue[j] = p /\ p.do = "put")
                 <=> (\E j \in 1..Len(queue') : queue'[j] = p /\ p.do = "put") \/ p = queue[1]
    <3>1. \A j \in 1..Len(queue) : j = 1 \/ \E k \in 1..Len(queue') : j = k + 1
      <4> SUFFICES ASSUME NEW j \in 1..Len(queue), j # 1 PROVE \E k \in 1..Len(queue') : j = k + 1
        OBVIOUS
      <4>1. j - 1 \in 1..Len(queue') /\ j = (j - 1) + 1
        BY <1>q
      <4> QED BY <4>1
    <3>2. 1 \in 1..Len(queue)
      BY <1>a, <1>b
    <3> QED BY <3>1, <3>2, <1>q, <1>h
  <2>5. Effective' = Effective
    BY <2>1, <2>2, <2>3, <2>4
  <2> QED BY <2>5, <1>a, <1>i, PutsFrame DEF Open
<1>7. HandlesShow'
  BY <1>q, <1>a, <1>f, HandlesQuiet
<1> QED BY <1>1, <1>q, <1>3, <1>f, <1>7 DEF IInv

\* The writer clearing its batch preserves the inductive invariant.
LEMMA WriterClearStep ==
  ASSUME IInv, WriterClear
  PROVE  IInv'
<1>i. Types /\ Phases /\ PutsTell /\ DiskTells /\ NodesKept /\ ViewsTell /\ HandlesShow
  BY DEF IInv
<1>a. /\ queue # <<>> /\ Head(queue).do = "clear" /\ batch' = <<>> /\ queue' = Tail(queue)
      /\ UNCHANGED <<disk, exec, prune, pool, reader, wrong, disabled, opening, stops,
                     state_desc, pending, contents>>
  BY DEF WriterClear, Doing, readVars, openVars, blockVars
<1>b. queue \in Seq(Task)
  BY <1>i DEF Types, BlockTypes
<1>h. Head(queue) = queue[1] /\ queue[1].do = "clear"
  BY <1>a, <1>b, QueueTail
<1>q. /\ Phases' /\ Seen' = Seen /\ ~Clearing' /\ queue' \in Seq(Task)
      /\ Len(queue) \in Nat /\ Len(queue') = Len(queue) - 1
      /\ \A j \in 1..Len(queue') : queue'[j] = queue[j + 1] /\ j + 1 \in 1..Len(queue)
  BY <1>a, <1>h, TailPrepared
<1>f. DiskTypes' /\ DiskTells' /\ NodesKept' /\ ViewsTell' /\ Floor' = Floor
  BY <1>a, QuietFrame
<1>1. Types'
  <2>1. batch' \in Seq(PutTask)
    BY <1>a
  <2> QED BY <2>1, <1>a, <1>f, <1>q, <1>i DEF Types, BlockTypes, ReadTypes
<1>3. PutsTell'
  <2>1. \A p : p \in Effective' <=> \E j \in 1..Len(queue') : queue'[j] = p /\ p.do = "put"
    <3>1. ToSet(batch') = {}
      BY <1>a DEF ToSet
    <3> QED BY <3>1 DEF Effective
  <2>2. \A p : p \in Effective <=> \E j \in 1..Len(queue) : queue[j] = p /\ p.do = "put"
    <3>1. Clearing
      BY <1>a, <1>h DEF Clearing
    <3> QED BY <3>1, <1>i, EffectivePuts
  <2>4. \A p : (\E j \in 1..Len(queue) : queue[j] = p /\ p.do = "put")
                 <=> (\E j \in 1..Len(queue') : queue'[j] = p /\ p.do = "put")
    <3>1. \A j \in 1..Len(queue) : j = 1 \/ \E k \in 1..Len(queue') : j = k + 1
      <4> SUFFICES ASSUME NEW j \in 1..Len(queue), j # 1 PROVE \E k \in 1..Len(queue') : j = k + 1
        OBVIOUS
      <4>1. j - 1 \in 1..Len(queue') /\ j = (j - 1) + 1
        BY <1>q
      <4> QED BY <4>1
    <3> QED BY <3>1, <1>q, <1>h
  <2>5. Effective' = Effective
    BY <2>1, <2>2, <2>4
  <2> QED BY <2>5, <1>a, <1>i, PutsFrame DEF Open
<1>7. HandlesShow'
  BY <1>q, <1>a, <1>f, HandlesQuiet
<1> QED BY <1>1, <1>q, <1>3, <1>f, <1>7 DEF IInv

\* The batch has one put for an account that the pending block changed, and it tells
\* the value of that block.
BatchTells ==
    /\ \A p \in ToSet(batch) : p \in PutTask /\ Tells(p)
    /\ \A p, q \in ToSet(batch) : p.acc = q.acc => p = q
    /\ \A a \in Accounts :
         (\A p \in ToSet(batch) : p.acc # a) => contents[pending][a] = Before(pending, a)

\* When the writer comes to the commit, the batch has all the puts.
LEMMA BatchComplete ==
  ASSUME IInv, queue # <<>>, queue[1].do = "commit"
  PROVE  BatchTells
<1>i. Types /\ PutsTell /\ queue \in Seq(Task) /\ batch \in Seq(PutTask)
  BY DEF IInv, Types, BlockTypes
<1>h. /\ exec \in {"join", "wait"} /\ pending \in Blocks
      /\ exec = "wait" => queue[Len(queue)].do = "unlock"
      /\ Len(queue) = IF exec = "join" THEN 1 ELSE 2
      /\ disk.desc = pending - 1
  BY HeadCommit
<1>1. \A j \in 1..Len(queue) : queue[j].do # "put"
  <2>1. CASE exec = "join"
    BY <2>1, <1>h
  <2>2. CASE exec = "wait"
    <3>1. Len(queue) = 2 /\ queue[2].do = "unlock"
      BY <2>2, <1>h
    <3> QED BY <3>1
  <2> QED BY <2>1, <2>2, <1>h
<1>2. ~Clearing
  BY DEF Clearing
<1>3. \A p : p \in Effective <=> p \in ToSet(batch)
  BY <1>1, <1>2 DEF Effective
<1>4. \A p \in ToSet(batch) : p \in PutTask
  BY <1>i DEF ToSet
<1>5. Open
  BY <1>h DEF Open
<1> QED BY <1>3, <1>4, <1>5, <1>i DEF PutsTell, BatchTells

\* A column with the batch under the version of the pending block.
LEMMA VersionedColumn ==
  ASSUME BatchTells, NEW col \in Columns, NEW kinds, pending \in Blocks
  PROVE  /\ \A b \in Blocks, a \in Accounts : b # pending => Versioned(col, kinds)[b][a] = col[b][a]
         /\ \A p \in ToSet(batch) : p.kind \in kinds => Versioned(col, kinds)[pending][p.acc] = p.val
         /\ \A a \in Accounts : (\A p \in ToSet(batch) : p.kind \in kinds => p.acc # a)
                                   => Versioned(col, kinds)[pending][a] = col[pending][a]
         /\ Versioned(col, kinds) \in Columns
<1> DEFINE Ps(b, a) == {p \in Puts(kinds) : p.acc = a /\ p.blk = b}
<1>1. /\ \A b \in Blocks, a \in Accounts :
           Versioned(col, kinds)[b][a] = IF Ps(b, a) = {} THEN col[b][a] ELSE (CHOOSE p \in Ps(b, a) : TRUE).val
      /\ Versioned(col, kinds) = [b \in Blocks |-> [a \in Accounts |->
           IF Ps(b, a) = {} THEN col[b][a] ELSE (CHOOSE p \in Ps(b, a) : TRUE).val]]
  BY DEF Versioned
<1>2. \A p \in ToSet(batch) : p.blk = pending /\ p.acc \in Accounts /\ p.val \in Value \cup {Empty}
  BY DEF BatchTells, Tells, PutTask
<1>3. \A b, a : Ps(b, a) = {p \in ToSet(batch) : p.kind \in kinds /\ p.acc = a /\ p.blk = b}
  BY DEF Puts
<1>4. \A b \in Blocks, a \in Accounts : b # pending => Ps(b, a) = {}
  BY <1>2, <1>3
<1>5. \A p \in ToSet(batch) : p.kind \in kinds => Ps(pending, p.acc) = {p}
  BY <1>2, <1>3 DEF BatchTells
<1>6. \A a \in Accounts : (\A p \in ToSet(batch) : p.kind \in kinds => p.acc # a) => Ps(pending, a) = {}
  BY <1>3
<1>7. \A b, a : Ps(b, a) # {} => (CHOOSE p \in Ps(b, a) : TRUE) \in ToSet(batch)
  <2>1. \A b, a : Ps(b, a) # {} => (CHOOSE p \in Ps(b, a) : TRUE) \in Ps(b, a)
    OBVIOUS
  <2> QED BY <2>1, <1>3
<1>8. \A p : (CHOOSE q \in {p} : TRUE) = p
  OBVIOUS
<1> HIDE DEF Ps
<1>9. ASSUME NEW p \in ToSet(batch), p.kind \in kinds PROVE Versioned(col, kinds)[pending][p.acc] = p.val
  <2>1. Ps(pending, p.acc) = {p} /\ p.acc \in Accounts
    BY <1>9, <1>5, <1>2
  <2>2. (CHOOSE q \in Ps(pending, p.acc) : TRUE) = p /\ Ps(pending, p.acc) # {}
    BY <2>1, <1>8
  <2>3. Versioned(col, kinds)[pending][p.acc] = (CHOOSE q \in Ps(pending, p.acc) : TRUE).val
    BY <2>1, <2>2, <1>1
  <2> QED BY <2>2, <2>3
<1>10. Versioned(col, kinds) \in Columns
  BY <1>1, <1>2, <1>7 DEF Columns, Stored
<1> QED BY <1>1, <1>4, <1>6, <1>9, <1>10

\* The view of most recent values with the batch.
LEMMA MostRecentView ==
  ASSUME BatchTells, NEW col \in [Accounts -> Stored]
  PROVE  /\ \A p \in ToSet(batch) : ~disabled => MostRecent(col, Kinds)[p.acc] = p.val
         /\ \A a \in Accounts : (\A p \in ToSet(batch) : p.acc # a) => MostRecent(col, Kinds)[a] = col[a]
         /\ MostRecent(col, Kinds) \in [Accounts -> Stored]
<1> DEFINE Ps(a) == {p \in Puts(Kinds) : p.acc = a}
<1>1. /\ \A a \in Accounts :
           MostRecent(col, Kinds)[a] = IF Ps(a) = {} \/ disabled THEN col[a] ELSE (CHOOSE p \in Ps(a) : TRUE).val
      /\ MostRecent(col, Kinds) = [a \in Accounts |->
           IF Ps(a) = {} \/ disabled THEN col[a] ELSE (CHOOSE p \in Ps(a) : TRUE).val]
  BY DEF MostRecent
<1>2. \A p \in ToSet(batch) : p.kind \in Kinds /\ p.acc \in Accounts /\ p.val \in Value \cup {Empty}
  BY DEF BatchTells, PutTask
<1>3. \A a : Ps(a) = {p \in ToSet(batch) : p.acc = a}
  BY <1>2 DEF Puts
<1>5. \A p \in ToSet(batch) : Ps(p.acc) = {p}
  <2>1. \A p, q \in ToSet(batch) : p.acc = q.acc => p = q
    BY DEF BatchTells
  <2> QED BY <1>3, <2>1
<1>6. \A a \in Accounts : (\A p \in ToSet(batch) : p.acc # a) => Ps(a) = {}
  BY <1>3
<1>7. \A a : Ps(a) # {} => (CHOOSE p \in Ps(a) : TRUE) \in ToSet(batch)
  <2>1. \A a : Ps(a) # {} => (CHOOSE p \in Ps(a) : TRUE) \in Ps(a)
    OBVIOUS
  <2> QED BY <2>1, <1>3
<1>8. \A p : (CHOOSE q \in {p} : TRUE) = p
  OBVIOUS
<1> HIDE DEF Ps
<1>9. ASSUME NEW p \in ToSet(batch), ~disabled PROVE MostRecent(col, Kinds)[p.acc] = p.val
  <2>1. Ps(p.acc) = {p} /\ p.acc \in Accounts
    BY <1>5, <1>2
  <2>2. (CHOOSE q \in Ps(p.acc) : TRUE) = p /\ Ps(p.acc) # {}
    BY <2>1, <1>8
  <2>3. MostRecent(col, Kinds)[p.acc] = (CHOOSE q \in Ps(p.acc) : TRUE).val
    BY <2>1, <2>2, <1>1, <1>9
  <2> QED BY <2>2, <2>3
<1>10. MostRecent(col, Kinds) \in [Accounts -> Stored]
  BY <1>1, <1>2, <1>7 DEF Stored
<1> QED BY <1>1, <1>6, <1>9, <1>10

\* The values after the write are those of the pending block and the ones before it.
LEMMA WriteShows ==
  ASSUME IInv, BatchTells, pending \in Blocks, disk.desc = pending - 1, NEW vals, NEW slots,
         vals = Versioned(disk.vals, Kinds), slots = Versioned(disk.slots, {"storage"})
  PROVE  /\ Shows(contents, vals, Floor, pending)
         /\ \A v \in Blocks : v > pending => \A a \in Accounts : vals[v][a] = Absent /\ slots[v][a] = Absent
         /\ \A b \in Floor..pending, a \in Accounts :
              contents[b][a] # Absent /\ contents[b][a].root # NIL => Top(slots, a, b, contents[b][a].root)
<1>i. Types /\ DiskTells /\ Phases
  BY DEF IInv
<1>n. /\ Blocks \subseteq Nat /\ NIL = -1 /\ LastBlock \in Nat /\ prune.blk \in Nat /\ Floor \in Nat
      /\ Floor = IF prune.blk = 0 THEN 0 ELSE prune.blk - 1
  BY <1>i, Numbers
<1>p. pending \in Nat /\ \A b \in 0..pending : b \in Blocks
  BY <1>n DEF Blocks
<1>c. /\ contents \in [Blocks -> [Accounts -> Value \cup {Absent}]]
      /\ disk.vals \in Columns /\ disk.slots \in Columns
  BY <1>i DEF Types, DiskTypes, DiskRecord, PruneRecord, Steps
<1>v. /\ \A b \in Blocks, a \in Accounts : b # pending => vals[b][a] = disk.vals[b][a]
      /\ \A p \in ToSet(batch) : vals[pending][p.acc] = p.val
      /\ \A a \in Accounts : (\A p \in ToSet(batch) : p.acc # a) => vals[pending][a] = disk.vals[pending][a]
  <2>1. \A p \in ToSet(batch) : p.kind \in Kinds
    BY DEF BatchTells, PutTask
  <2> QED BY <2>1, <1>c, VersionedColumn
<1>s. /\ \A b \in Blocks, a \in Accounts : b # pending => slots[b][a] = disk.slots[b][a]
      /\ \A p \in ToSet(batch) : p.kind = "storage" => slots[pending][p.acc] = p.val
      /\ \A a \in Accounts : (\A p \in ToSet(batch) : p.kind = "storage" => p.acc # a)
             => slots[pending][a] = disk.slots[pending][a]
  <2>1. \A p : p.kind \in {"storage"} <=> p.kind = "storage"
    OBVIOUS
  <2> QED BY <2>1, <1>c, VersionedColumn
<1>d. \A a \in Accounts : disk.vals[pending][a] = Absent /\ disk.slots[pending][a] = Absent
  BY <1>i, <1>p DEF DiskTells
<1>b. /\ \A b \in Floor..pending : b = pending \/ (b \in Floor..disk.desc /\ b \in Blocks /\ b < pending)
      /\ pending # 0 => pending - 1 \in Floor..disk.desc
  <2>1. prune.blk = 0 \/ prune.blk <= disk.desc
    BY <1>i DEF Phases
  <2>2. \A b \in Floor..pending : b = pending \/ (b \in Floor..disk.desc /\ b \in Blocks /\ b < pending)
    BY <1>n, <1>p DEF Blocks
  <2>3. pending # 0 => pending - 1 \in Floor..disk.desc
    BY <2>1, <1>n, <1>p
  <2> QED BY <2>2, <2>3
<1>e. Empty \notin Value
  BY <1>n DEF Empty, Value
<1>o. \A a \in Accounts : Before(pending, a) # Absent =>
         /\ pending # 0 /\ Before(pending, a) = contents[pending - 1][a] /\ pending - 1 \in Floor..disk.desc
  BY <1>b DEF Before
<1>k. ASSUME NEW a \in Accounts, \A p \in ToSet(batch) : p.acc # a
      PROVE  contents[pending][a] = Before(pending, a)
  BY <1>k DEF BatchTells
<1>1. ASSUME NEW a \in Accounts PROVE Seek(vals, a, pending) = contents[pending][a]
  <2>1. CASE \E p \in ToSet(batch) : p.acc = a
    <3>1. PICK p \in ToSet(batch) : p.acc = a
      BY <2>1
    <3>2. p \in PutTask /\ Tells(p)
      BY DEF BatchTells
    <3>3. vals[pending][a] = p.val /\ p.val \in Value \cup {Empty} /\ p.val # Absent
      BY <3>1, <3>2, <1>v, StateDbAssumption DEF PutTask
    <3>4. Top(vals, a, pending, pending)
      BY <3>3, <1>p DEF Top
    <3>5. Seek(vals, a, pending) = IF p.val = Empty THEN Absent ELSE p.val
      BY <3>3, <3>4, SeekTop
    <3>6. CASE p.kind = "delete"
      BY <3>6, <3>5, <3>2, <3>1 DEF Tells
    <3>7. CASE p.kind # "delete"
      <4>1. p.val = contents[pending][a] /\ contents[pending][a] # Absent
        BY <3>7, <3>2, <3>1 DEF Tells
      <4>2. p.val # Empty
        BY <4>1, <1>c, <1>e
      <4> QED BY <4>1, <4>2, <3>5
    <3> QED BY <3>6, <3>7
  <2>2. CASE \A p \in ToSet(batch) : p.acc # a
    <3>1. vals[pending][a] = Absent /\ contents[pending][a] = Before(pending, a)
      BY <2>2, <1>v, <1>d, <1>k
    <3>2. \A b \in 0..(pending - 1) : disk.vals[b][a] = vals[b][a]
      <4>1. \A b \in 0..(pending - 1) : b \in Blocks /\ b # pending
        BY <1>p
      <4> QED BY <4>1, <1>v
    <3>3. Seek(vals, a, pending) = Seek(disk.vals, a, pending - 1)
      BY <3>1, <3>2, SeekNext
    <3>4. CASE pending = 0
      <4>1. \A b \in 0..(pending - 1) : disk.vals[b][a] = Absent
        BY <3>4
      <4>2. Seek(disk.vals, a, pending - 1) = Absent
        BY <4>1, SeekNone
      <4> QED BY <4>2, <3>3, <3>1, <3>4 DEF Before
    <3>5. CASE pending # 0
      <4>1. Seek(disk.vals, a, pending - 1) = contents[pending - 1][a]
        BY <3>5, <1>b, <1>i DEF DiskTells, Shows
      <4> QED BY <4>1, <3>3, <3>1, <3>5 DEF Before
    <3> QED BY <3>4, <3>5
  <2> QED BY <2>1, <2>2
<1>2. ASSUME NEW a \in Accounts, NEW b \in Floor..disk.desc, b \in Blocks, b < pending
      PROVE  /\ Seek(vals, a, b) = contents[b][a]
             /\ \A m : Top(disk.slots, a, b, m) => Top(slots, a, b, m)
  <2>1. \A v \in 0..b : v \in Blocks /\ v # pending
    BY <1>2, <1>n, <1>p DEF Blocks
  <2>2. \A v \in 0..b : vals[v][a] = disk.vals[v][a] /\ slots[v][a] = disk.slots[v][a]
    BY <2>1, <1>v, <1>s
  <2>3. Seek(vals, a, b) = Seek(disk.vals, a, b)
    BY <2>2, <1>2, SeekSame
  <2>4. Seek(disk.vals, a, b) = contents[b][a]
    BY <1>2, <1>i DEF DiskTells, Shows
  <2> QED BY <2>2, <2>3, <2>4 DEF Top
<1>3. ASSUME NEW a \in Accounts, contents[pending][a] # Absent, contents[pending][a].root # NIL
      PROVE  Top(slots, a, pending, contents[pending][a].root)
  <2>1. CASE \E p \in ToSet(batch) : p.acc = a /\ p.kind = "storage"
    <3>1. PICK p \in ToSet(batch) : p.acc = a /\ p.kind = "storage"
      BY <2>1
    <3>2. p \in PutTask /\ Tells(p)
      BY DEF BatchTells
    <3>3. slots[pending][a] = p.val /\ p.val # Absent /\ contents[pending][a].root = pending
      BY <3>1, <3>2, <1>s, <1>3 DEF Tells
    <3> QED BY <3>3, <1>p DEF Top
  <2>2. CASE \A p \in ToSet(batch) : p.kind = "storage" => p.acc # a
    <3>1. slots[pending][a] = Absent
      BY <2>2, <1>s, <1>d
    <3>2. \A b \in 0..(pending - 1) : disk.slots[b][a] = slots[b][a]
      <4>1. \A b \in 0..(pending - 1) : b \in Blocks /\ b # pending
        BY <1>p
      <4> QED BY <4>1, <1>s
    <3>3. \A m : Top(disk.slots, a, pending - 1, m) => Top(slots, a, pending, m)
      BY <3>1, <3>2, SeekNext
    <3>4. Before(pending, a) # Absent /\ contents[pending][a].root = Before(pending, a).root
      <4>1. CASE \E p \in ToSet(batch) : p.acc = a
        <5>1. PICK p \in ToSet(batch) : p.acc = a
          BY <4>1
        <5>2. p \in PutTask /\ Tells(p)
          BY DEF BatchTells
        <5>3. p.kind = "value"
          BY <5>1, <5>2, <2>2, <1>3 DEF Tells, PutTask, Kinds
        <5> QED BY <5>1, <5>2, <5>3, <1>3 DEF Tells
      <4>2. CASE \A p \in ToSet(batch) : p.acc # a
        BY <4>2, <1>k, <1>3
      <4> QED BY <4>1, <4>2
    <3>5. Top(disk.slots, a, pending - 1, Before(pending, a).root)
      BY <3>4, <1>3, <1>o, <1>i DEF DiskTells
    <3> QED BY <3>3, <3>4, <3>5
  <2> QED BY <2>1, <2>2
<1>4. \A v \in Blocks : v > pending => \A a \in Accounts : vals[v][a] = Absent /\ slots[v][a] = Absent
  <2>1. \A v \in Blocks : v > pending => v # pending /\ v > disk.desc
    BY <1>p, <1>n
  <2> QED BY <2>1, <1>v, <1>s, <1>i DEF DiskTells
<1>5. \A b \in Floor..pending, a \in Accounts :
              contents[b][a] # Absent /\ contents[b][a].root # NIL => Top(slots, a, b, contents[b][a].root)
  <2> SUFFICES ASSUME NEW b \in Floor..pending, NEW a \in Accounts, contents[b][a] # Absent, contents[b][a].root # NIL
               PROVE  Top(slots, a, b, contents[b][a].root)
    OBVIOUS
  <2>1. CASE b = pending
    BY <2>1, <1>3
  <2>2. CASE b # pending
    <3>1. b \in Floor..disk.desc /\ b \in Blocks /\ b < pending
      BY <2>2, <1>b
    <3>2. Top(disk.slots, a, b, contents[b][a].root)
      BY <3>1, <1>i DEF DiskTells
    <3> QED BY <3>1, <3>2, <1>2
  <2> QED BY <2>1, <2>2
<1>6. Shows(contents, vals, Floor, pending)
  BY <1>1, <1>2, <1>b DEF Shows
<1> QED BY <1>4, <1>5, <1>6

\* The storage roots that the accounts of the pending block name.
LEMMA WriteHolds ==
  ASSUME IInv, BatchTells, pending \in Blocks, disk.desc = pending - 1, Holds(disk.storageRoots),
         NEW roots, roots = disk.storageRoots \cup {<<p.acc, p.blk>> : p \in Puts({"storage"})},
         NEW b \in Floor..pending, NEW a \in Accounts, contents[b][a] # Absent, contents[b][a].root # NIL
  PROVE  <<a, contents[b][a].root>> \in roots
<1>i. Types /\ DiskTells /\ Phases
  BY DEF IInv
<1>n. /\ Blocks \subseteq Nat /\ NIL = -1 /\ LastBlock \in Nat /\ prune.blk \in Nat /\ Floor \in Nat
      /\ Floor = IF prune.blk = 0 THEN 0 ELSE prune.blk - 1
  BY <1>i, Numbers
<1>1. CASE b # pending
  <2>1. b \in Floor..disk.desc
    BY <1>1, <1>n
  <2> QED BY <2>1 DEF Holds
<1>2. CASE b = pending /\ \E p \in ToSet(batch) : p.acc = a /\ p.kind = "storage"
  <2>1. PICK p \in ToSet(batch) : p.acc = a /\ p.kind = "storage"
    BY <1>2
  <2>2. Tells(p) /\ p \in Puts({"storage"})
    BY <2>1 DEF BatchTells, Puts
  <2>3. p.blk = pending /\ contents[b][a].root = pending
    BY <2>1, <2>2, <1>2 DEF Tells
  <2> QED BY <2>1, <2>2, <2>3
<1>3. CASE b = pending /\ \A p \in ToSet(batch) : p.kind = "storage" => p.acc # a
  <2>1. Before(pending, a) # Absent /\ contents[pending][a].root = Before(pending, a).root
    <3>1. CASE \E p \in ToSet(batch) : p.acc = a
      <4>1. PICK p \in ToSet(batch) : p.acc = a
        BY <3>1
      <4>2. p \in PutTask /\ Tells(p)
        BY DEF BatchTells
      <4>3. p.kind = "value"
        BY <4>1, <4>2, <1>3 DEF Tells, PutTask, Kinds
      <4> QED BY <4>1, <4>2, <4>3, <1>3 DEF Tells
    <3>2. CASE \A p \in ToSet(batch) : p.acc # a
      BY <3>2, <1>3 DEF BatchTells
    <3> QED BY <3>1, <3>2
  <2>2. pending # 0 /\ Before(pending, a) = contents[pending - 1][a]
    BY <2>1 DEF Before
  <2>3. pending - 1 \in Floor..disk.desc
    <3>1. prune.blk = 0 \/ prune.blk <= disk.desc
      BY <1>i DEF Phases
    <3> QED BY <2>2, <3>1, <1>n
  <2>4. <<a, contents[pending - 1][a].root>> \in disk.storageRoots
    BY <2>1, <2>2, <2>3, <1>3 DEF Holds
  <2> QED BY <2>1, <2>2, <2>4, <1>3
<1> QED BY <1>1, <1>2, <1>3

\* The atomic write of the batch to RocksDB preserves the inductive invariant.
LEMMA WriterWriteStep ==
  ASSUME IInv, WriterWrite
  PROVE  IInv'
<1>i. Types /\ Phases /\ PutsTell /\ DiskTells /\ NodesKept /\ ViewsTell /\ HandlesShow
  BY DEF IInv
<1>a. /\ queue # <<>> /\ Head(queue).do = "commit" /\ disk' = Flushed(Head(queue).blk)
      /\ queue' = [queue EXCEPT ![1].do = "invalidate"]
      /\ UNCHANGED <<batch, exec, prune, pool, reader, wrong, disabled, opening, stops,
                     state_desc, pending, contents>>
  BY DEF WriterWrite, Doing, readVars, openVars, blockVars
<1>b. batch \in Seq(PutTask) /\ queue \in Seq(Task) /\ Len(queue) \in Nat /\ Len(queue) >= 1
  BY <1>i, <1>a, QueueTail DEF Types, BlockTypes
<1>h. Head(queue) = queue[1] /\ queue[1].do = "commit" /\ queue[1] \in CommitTask
  BY <1>a, <1>b, QueueTail, TaskKinds
<1>c. /\ exec \in {"join", "wait"} /\ pending \in Blocks
      /\ exec = "wait" => queue[Len(queue)].do = "unlock"
      /\ Len(queue) = IF exec = "join" THEN 1 ELSE 2
      /\ queue[1].blk = pending /\ state_desc = pending - 1 /\ disk.desc = pending - 1
  BY <1>a, <1>h, HeadCommit
<1>q. /\ queue' \in Seq(Task) /\ queue' # <<>> /\ Len(queue') = Len(queue)
      /\ queue'[1].do = "invalidate" /\ queue'[1].blk = pending
      /\ \A j \in 2..Len(queue) : queue'[j] = queue[j]
  <2>1. PICK t : t = [queue[1] EXCEPT !.do = "invalidate"]
    OBVIOUS
  <2>2. t \in CommitTask /\ t.do = "invalidate" /\ t.blk = pending
    BY <2>1, <1>h, <1>c DEF CommitTask
  <2>3. t \in Task /\ queue' = [queue EXCEPT ![1] = t]
    BY <2>1, <2>2, <1>a, TaskKinds
  <2> QED BY <2>2, <2>3, <1>b
<1>n. /\ Blocks \subseteq Nat /\ NIL = -1 /\ LastBlock \in Nat /\ prune.blk \in Nat /\ Floor \in Nat
      /\ Floor = IF prune.blk = 0 THEN 0 ELSE prune.blk - 1
  BY <1>i, Numbers
<1>t. BatchTells
  BY <1>a, <1>h, BatchComplete
<1>d. /\ disk \in DiskRecord
      /\ contents \in [Blocks -> [Accounts -> Value \cup {Absent}]]
  BY <1>i DEF Types, DiskTypes
<1>v. PICK vals : vals = Versioned(disk.vals, Kinds)
  OBVIOUS
<1>s. PICK slots : slots = Versioned(disk.slots, {"storage"})
  OBVIOUS
<1>w. PICK latest : latest = MostRecent(disk.latest, Kinds)
  OBVIOUS
<1>r. PICK roots : roots = disk.storageRoots \cup {<<p.acc, p.blk>> : p \in Puts({"storage"})}
  OBVIOUS
<1>e. disk' = [disk EXCEPT !.vals = vals, !.slots = slots, !.latest = latest, !.roots = disk.roots \cup {pending},
                           !.storageRoots = roots, !.desc = pending]
  BY <1>a, <1>h, <1>c, <1>v, <1>s, <1>w, <1>r DEF Flushed
<1>f. /\ disk'.vals = vals /\ disk'.slots = slots /\ disk'.latest = latest /\ disk'.roots = disk.roots \cup {pending}
      /\ disk'.storageRoots = roots /\ disk'.desc = pending /\ disk'.status = disk.status
  BY <1>e, <1>d
<1>p. prune.left = {} /\ Floor' = Floor /\ (prune.blk = 0 \/ prune.blk <= disk.desc)
  <2>1. prune' = prune
    BY <1>a
  <2> QED BY <2>1, <1>i, <1>c DEF Phases, Floor
<1>g. exec' = exec /\ state_desc' = state_desc /\ pending' = pending /\ prune' = prune /\ batch' = batch
      /\ contents' = contents
  BY <1>a
<1>1. Types'
  <2>1. vals \in Columns /\ slots \in Columns
    BY <1>t, <1>v, <1>s, <1>d, <1>c, VersionedColumn DEF DiskRecord, PruneRecord, Steps
  <2>2. latest \in [Accounts -> Stored]
    BY <1>t, <1>w, <1>d, MostRecentView DEF DiskRecord, PruneRecord, Steps
  <2>3. roots \in SUBSET (Accounts \X Blocks)
    <3>1. \A p \in Puts({"storage"}) : p.acc \in Accounts /\ p.blk \in Blocks
      BY <1>t DEF Puts, BatchTells, PutTask
    <3>2. disk.storageRoots \in SUBSET (Accounts \X Blocks)
      BY <1>d DEF DiskRecord, PruneRecord, Steps
    <3> QED BY <3>1, <3>2, <1>r
  <2>4. disk.roots \cup {pending} \in SUBSET Blocks
    BY <1>d, <1>c DEF DiskRecord, PruneRecord, Steps
  <2>5. disk' \in DiskRecord
    BY <2>1, <2>2, <2>3, <2>4, <1>c, <1>d, <1>e DEF DiskRecord, PruneRecord, Steps
  <2>6. DiskTypes'
    BY <2>5, <1>a, <1>i DEF Types, DiskTypes
  <2> QED BY <2>6, <1>a, <1>q, <1>i DEF Types, BlockTypes, ReadTypes
<1>2. Phases'
  <2>1. \A n : n = 1 => Written_(n)'
    BY <1>f, <1>g, <1>q, <1>c DEF Written_
  <2>2. exec = "join" => Len(queue') = 1
    BY <1>q, <1>c
  <2>3. exec = "wait" => Len(queue') - 1 = 1 /\ Len(queue') >= 1 /\ queue'[Len(queue')].do = "unlock"
    <3>1. exec = "wait" => Len(queue') = 2 /\ Len(queue) = 2 /\ 2 \in 2..Len(queue)
      BY <1>q, <1>c
    <3> QED BY <3>1, <1>q, <1>c
  <2>4. exec = "join" => Written_(Len(queue))'
    BY <2>1, <2>2
  <2>5. exec = "wait" => Written_(Len(queue) - 1)'
    BY <2>1, <2>3
  <2>6. prune.blk = 0 \/ prune.blk <= pending
    BY <1>p, <1>c, <1>n
  <2> QED BY <2>3, <2>4, <2>5, <2>6, <1>c, <1>f, <1>g, <1>p DEF Phases
<1>3. PutsTell'
  <2>1. disk'.desc # pending' - 1 /\ exec' # "pending"
    BY <1>f, <1>g, <1>c, <1>n
  <2> QED BY <2>1 DEF PutsTell, Open
<1>4. DiskTells'
  <2>1. /\ Shows(contents, vals, Floor, pending)
        /\ \A v \in Blocks : v > pending => \A a \in Accounts : vals[v][a] = Absent /\ slots[v][a] = Absent
        /\ \A b \in Floor..pending, a \in Accounts :
              contents[b][a] # Absent /\ contents[b][a].root # NIL => Top(slots, a, b, contents[b][a].root)
    BY <1>t, <1>c, <1>v, <1>s, WriteShows
  <2>2. \A b \in Blocks : Fresh(b)'
    BY <1>g, <1>i DEF DiskTells, Fresh
  <2> QED BY <2>1, <2>2, <1>f, <1>g, <1>p DEF DiskTells
<1>5. NodesKept'
  <2>1. ASSUME ~prune.torn PROVE Holds(disk.storageRoots)' /\ (prune.blk..pending) \subseteq disk'.roots
    <3>1. Holds(disk.storageRoots) /\ (prune.blk..disk.desc) \subseteq disk.roots
      BY <2>1, <1>i, <1>p DEF NodesKept
    <3>2. \A b \in Floor..pending, a \in Accounts : contents[b][a] # Absent /\ contents[b][a].root # NIL
              => <<a, contents[b][a].root>> \in roots
      BY <3>1, <1>t, <1>c, <1>r, WriteHolds
    <3>3. \A b \in prune.blk..pending : b \in prune.blk..disk.desc \/ b = pending
      BY <1>c, <1>n
    <3> QED BY <3>1, <3>2, <3>3, <1>f, <1>g, <1>p DEF Holds
  <2> QED BY <2>1, <1>f, <1>g, <1>p DEF NodesKept
<1>6. ViewsTell'
  <2>1. opening = "done" /\ disk.status # "" /\ (disk.status = "enabled" => ~disabled)
    BY <1>c, <1>i DEF ViewsTell
  <2>2. ASSUME disk.status = "enabled", NEW a \in Accounts
        PROVE  contents[pending][a] = IF latest[a] = Empty THEN Absent ELSE latest[a]
    <3>1. /\ \A p \in ToSet(batch) : latest[p.acc] = p.val
          /\ (\A p \in ToSet(batch) : p.acc # a) => latest[a] = disk.latest[a]
      BY <2>1, <2>2, <1>t, <1>w, <1>d, MostRecentView DEF DiskRecord, PruneRecord, Steps
    <3>2. CASE \E p \in ToSet(batch) : p.acc = a
      <4>1. PICK p \in ToSet(batch) : p.acc = a
        BY <3>2
      <4>2. p \in PutTask /\ Tells(p) /\ latest[a] = p.val
        BY <4>1, <3>1, <1>t DEF BatchTells
      <4>3. CASE p.kind = "delete"
        BY <4>1, <4>2, <4>3 DEF Tells
      <4>4. CASE p.kind # "delete"
        <5>1. p.val = contents[pending][a] /\ contents[pending][a] # Absent
          BY <4>1, <4>2, <4>4 DEF Tells
        <5>2. Empty \notin Value
          BY <1>n DEF Empty, Value
        <5>3. p.val # Empty
          <6>1. contents[pending][a] \in Value \cup {Absent}
            BY <1>d, <1>c
          <6> QED BY <6>1, <5>1, <5>2
        <5> QED BY <5>1, <5>3, <4>2
      <4> QED BY <4>3, <4>4
    <3>3. CASE \A p \in ToSet(batch) : p.acc # a
      <4>1. latest[a] = disk.latest[a] /\ contents[pending][a] = Before(pending, a)
        BY <3>3, <3>1, <1>t DEF BatchTells
      <4>2. Committed(a) = IF disk.latest[a] = Empty THEN Absent ELSE disk.latest[a]
        BY <2>2, <1>i DEF ViewsTell
      <4>3. disk.desc = NIL <=> pending = 0
        BY <1>c, <1>n
      <4>4. Committed(a) = Before(pending, a)
        BY <4>3, <1>c DEF Committed, Before
      <4> QED BY <4>1, <4>2, <4>4
    <3> QED BY <3>2, <3>3
  <2>3. ASSUME disk.status = "enabled", NEW a \in Accounts
        PROVE  Committed(a)' = IF disk'.latest[a] = Empty THEN Absent ELSE disk'.latest[a]
    <3>1. pending # NIL
      BY <1>c, <1>n
    <3> QED BY <3>1, <2>2, <2>3, <1>f, <1>g DEF Committed
  <2> QED BY <2>1, <2>3, <1>f, <1>a, <1>i DEF ViewsTell
<1>7. HandlesShow'
  <2>1. Seen' = Seen
    BY <1>q, <1>g, <1>h DEF Seen
  <2> QED BY <2>1, <1>a, <1>p, HandlesQuiet
<1> QED BY <1>1, <1>2, <1>3, <1>4, <1>5, <1>6, <1>7 DEF IInv

\* Invalidating the pool of iterators preserves the inductive invariant.
LEMMA WriterInvalidateStep ==
  ASSUME IInv, WriterInvalidate
  PROVE  IInv'
<1>i. Types /\ Phases /\ PutsTell /\ DiskTells /\ NodesKept /\ ViewsTell /\ HandlesShow
  BY DEF IInv
<1>a. /\ queue # <<>> /\ Head(queue).do = "invalidate" /\ pool' = [generation |-> pool.generation + 1, idle |-> <<>>]
      /\ queue' = [queue EXCEPT ![1].do = "publish"]
      /\ UNCHANGED <<disk, batch, exec, prune, reader, wrong, disabled, opening, stops,
                     state_desc, pending, contents>>
  BY DEF WriterInvalidate, Invalidated, Doing, openVars, blockVars
<1>b. queue \in Seq(Task) /\ Len(queue) \in Nat /\ Len(queue) >= 1
  BY <1>i, <1>a, QueueTail DEF Types, BlockTypes
<1>h. Head(queue) = queue[1] /\ queue[1].do = "invalidate" /\ queue[1] \in CommitTask
  BY <1>a, <1>b, QueueTail, TaskKinds
<1>c. /\ exec \in {"join", "wait"} /\ pending \in Blocks
      /\ exec = "wait" => queue[Len(queue)].do = "unlock"
      /\ Len(queue) = IF exec = "join" THEN 1 ELSE 2
      /\ queue[1].blk = pending /\ state_desc = pending - 1 /\ disk.desc = pending
  BY <1>a, <1>h, HeadCommit
<1>q. /\ queue' \in Seq(Task) /\ queue' # <<>> /\ Len(queue') = Len(queue)
      /\ queue'[1].do = "publish" /\ queue'[1].blk = pending
      /\ \A j \in 2..Len(queue) : queue'[j] = queue[j]
  <2>1. PICK t : t = [queue[1] EXCEPT !.do = "publish"]
    OBVIOUS
  <2>2. t \in CommitTask /\ t.do = "publish" /\ t.blk = pending
    BY <2>1, <1>h, <1>c DEF CommitTask
  <2>3. t \in Task /\ queue' = [queue EXCEPT ![1] = t]
    BY <2>1, <2>2, <1>a, TaskKinds
  <2> QED BY <2>2, <2>3, <1>b
<1>n. Blocks \subseteq Nat /\ NIL = -1 /\ disk.desc \in Int
  BY <1>i, Numbers
<1>f. DiskTypes' /\ DiskTells' /\ NodesKept' /\ ViewsTell' /\ Floor' = Floor
  BY <1>a, QuietFrame
<1>g. exec' = exec /\ state_desc' = state_desc /\ pending' = pending /\ prune' = prune /\ disk' = disk
      /\ batch' = batch /\ reader' = reader /\ wrong' = wrong
  BY <1>a
<1>l. pool.generation \in Nat /\ pool'.generation = pool.generation + 1 /\ pool'.idle = <<>>
  BY <1>a, <1>i DEF Types, ReadTypes
<1>1. Types'
  <2>1. pool' \in [generation : Nat, idle : Seq(Handles)]
    BY <1>a, <1>l
  <2>2. ReadTypes'
    BY <2>1, <1>g, <1>i DEF Types, ReadTypes
  <2>3. BlockTypes'
    BY <1>a, <1>q, <1>i DEF Types, BlockTypes
  <2> QED BY <2>2, <2>3, <1>f DEF Types
<1>2. Phases'
  <2>1. \A n : n = 1 => Written_(n)'
    BY <1>g, <1>q, <1>c DEF Written_
  <2>2. exec = "join" => Len(queue') = 1
    BY <1>q, <1>c
  <2>3. exec = "wait" => Len(queue') - 1 = 1 /\ Len(queue') >= 1 /\ queue'[Len(queue')].do = "unlock"
    <3>1. exec = "wait" => Len(queue') = 2 /\ Len(queue) = 2 /\ 2 \in 2..Len(queue)
      BY <1>q, <1>c
    <3> QED BY <3>1, <1>q, <1>c
  <2>4. exec = "join" => Written_(Len(queue))'
    BY <2>1, <2>2
  <2>5. exec = "wait" => Written_(Len(queue) - 1)'
    BY <2>1, <2>3
  <2> QED BY <2>3, <2>4, <2>5, <1>c, <1>g, <1>i DEF Phases
<1>3. PutsTell'
  <2>1. disk'.desc # pending' - 1 /\ exec' # "pending"
    BY <1>g, <1>c, <1>n
  <2> QED BY <2>1 DEF PutsTell, Open
<1>7. HandlesShow'
  <2>1. \A r \in Readers : reader[r].at = "read" => reader[r].handle.generation <= pool.generation
                                                    /\ reader[r].handle.generation \in Nat
    <3>1. \A r \in Readers : reader[r].at = "read" => reader[r].handle \in Handles
      BY <1>i DEF Types, ReadTypes
    <3> QED BY <3>1, <1>i DEF HandlesShow, Handles
  <2>2. \A r \in Readers : reader[r].at = "read" => reader[r].handle.generation <= pool'.generation
                                                    /\ reader[r].handle.generation # pool'.generation
    BY <2>1, <1>l
  <2>3. ~wrong /\ (\A r \in Readers : reader[r].at = "open" => reader[r].blk <= state_desc) /\ exec # "stopped"
    BY <1>i, <1>c DEF HandlesShow
  <2>4. \A i \in 1..Len(pool'.idle) : FALSE
    BY <1>l
  <2> QED BY <2>2, <2>3, <2>4, <1>g DEF HandlesShow
<1> QED BY <1>1, <1>2, <1>3, <1>f, <1>7 DEF IInv

\* Publishing the new state descriptor preserves the inductive invariant.
LEMMA WriterPublishStep ==
  ASSUME IInv, WriterPublish
  PROVE  IInv'
<1>i. Types /\ Phases /\ PutsTell /\ DiskTells /\ NodesKept /\ ViewsTell /\ HandlesShow
  BY DEF IInv
<1>a. /\ queue # <<>> /\ Head(queue).do = "publish" /\ state_desc' = Head(queue).blk /\ queue' = Tail(queue)
      /\ UNCHANGED <<disk, batch, exec, prune, pool, reader, wrong, disabled, opening, stops, pending, contents>>
  BY DEF WriterPublish, Doing, readVars, openVars
<1>b. /\ queue \in Seq(Task) /\ Len(queue) \in Nat /\ queue' \in Seq(Task) /\ Len(queue') = Len(queue) - 1
      /\ (\A j \in 1..(Len(queue) - 1) : queue'[j] = queue[j + 1]) /\ Head(queue) = queue[1]
  BY <1>i, <1>a, QueueTail DEF Types, BlockTypes
<1>c. /\ exec \in {"join", "wait"} /\ pending \in Blocks
      /\ exec = "wait" => queue[Len(queue)].do = "unlock"
      /\ Len(queue) = IF exec = "join" THEN 1 ELSE 2
      /\ queue[1].blk = pending /\ state_desc = pending - 1 /\ disk.desc = pending
  BY <1>a, <1>b, HeadCommit
<1>n. Blocks \subseteq Nat /\ NIL = -1 /\ disk.desc \in Int
  BY <1>i, Numbers
<1>f. DiskTypes' /\ DiskTells' /\ NodesKept' /\ ViewsTell' /\ Floor' = Floor
  BY <1>a, QuietFrame
<1>g. exec' = exec /\ state_desc' = pending /\ pending' = pending /\ prune' = prune /\ disk' = disk
      /\ batch' = batch /\ contents' = contents
  BY <1>a, <1>b, <1>c
<1>1. Types'
  BY <1>a, <1>g, <1>f, <1>b, <1>c, <1>i DEF Types, BlockTypes, ReadTypes
<1>w. /\ exec = "join" => Len(queue') = 0 /\ queue' = <<>>
      /\ exec = "wait" => Len(queue') = 1 /\ queue'[1].do = "unlock"
  <2>1. CASE exec = "join"
    BY <2>1, <1>b, <1>c
  <2>2. CASE exec = "wait"
    <3>1. Len(queue) = 2 /\ 1 \in 1..(Len(queue) - 1) /\ queue[2].do = "unlock"
      BY <2>2, <1>b, <1>c
    <3>2. queue'[1] = queue[1 + 1]
      BY <3>1, <1>b
    <3> QED BY <3>1, <3>2, <2>2, <1>b
  <2> QED BY <2>1, <2>2, <1>c
<1>2. Phases'
  <2>1. \A n : n = 0 => Written_(n)'
    BY <1>g, <1>c DEF Written_
  <2>4. exec = "join" => Written_(Len(queue))'
    BY <2>1, <1>w
  <2>5. exec = "wait" => Written_(Len(queue) - 1)'
    <3>1. exec = "wait" => Len(queue') - 1 = 0
      BY <1>w
    <3> QED BY <2>1, <3>1
  <2> QED BY <2>4, <2>5, <1>w, <1>c, <1>g, <1>i DEF Phases
<1>3. PutsTell'
  <2>1. disk'.desc # pending' - 1 /\ exec' # "pending"
    BY <1>g, <1>c, <1>n
  <2> QED BY <2>1 DEF PutsTell, Open
<1>7. HandlesShow'
  <2>1. Seen = pending /\ Seen' = pending
    <3>1. queue' # <<>> => queue'[1].do # "publish"
      BY <1>w, <1>c
    <3> QED BY <3>1, <1>a, <1>b, <1>c, <1>g DEF Seen
  <2>2. \A b \in Blocks : b <= state_desc => b <= state_desc'
    BY <1>c, <1>g, <1>n
  <2>3. \A b \in Floor'..Seen' : b \in Floor..Seen /\ contents'[b] = contents[b]
    BY <2>1, <1>f, <1>g
  <2> QED BY <2>2, <2>3, <1>a, <1>i, HandlesFrame
<1> QED BY <1>1, <1>2, <1>3, <1>f, <1>7 DEF IInv

\* The writer unlocking the execution thread preserves the inductive invariant.
LEMMA WriterUnlockStep ==
  ASSUME IInv, WriterUnlock
  PROVE  IInv'
<1>i. Types /\ Phases /\ PutsTell /\ DiskTells /\ NodesKept /\ ViewsTell /\ HandlesShow
  BY DEF IInv
<1>a. /\ queue # <<>> /\ Head(queue).do = "unlock" /\ exec' = "joined" /\ queue' = Tail(queue)
      /\ UNCHANGED <<disk, batch, prune, pool, reader, wrong, disabled, opening, stops,
                     state_desc, pending, contents>>
  BY DEF WriterUnlock, Doing, readVars, openVars, blockVars
<1>b. /\ queue \in Seq(Task) /\ Len(queue) \in Nat /\ queue' \in Seq(Task) /\ Len(queue') = Len(queue) - 1
      /\ Head(queue) = queue[1]
  BY <1>i, <1>a, QueueTail DEF Types, BlockTypes
<1>c. Len(queue) = 1 /\ exec = "wait" /\ pending \in Blocks /\ state_desc = pending /\ disk.desc = pending
  BY <1>a, <1>b, HeadCommit
<1>d. queue' = <<>>
  BY <1>b, <1>c
<1>f. DiskTypes' /\ DiskTells' /\ NodesKept' /\ ViewsTell' /\ Floor' = Floor
  BY <1>a, <1>c, QuietFrame
<1>1. Types'
  BY <1>a, <1>f, <1>b, <1>i DEF Types, BlockTypes, ReadTypes
<1>2. Phases'
  <2>1. \A n : n = 0 => Written_(n)'
    BY <1>a, <1>c DEF Written_
  <2> QED BY <2>1, <1>a, <1>c, <1>d, <1>i DEF Phases
<1>3. PutsTell'
  BY <1>a DEF PutsTell, Open
<1>7. HandlesShow'
  <2>1. Seen' = Seen
    BY <1>a, <1>b, <1>d DEF Seen
  <2> QED BY <2>1, <1>a, <1>f, HandlesQuiet
<1> QED BY <1>1, <1>2, <1>3, <1>f, <1>7 DEF IInv
-----------------------------------------------------------------------------
(* Readers.                                                                *)

\* Steps that leave the queue, the execution and the database alone.
LEMMA ReadFrame ==
  ASSUME IInv, UNCHANGED <<disk, batch, queue, exec, prune, disabled, opening, stops,
                           state_desc, pending, contents>>
  PROVE  /\ DiskTypes' /\ BlockTypes' /\ Phases' /\ PutsTell' /\ DiskTells' /\ NodesKept' /\ ViewsTell'
         /\ Floor' = Floor /\ Seen' = Seen
<1>i. Types /\ Phases /\ PutsTell /\ DiskTells /\ NodesKept /\ ViewsTell /\ HandlesShow
  BY DEF IInv
<1>a. /\ disk' = disk /\ batch' = batch /\ queue' = queue /\ exec' = exec /\ prune' = prune
      /\ state_desc' = state_desc /\ pending' = pending /\ contents' = contents /\ opening' = opening
  OBVIOUS
<1>f. DiskTypes' /\ DiskTells' /\ NodesKept' /\ ViewsTell' /\ Floor' = Floor
  BY <1>a, QuietFrame
<1>1. BlockTypes' /\ Seen' = Seen
  BY <1>a, <1>i DEF Types, BlockTypes, Seen
<1>2. Phases'
  BY <1>a, <1>i DEF Phases, Preparing, Unwritten, Written_
<1>3. PutsTell'
  <2>1. Effective' = Effective
    BY <1>a DEF Effective, Clearing
  <2> QED BY <2>1, <1>a, <1>i, PutsFrame DEF Open
<1> QED BY <1>f, <1>1, <1>2, <1>3

\* Opening a reader at a committed block preserves the inductive invariant.
LEMMA OpenReaderStep ==
  ASSUME IInv, NEW r \in Readers, NEW b \in Blocks, OpenReader(r, b)
  PROVE  IInv'
<1>i. Types /\ HandlesShow
  BY DEF IInv
<1>a. /\ exec # "stopped" /\ b <= state_desc /\ reader' = [reader EXCEPT ![r] = [at |-> "open", blk |-> b]]
      /\ UNCHANGED <<disk, batch, queue, exec, prune, disabled, opening, stops, state_desc, pending, contents, pool, wrong>>
  BY DEF OpenReader, openVars, blockVars
<1>f. /\ DiskTypes' /\ BlockTypes' /\ Phases' /\ PutsTell' /\ DiskTells' /\ NodesKept' /\ ViewsTell'
      /\ Floor' = Floor /\ Seen' = Seen
  BY <1>a, ReadFrame
<1>b. pool' = pool /\ wrong' = wrong /\ state_desc' = state_desc /\ contents' = contents /\ exec' = exec
  BY <1>a
<1>r. /\ reader' \in [Readers -> [at : {"idle"}] \cup [at : {"open"}, blk : Blocks]
                              \cup [at : {"read"}, blk : Blocks, handle : Handles]]
      /\ reader'[r].at = "open" /\ reader'[r].blk = b
      /\ \A q \in Readers : q # r => reader'[q] = reader[q]
  <2>1. reader \in [Readers -> [at : {"idle"}] \cup [at : {"open"}, blk : Blocks]
                              \cup [at : {"read"}, blk : Blocks, handle : Handles]]
    BY <1>i DEF Types, ReadTypes
  <2>2. [at |-> "open", blk |-> b] \in [at : {"open"}, blk : Blocks]
    OBVIOUS
  <2> QED BY <2>1, <2>2, <1>a
<1>1. ReadTypes'
  BY <1>r, <1>b, <1>i DEF Types, ReadTypes
<1>2. HandlesShow'
  <2>1. ASSUME NEW q \in Readers, reader'[q].at = "read"
        PROVE  /\ reader'[q].handle.generation <= pool.generation
               /\ reader'[q].handle.generation = pool.generation =>
                    Shows(contents, reader'[q].handle.sees, Floor, Seen)
    <3>1. reader'[q] = reader[q]
      BY <2>1, <1>r
    <3> QED BY <3>1, <2>1, <1>i DEF HandlesShow
  <2>2. ASSUME NEW q \in Readers, reader'[q].at = "open" PROVE reader'[q].blk <= state_desc
    BY <2>2, <1>r, <1>a, <1>i DEF HandlesShow
  <2>3. /\ ~wrong
        /\ \A i \in 1..Len(pool.idle) :
             pool.idle[i].generation = pool.generation /\ Shows(contents, pool.idle[i].sees, Floor, Seen)
    BY <1>i DEF HandlesShow
  <2> QED BY <2>1, <2>2, <2>3, <1>b, <1>a, <1>f DEF HandlesShow
<1> QED BY <1>f, <1>1, <1>2 DEF IInv, Types

\* The iterator that a reader gets shows every block it may read.
LEMMA HandleShows ==
  ASSUME IInv
  PROVE  /\ Handle \in Handles /\ Handle.generation = pool.generation
         /\ Shows(contents, Handle.sees, Floor, Seen)
<1>i. Types /\ Phases /\ DiskTells /\ HandlesShow
  BY DEF IInv
<1>t. pool \in [generation : Nat, idle : Seq(Handles)] /\ disk.vals \in Columns
  BY <1>i DEF Types, ReadTypes, DiskTypes, DiskRecord, PruneRecord, Steps
<1>1. CASE pool.idle # <<>>
  <2>1. Handle = pool.idle[1] /\ 1 \in 1..Len(pool.idle) /\ pool.idle[1] \in Handles
    <3>1. pool.idle \in Seq(Handles)
      BY <1>t
    <3> QED BY <3>1, <1>1, QueueTail DEF Handle
  <2> QED BY <2>1, <1>i DEF HandlesShow
<1>2. CASE pool.idle = <<>>
  <2>1. Handle = [generation |-> pool.generation, sees |-> disk.vals]
    BY <1>2 DEF Handle
  <2>2. Handle \in Handles /\ Handle.generation = pool.generation /\ Handle.sees = disk.vals
    BY <2>1, <1>t DEF Handles
  <2>3. Shows(contents, disk.vals, Floor, disk.desc)
    BY <1>i DEF DiskTells
  <2>4. \A b \in Floor..Seen : b \in Floor..disk.desc
    <3>1. /\ Blocks \subseteq Nat /\ NIL = -1 /\ disk.desc \in Int /\ disk.desc >= -1
          /\ state_desc \in Int /\ Floor \in Nat
      BY <1>i, Numbers
    <3>2. state_desc <= disk.desc
      <4>1. exec \in {"stopped", "idle", "pending", "join", "wait", "joined"}
        BY <1>i DEF Types, BlockTypes
      <4>2. state_desc = NIL \/ state_desc = disk.desc \/ state_desc = disk.desc - 1
        <5>1. CASE exec \in {"stopped", "idle"}
          BY <5>1, <1>i DEF Phases
        <5>2. CASE exec \in {"pending", "join", "wait", "joined"}
          BY <5>2, <1>i DEF Phases, Unwritten, Written_
        <5> QED BY <4>1, <5>1, <5>2
      <4> QED BY <4>2, <3>1
    <3>3. Seen \in Int /\ Seen <= disk.desc
      BY <3>1, <3>2 DEF Seen
    <3> QED BY <3>1, <3>3
  <2>5. Shows(contents, disk.vals, Floor, Seen)
    BY <2>3, <2>4, ShowsFewer
  <2> QED BY <2>2, <2>5
<1> QED BY <1>1, <1>2

\* A read through a pooled or a new iterator preserves the inductive invariant.
LEMMA GetStep ==
  ASSUME IInv, NEW r \in Readers, NEW a \in Accounts, Get(r, a)
  PROVE  IInv'
<1>i. Types /\ Phases /\ HandlesShow
  BY DEF IInv
<1>h. PICK h : h = Handle
  OBVIOUS
<1>k. h \in Handles /\ h.generation = pool.generation /\ Shows(contents, h.sees, Floor, Seen)
  BY <1>h, HandleShows
<1>a. /\ reader[r].at = "open"
      /\ pool' = IF pool.idle # <<>> THEN [pool EXCEPT !.idle = Tail(@)] ELSE pool
      /\ wrong' = (wrong \/ (/\ reader[r].blk >= Floor
                             /\ Seek(h.sees, a, reader[r].blk) # contents[reader[r].blk][a]))
      /\ reader' = [reader EXCEPT ![r] = [at |-> "read", blk |-> reader[r].blk, handle |-> h]]
      /\ UNCHANGED <<disk, batch, queue, exec, prune, disabled, opening, stops, state_desc, pending, contents>>
  BY <1>h DEF Get, openVars, blockVars
<1>f. /\ DiskTypes' /\ BlockTypes' /\ Phases' /\ PutsTell' /\ DiskTells' /\ NodesKept' /\ ViewsTell'
      /\ Floor' = Floor /\ Seen' = Seen
  BY <1>a, ReadFrame
<1>b. state_desc' = state_desc /\ contents' = contents /\ exec' = exec
  BY <1>a
<1>t. /\ pool \in [generation : Nat, idle : Seq(Handles)]
      /\ reader \in [Readers -> [at : {"idle"}] \cup [at : {"open"}, blk : Blocks]
                              \cup [at : {"read"}, blk : Blocks, handle : Handles]]
      /\ reader[r].blk \in Blocks /\ reader[r].blk <= state_desc
  <2>1. /\ pool \in [generation : Nat, idle : Seq(Handles)]
        /\ reader \in [Readers -> [at : {"idle"}] \cup [at : {"open"}, blk : Blocks]
                              \cup [at : {"read"}, blk : Blocks, handle : Handles]]
    BY <1>i DEF Types, ReadTypes
  <2> QED BY <2>1, <1>a, <1>i DEF HandlesShow
<1>x. exec # "stopped"
  BY <1>a, <1>i DEF HandlesShow
<1>p. /\ pool' \in [generation : Nat, idle : Seq(Handles)] /\ pool'.generation = pool.generation
      /\ \A j \in 1..Len(pool'.idle) : \E k \in 1..Len(pool.idle) : pool'.idle[j] = pool.idle[k]
  <2>0. pool.idle \in Seq(Handles)
    BY <1>t
  <2>1. CASE pool.idle # <<>>
    <3>1. /\ Len(pool.idle) \in Nat /\ Tail(pool.idle) \in Seq(Handles) /\ Len(Tail(pool.idle)) = Len(pool.idle) - 1
          /\ \A j \in 1..(Len(pool.idle) - 1) : Tail(pool.idle)[j] = pool.idle[j + 1]
      BY <2>0, <2>1, QueueTail
    <3>2. pool' = [pool EXCEPT !.idle = Tail(pool.idle)]
      BY <2>1, <1>a
    <3>3. pool'.idle = Tail(pool.idle) /\ pool'.generation = pool.generation
          /\ pool' \in [generation : Nat, idle : Seq(Handles)]
      BY <3>1, <3>2, <1>t
    <3>4. \A j \in 1..(Len(pool.idle) - 1) : j + 1 \in 1..Len(pool.idle)
      BY <3>1
    <3> QED BY <3>1, <3>3, <3>4
  <2>2. CASE pool.idle = <<>>
    BY <2>2, <1>a, <1>t
  <2> QED BY <2>1, <2>2
<1>r. /\ reader' \in [Readers -> [at : {"idle"}] \cup [at : {"open"}, blk : Blocks]
                              \cup [at : {"read"}, blk : Blocks, handle : Handles]]
      /\ reader'[r].at = "read" /\ reader'[r].handle = h
      /\ \A q \in Readers : q # r => reader'[q] = reader[q]
  <2>2. [at |-> "read", blk |-> reader[r].blk, handle |-> h] \in [at : {"read"}, blk : Blocks, handle : Handles]
    BY <1>t, <1>k
  <2> QED BY <2>2, <1>t, <1>a
<1>1. ReadTypes'
  BY <1>r, <1>p DEF ReadTypes
<1>w. ~wrong'
  <2>1. ~wrong
    BY <1>i DEF HandlesShow
  <2>2. ASSUME reader[r].blk >= Floor PROVE Seek(h.sees, a, reader[r].blk) = contents[reader[r].blk][a]
    <3>1. state_desc \in Int /\ Floor \in Nat /\ disk.desc \in Int /\ Blocks \subseteq Nat
      BY <1>i, Numbers
    <3>2. state_desc <= Seen /\ Seen \in Int
      <4>1. CASE queue # <<>> /\ queue[1].do = "publish"
        <5>1. state_desc = pending - 1 /\ disk.desc = pending /\ pending \in Blocks
          BY <4>1, HeadCommit
        <5> QED BY <4>1, <5>1, <3>1 DEF Seen
      <4>2. CASE ~(queue # <<>> /\ queue[1].do = "publish")
        BY <4>2, <3>1 DEF Seen
      <4> QED BY <4>1, <4>2
    <3>3. reader[r].blk \in Floor..Seen
      <4>1. reader[r].blk \in Nat /\ reader[r].blk <= state_desc
        BY <1>t, <3>1
      <4>2. \A x \in Nat : x >= Floor /\ x <= state_desc => x \in Floor..Seen
        BY <3>1, <3>2
      <4> QED BY <2>2, <4>1, <4>2
    <3> QED BY <3>3, <1>k DEF Shows
  <2> QED BY <2>1, <2>2, <1>a
<1>2. HandlesShow'
  <2>1. ASSUME NEW q \in Readers, reader'[q].at = "read"
        PROVE  /\ reader'[q].handle.generation <= pool.generation
               /\ reader'[q].handle.generation = pool.generation =>
                    Shows(contents, reader'[q].handle.sees, Floor, Seen)
    <3>1. CASE q = r
      <4>1. h.generation <= pool.generation
        BY <1>k, <1>t
      <4> QED BY <4>1, <3>1, <1>r, <1>k
    <3>2. CASE q # r
      <4>1. reader'[q] = reader[q]
        BY <3>2, <1>r
      <4> QED BY <4>1, <2>1, <1>i DEF HandlesShow
    <3> QED BY <3>1, <3>2
  <2>2. ASSUME NEW q \in Readers, reader'[q].at = "open" PROVE reader'[q].blk <= state_desc
    <3>1. q # r /\ reader'[q] = reader[q]
      BY <2>2, <1>r
    <3> QED BY <3>1, <2>2, <1>i DEF HandlesShow
  <2>3. ASSUME NEW j \in 1..Len(pool'.idle)
        PROVE  pool'.idle[j].generation = pool.generation /\ Shows(contents, pool'.idle[j].sees, Floor, Seen)
    <3>1. PICK k \in 1..Len(pool.idle) : pool'.idle[j] = pool.idle[k]
      BY <1>p
    <3> QED BY <3>1, <1>i DEF HandlesShow
  <2> QED BY <2>1, <2>2, <2>3, <1>b, <1>x, <1>w, <1>f, <1>p DEF HandlesShow
<1> QED BY <1>f, <1>1, <1>2 DEF IInv, Types

\* Returning an iterator to the pool preserves the inductive invariant.
LEMMA ReturnStep ==
  ASSUME IInv, NEW r \in Readers, Return(r)
  PROVE  IInv'
<1>i. Types /\ HandlesShow
  BY DEF IInv
<1>a. /\ reader[r].at = "read"
      /\ pool' = IF reader[r].handle.generation = pool.generation /\ Len(pool.idle) < PoolSize
               THEN [pool EXCEPT !.idle = Append(@, reader[r].handle)] ELSE pool
      /\ reader' = [reader EXCEPT ![r] = [at |-> "idle"]]
      /\ UNCHANGED <<disk, batch, queue, exec, prune, disabled, opening, stops, state_desc, pending, contents, wrong>>
  BY DEF Return, openVars, blockVars
<1>f. /\ DiskTypes' /\ BlockTypes' /\ Phases' /\ PutsTell' /\ DiskTells' /\ NodesKept' /\ ViewsTell'
      /\ Floor' = Floor /\ Seen' = Seen
  BY <1>a, ReadFrame
<1>b. state_desc' = state_desc /\ contents' = contents /\ exec' = exec /\ wrong' = wrong
  BY <1>a
<1>t. /\ pool \in [generation : Nat, idle : Seq(Handles)]
      /\ reader \in [Readers -> [at : {"idle"}] \cup [at : {"open"}, blk : Blocks]
                              \cup [at : {"read"}, blk : Blocks, handle : Handles]]
  BY <1>i DEF Types, ReadTypes
<1>x. exec # "stopped"
  BY <1>a, <1>i DEF HandlesShow
<1>h. PICK h : h = reader[r].handle
  OBVIOUS
<1>k. h \in Handles /\ (h.generation = pool.generation => Shows(contents, h.sees, Floor, Seen))
  BY <1>h, <1>t, <1>a, <1>i DEF HandlesShow
<1>p. /\ pool' \in [generation : Nat, idle : Seq(Handles)] /\ pool'.generation = pool.generation
      /\ \A j \in 1..Len(pool'.idle) : \/ \E k \in 1..Len(pool.idle) : pool'.idle[j] = pool.idle[k]
                                       \/ pool'.idle[j] = h /\ h.generation = pool.generation
  <2>0. pool.idle \in Seq(Handles)
    BY <1>t
  <2>1. CASE h.generation = pool.generation /\ Len(pool.idle) < PoolSize
    <3>1. /\ Len(pool.idle) \in Nat /\ Append(pool.idle, h) \in Seq(Handles) /\ Len(Append(pool.idle, h)) = Len(pool.idle) + 1
          /\ \A j \in 1..Len(pool.idle) : Append(pool.idle, h)[j] = pool.idle[j]
          /\ Append(pool.idle, h)[Len(pool.idle) + 1] = h
      BY <2>0, <1>k, QueueAppend
    <3>2. pool' = [pool EXCEPT !.idle = Append(pool.idle, h)]
      BY <2>1, <1>a, <1>h
    <3>3. pool'.idle = Append(pool.idle, h) /\ pool'.generation = pool.generation
          /\ pool' \in [generation : Nat, idle : Seq(Handles)]
      BY <3>1, <3>2, <1>t
    <3>4. \A j \in 1..(Len(pool.idle) + 1) : j \in 1..Len(pool.idle) \/ j = Len(pool.idle) + 1
      BY <3>1
    <3> QED BY <3>1, <3>3, <3>4, <2>1
  <2>2. CASE ~(h.generation = pool.generation /\ Len(pool.idle) < PoolSize)
    BY <2>2, <1>a, <1>t, <1>h
  <2> QED BY <2>1, <2>2
<1>r. /\ reader' \in [Readers -> [at : {"idle"}] \cup [at : {"open"}, blk : Blocks]
                              \cup [at : {"read"}, blk : Blocks, handle : Handles]]
      /\ reader'[r].at = "idle"
      /\ \A q \in Readers : q # r => reader'[q] = reader[q]
  <2>2. [at |-> "idle"] \in [at : {"idle"}]
    OBVIOUS
  <2> QED BY <2>2, <1>t, <1>a
<1>1. ReadTypes'
  BY <1>r, <1>p DEF ReadTypes
<1>2. HandlesShow'
  <2>1. ASSUME NEW q \in Readers, reader'[q].at \in {"read", "open"} PROVE q # r /\ reader'[q] = reader[q]
    BY <2>1, <1>r
  <2>2. ASSUME NEW q \in Readers, reader'[q].at = "read"
        PROVE  /\ reader'[q].handle.generation <= pool.generation
               /\ reader'[q].handle.generation = pool.generation =>
                    Shows(contents, reader'[q].handle.sees, Floor, Seen)
    BY <2>1, <2>2, <1>i DEF HandlesShow
  <2>3. ASSUME NEW q \in Readers, reader'[q].at = "open" PROVE reader'[q].blk <= state_desc
    BY <2>1, <2>3, <1>i DEF HandlesShow
  <2>4. ASSUME NEW j \in 1..Len(pool'.idle)
        PROVE  pool'.idle[j].generation = pool.generation /\ Shows(contents, pool'.idle[j].sees, Floor, Seen)
    <3>1. CASE \E k \in 1..Len(pool.idle) : pool'.idle[j] = pool.idle[k]
      BY <3>1, <1>i DEF HandlesShow
    <3>2. CASE pool'.idle[j] = h /\ h.generation = pool.generation
      BY <3>2, <1>k
    <3> QED BY <3>1, <3>2, <1>p
  <2>5. ~wrong
    BY <1>i DEF HandlesShow
  <2> QED BY <2>2, <2>3, <2>4, <2>5, <1>b, <1>x, <1>f, <1>p DEF HandlesShow
<1> QED BY <1>f, <1>1, <1>2 DEF IInv, Types
-----------------------------------------------------------------------------
(* Pruning.                                                                *)

\* A step of a prune, or its start: the blocks read from are the same or fewer.
LEMMA PruneFrame ==
  ASSUME IInv, UNCHANGED <<batch, queue, exec, disabled, opening, stops, state_desc, pending, contents,
                           pool, reader, wrong>>,
         exec = "idle", DiskTypes', disk'.desc = disk.desc, disk'.latest = disk.latest, disk'.status = disk.status,
         prune'.blk = prune.blk \/ (prune'.blk \in (prune.blk + 1)..disk.desc)
  PROVE  /\ Types' /\ Phases' /\ PutsTell' /\ ViewsTell' /\ HandlesShow'
         /\ \A b \in Floor'..disk.desc : b \in Floor..disk.desc
         /\ Floor \in Nat /\ Floor' \in Nat /\ Floor' >= Floor
<1>i. Types /\ Phases /\ PutsTell /\ DiskTells /\ NodesKept /\ ViewsTell /\ HandlesShow
  BY DEF IInv
<1>a. /\ batch' = batch /\ queue' = queue /\ exec' = exec /\ opening' = opening /\ disabled' = disabled
      /\ state_desc' = state_desc /\ pending' = pending /\ contents' = contents
      /\ pool' = pool /\ reader' = reader /\ wrong' = wrong
  OBVIOUS
<1>1. Types'
  BY <1>a, <1>i DEF Types, BlockTypes, ReadTypes
<1>n. /\ prune.blk \in Nat /\ Floor \in Nat /\ Floor = (IF prune.blk = 0 THEN 0 ELSE prune.blk - 1)
      /\ disk.desc \in Int
  BY <1>i, Numbers
<1>m. prune'.blk \in Nat /\ Floor' = IF prune'.blk = 0 THEN 0 ELSE prune'.blk - 1
  <2>1. prune'.blk \in Nat
    BY <1>n
  <2> DEFINE m == IF prune'.blk = 0 THEN 0 ELSE prune'.blk - 1
  <2>2. m \in {0, prune'.blk - 1} /\ \A x \in {0, prune'.blk - 1} : m >= x /\ (x >= m => x = m)
    BY <2>1
  <2> HIDE DEF m
  <2>3. Max({0, prune'.blk - 1}) = m
    BY <2>2 DEF Max
  <2> QED BY <2>1, <2>3 DEF Floor, m
<1>2. Phases'
  <2>1. prune'.blk = 0 \/ prune'.blk <= disk'.desc
    BY <1>n, <1>i DEF Phases
  <2>2. state_desc = disk.desc /\ pending = disk.desc
    BY <1>i DEF Phases
  <2>3. \/ queue = <<>> /\ batch = <<>>
        \/ Len(queue) = 1 /\ queue[1].do = "clear"
    <3>1. Phases
      BY <1>i
    <3> QED BY <3>1, Zenon DEF Phases
  <2> QED BY <2>1, <2>2, <2>3, <1>a DEF Phases
<1>3. PutsTell'
  BY <1>a DEF PutsTell, Open
<1>4. Floor' \in Nat /\ Floor' >= Floor
  BY <1>n, <1>m
<1>5. \A b \in Floor'..disk.desc : b \in Floor..disk.desc
  BY <1>4, <1>n
<1>6. ViewsTell'
  BY <1>a, <1>i, ViewsFrame
<1>7. HandlesShow'
  <2>1. Seen' = disk.desc /\ Seen = disk.desc
    <3>1. queue # <<>> => queue[1].do # "publish"
      BY <1>i DEF Phases
    <3>2. state_desc = disk.desc
      BY <1>i DEF Phases
    <3> QED BY <3>1, <3>2, <1>a DEF Seen
  <2> QED BY <2>1, <1>5, <1>a, <1>i, HandlesFrame
<1> QED BY <1>1, <1>2, <1>3, <1>4, <1>5, <1>6, <1>7, <1>n

\* The call of Prune preserves the inductive invariant.
LEMMA PruneStep ==
  ASSUME IInv, NEW blk \in Blocks, Prune(blk)
  PROVE  IInv'
<1>i. Types /\ Phases /\ PutsTell /\ DiskTells /\ NodesKept /\ ViewsTell /\ HandlesShow
  BY DEF IInv
<1>a. /\ exec = "idle" /\ prune.left = {} /\ blk \in (prune.blk + 1)..state_desc
      /\ prune' = [prune EXCEPT !.blk = blk, !.left = {"slots", "collect roots", "scan"}]
      /\ UNCHANGED <<disk, batch, queue, exec, disabled, opening, stops, state_desc, pending, contents, pool, reader, wrong>>
  BY DEF Prune, readVars, openVars, blockVars
<1>s. state_desc = disk.desc
  BY <1>a, <1>i DEF Phases
<1>t. prune \in PruneRecord
  BY <1>i DEF Types, DiskTypes
<1>p. /\ prune'.blk = blk /\ prune'.left = {"slots", "collect roots", "scan"} /\ prune'.torn = prune.torn
      /\ prune' \in PruneRecord
  BY <1>t, <1>a DEF DiskRecord, PruneRecord, Steps
<1>b. disk' = disk /\ contents' = contents
  BY <1>a
<1>d. DiskTypes'
  BY <1>p, <1>b, <1>i DEF Types, DiskTypes
<1>f. /\ Types' /\ Phases' /\ PutsTell' /\ ViewsTell' /\ HandlesShow'
      /\ \A b \in Floor'..disk.desc : b \in Floor..disk.desc
  BY <1>a, <1>b, <1>d, <1>p, <1>s, PruneFrame
<1>4. DiskTells'
  <2>1. \A b \in Blocks : Fresh(b)'
    BY <1>b, <1>i DEF DiskTells, Fresh
  <2> QED BY <2>1, <1>b, <1>f, <1>i, DiskFrame
<1>5. NodesKept'
  <2>1. ASSUME ~prune.torn PROVE Holds(disk.storageRoots) /\ (prune.blk..disk.desc) \subseteq disk.roots
    BY <2>1, <1>a, <1>i DEF NodesKept
  <2>2. ASSUME ~prune.torn PROVE Holds(disk.storageRoots)'
    BY <2>1, <2>2, <1>b, <1>f DEF Holds
  <2>3. ASSUME ~prune.torn PROVE (blk..disk.desc) \subseteq disk.roots
    <3>1. prune.blk \in Nat /\ disk.desc \in Int /\ blk \in Nat
      BY <1>i, Numbers
    <3>2. \A b \in blk..disk.desc : b \in prune.blk..disk.desc
      BY <3>1, <1>a
    <3> QED BY <3>2, <2>1, <2>3
  <2> QED BY <2>2, <2>3, <1>b, <1>p DEF NodesKept
<1> QED BY <1>f, <1>4, <1>5 DEF IInv

\* Pruning a column keeps what the blocks from the floor on read.
LEMMA PrunedColumns ==
  ASSUME Types, NEW col \in Columns
  PROVE  /\ Pruned(col, prune.blk) \in Columns
         /\ \A b \in Floor..disk.desc, a \in Accounts :
              /\ Seek(Pruned(col, prune.blk), a, b) = Seek(col, a, b)
              /\ \A m : Top(col, a, b, m) => Top(Pruned(col, prune.blk), a, b, m)
         /\ \A v \in Blocks, a \in Accounts : col[v][a] = Absent => Pruned(col, prune.blk)[v][a] = Absent
<1>n. /\ Blocks \subseteq Nat /\ prune.blk \in Nat /\ Floor \in Nat /\ disk.desc \in Int /\ disk.desc <= LastBlock
      /\ Floor = (IF prune.blk = 0 THEN 0 ELSE prune.blk - 1) /\ LastBlock \in Nat
  BY Numbers
<1>p. prune.blk \in Blocks
  BY DEF Types, DiskTypes, DiskRecord, PruneRecord, Steps
<1>b. \A b \in Floor..disk.desc : b \in Blocks /\ b >= prune.blk - 1
  BY <1>n DEF Blocks
<1>1. Pruned(col, prune.blk) \in Columns
  BY DEF Pruned, Columns, Stored
<1>2. \A v \in Blocks, a \in Accounts : col[v][a] = Absent => Pruned(col, prune.blk)[v][a] = Absent
  BY DEF Pruned
<1> QED BY <1>1, <1>2, <1>b, <1>p, SeekPruned, NewestKept

\* A step of a prune that takes done from what is left, and adds next.
PruneTo(done, next, roots, storageRoots) ==
    /\ done \in prune.left /\ prune' \in PruneRecord
    /\ prune'.blk = prune.blk /\ prune'.torn = prune.torn
    /\ prune'.left = (prune.left \ {done}) \cup next
    /\ prune'.roots = roots /\ prune'.storageRoots = storageRoots
    /\ UNCHANGED <<batch, queue, exec, disabled, opening, stops, state_desc, pending, contents,
                   pool, reader, wrong>>

\* What such a step leaves alone.
LEMMA PruneToFrame ==
  ASSUME IInv, NEW done, NEW next, NEW roots, NEW storageRoots, PruneTo(done, next, roots, storageRoots),
         disk' \in DiskRecord, disk'.desc = disk.desc, disk'.latest = disk.latest, disk'.status = disk.status
  PROVE  /\ Types' /\ Phases' /\ PutsTell' /\ ViewsTell' /\ HandlesShow'
         /\ contents' = contents /\ Floor' = Floor /\ exec = "idle" /\ state_desc = disk.desc
<1>i. Types /\ Phases /\ DiskTypes
  BY DEF IInv, Types
<1>a. /\ done \in prune.left /\ prune' \in PruneRecord /\ prune'.blk = prune.blk
      /\ UNCHANGED <<batch, queue, exec, disabled, opening, stops, state_desc, pending, contents,
                   pool, reader, wrong>>
  BY DEF PruneTo
<1>e. exec = "idle" /\ state_desc = disk.desc
  <2>1. prune.left # {}
    BY <1>a
  <2> QED BY <2>1, <1>i DEF Phases
<1>c. contents' = contents
  BY <1>a
<1>d. DiskTypes'
  BY <1>a, <1>c, <1>i DEF DiskTypes
<1>f. Types' /\ Phases' /\ PutsTell' /\ ViewsTell' /\ HandlesShow'
  BY <1>a, <1>d, <1>e, PruneFrame
<1>g. Floor' = Floor
  BY <1>a DEF Floor
<1> QED BY <1>c, <1>e, <1>f, <1>g

\* A prune that leaves the columns of values alone.
LEMMA ColumnsStay ==
  ASSUME IInv, disk'.vals = disk.vals, disk'.slots = disk.slots, disk'.desc = disk.desc,
         contents' = contents, Floor' = Floor
  PROVE  DiskTells'
<1>i. Types /\ DiskTells
  BY DEF IInv
<1>1. \A b \in Blocks : Fresh(b)'
  BY <1>i DEF DiskTells, Fresh
<1> QED BY <1>1, <1>i, DiskFrame

\* The steps of recreateMainTrie and deleteStateRoot by name.
CollectRoots ==
    /\ "collect roots" \in prune.left /\ disk' = disk /\ UNCHANGED <<batch, queue, exec, readVars, openVars, blockVars>>
    /\ prune' = [Step("collect roots", {"drop roots"}) EXCEPT !.roots = disk.roots \cap (prune.blk..state_desc)]

DropRoots ==
    /\ "drop roots" \in prune.left /\ disk' = [disk EXCEPT !.roots = {}] /\ UNCHANGED <<batch, queue, exec, readVars, openVars, blockVars>>
    /\ prune' = Step("drop roots", {"put roots"})

PutRoots ==
    /\ "put roots" \in prune.left /\ disk' = [disk EXCEPT !.roots = prune.roots] /\ UNCHANGED <<batch, queue, exec, readVars, openVars, blockVars>>
    /\ prune' = Step("put roots", {})

Kept == {e \in AllVersions : e[1] \notin Superseded(disk.vals, e[2], prune.blk)}
Named == {<<e[2], disk.vals[e[1]][e[2]].root>> : e \in Kept}

Scan ==
    /\ "scan" \in prune.left /\ disk' = disk /\ UNCHANGED <<batch, queue, exec, readVars, openVars, blockVars>>
    /\ prune' = [Step("scan", {"values", "drop storage"}) EXCEPT !.storageRoots = disk.storageRoots \cap Named]

DeleteValues ==
    /\ "values" \in prune.left /\ disk' = [disk EXCEPT !.vals = Pruned(@, prune.blk)] /\ UNCHANGED <<batch, queue, exec, readVars, openVars, blockVars>>
    /\ prune' = Step("values", {})

DropStorage ==
    /\ "drop storage" \in prune.left /\ disk' = [disk EXCEPT !.storageRoots = {}] /\ UNCHANGED <<batch, queue, exec, readVars, openVars, blockVars>>
    /\ prune' = Step("drop storage", {"put storage"})

PutStorage ==
    /\ "put storage" \in prune.left /\ disk' = [disk EXCEPT !.storageRoots = prune.storageRoots] /\ UNCHANGED <<batch, queue, exec, readVars, openVars, blockVars>>
    /\ prune' = Step("put storage", {})

\* recreateMainTrie and deleteStateRoot, taken apart into their single steps.
LEMMA PruneSteps ==
  /\ recreateMainTrie => CollectRoots \/ DropRoots \/ PutRoots
  /\ deleteStateRoot => Scan \/ DeleteValues \/ DropStorage \/ PutStorage
<1>1. recreateMainTrie => CollectRoots \/ DropRoots \/ PutRoots
  BY DEF recreateMainTrie, CollectRoots, DropRoots, PutRoots
<1>2. deleteStateRoot => Scan \/ DeleteValues \/ DropStorage \/ PutStorage
  BY DEF deleteStateRoot, Scan, DeleteValues, DropStorage, PutStorage, Kept, Named
<1> QED BY <1>1, <1>2

\* Deleting the superseded values preserves the inductive invariant.
LEMMA DeleteStateValuesStep ==
  ASSUME IInv, deleteStateValues
  PROVE  IInv'
<1>i. Types /\ DiskTells /\ NodesKept /\ DiskTypes
  BY DEF IInv, Types
<1>t. disk \in DiskRecord /\ prune \in PruneRecord
  BY <1>i DEF DiskTypes
<1>c. /\ Pruned(disk.slots, prune.blk) \in Columns
      /\ \A b \in Floor..disk.desc, a \in Accounts :
           \A m : Top(disk.slots, a, b, m) => Top(Pruned(disk.slots, prune.blk), a, b, m)
      /\ \A v \in Blocks, a \in Accounts : disk.slots[v][a] = Absent => Pruned(disk.slots, prune.blk)[v][a] = Absent
  <2>1. disk.slots \in Columns
    BY <1>t DEF DiskRecord
  <2> QED BY <2>1, <1>i, PrunedColumns
<1>d. disk' = [disk EXCEPT !.slots = Pruned(disk.slots, prune.blk)] /\ "slots" \in prune.left
  BY DEF deleteStateValues
<1>e. /\ disk' \in DiskRecord
      /\ disk'.desc = disk.desc /\ disk'.latest = disk.latest /\ disk'.status = disk.status
      /\ disk'.vals = disk.vals /\ disk'.slots = Pruned(disk.slots, prune.blk)
      /\ disk'.roots = disk.roots /\ disk'.storageRoots = disk.storageRoots
  BY <1>d, <1>t, <1>c DEF DiskRecord
<1>r. /\ prune' \in PruneRecord /\ prune'.blk = prune.blk /\ prune'.torn = prune.torn
      /\ prune'.left = (prune.left \ {"slots"}) \cup {}
      /\ prune'.roots = prune.roots /\ prune'.storageRoots = prune.storageRoots
  <2>1. PICK left : left = (prune.left \ {"slots"}) \cup {}
    OBVIOUS
  <2>2. left \in SUBSET Steps
    <3>1. prune.left \in SUBSET Steps
      BY <1>t DEF PruneRecord
    <3> QED BY <2>1, <3>1 DEF Steps
  <2>3. PICK R : R = prune.roots
    OBVIOUS
  <2>4. PICK S : S = prune.storageRoots
    OBVIOUS
  <2>5. PICK q : q = prune'
    OBVIOUS
  <2>6. q = [prune EXCEPT !.left = left] /\ R = prune.roots /\ S = prune.storageRoots
    BY <2>1, <2>3, <2>4, <2>5 DEF deleteStateValues, Step
  <2>7. R \in SUBSET Blocks /\ S \in SUBSET (Accounts \X Blocks)
    BY <2>3, <2>4, <1>t DEF DiskRecord, PruneRecord
  <2>8. /\ q \in PruneRecord /\ q.blk = prune.blk /\ q.torn = prune.torn /\ q.left = left
        /\ q.roots = R /\ q.storageRoots = S
    BY <2>2, <2>6, <2>7, <1>t DEF PruneRecord
  <2> QED BY <2>1, <2>3, <2>4, <2>5, <2>8
<1>u. UNCHANGED <<batch, queue, exec, disabled, opening, stops, state_desc, pending, contents, pool, reader, wrong>>
  BY DEF readVars, openVars, blockVars, deleteStateValues
<1>p. PruneTo("slots", {}, prune.roots, prune.storageRoots)
  BY <1>d, <1>r, <1>u DEF PruneTo
<1>f. /\ Types' /\ Phases' /\ PutsTell' /\ ViewsTell' /\ HandlesShow'
      /\ contents' = contents /\ Floor' = Floor /\ state_desc = disk.desc
  BY <1>p, <1>e, PruneToFrame
<1>4. DiskTells'
  <2>1. \A b \in Floor..disk.desc, a \in Accounts : \A m : Top(disk.slots, a, b, m) => Top(disk'.slots, a, b, m)
    BY <1>c, <1>e
  <2>2. \A v \in Blocks, a \in Accounts : disk.slots[v][a] = Absent => disk'.slots[v][a] = Absent
    BY <1>c, <1>e
  <2>3. \A b \in Blocks : Fresh(b)'
    BY <1>f, <1>i DEF DiskTells, Fresh
  <2> QED BY <2>1, <2>2, <2>3, <1>i, <1>e, <1>f DEF DiskTells
<1>5. NodesKept'
  BY <1>i, <1>e, <1>f, <1>r DEF NodesKept, Holds
<1> QED BY <1>f, <1>4, <1>5 DEF IInv

\* Deleting the superseded storage values preserves the inductive invariant.
LEMMA DeleteValuesStep ==
  ASSUME IInv, DeleteValues
  PROVE  IInv'
<1>i. Types /\ DiskTells /\ NodesKept /\ DiskTypes
  BY DEF IInv, Types
<1>t. disk \in DiskRecord /\ prune \in PruneRecord
  BY <1>i DEF DiskTypes
<1>c. /\ Pruned(disk.vals, prune.blk) \in Columns
      /\ \A b \in Floor..disk.desc, a \in Accounts : Seek(Pruned(disk.vals, prune.blk), a, b) = Seek(disk.vals, a, b)
      /\ \A v \in Blocks, a \in Accounts : disk.vals[v][a] = Absent => Pruned(disk.vals, prune.blk)[v][a] = Absent
  <2>1. disk.vals \in Columns
    BY <1>t DEF DiskRecord
  <2> QED BY <2>1, <1>i, PrunedColumns
<1>d. disk' = [disk EXCEPT !.vals = Pruned(disk.vals, prune.blk)] /\ "values" \in prune.left
  BY DEF DeleteValues
<1>e. /\ disk' \in DiskRecord
      /\ disk'.desc = disk.desc /\ disk'.latest = disk.latest /\ disk'.status = disk.status
      /\ disk'.slots = disk.slots /\ disk'.vals = Pruned(disk.vals, prune.blk)
      /\ disk'.roots = disk.roots /\ disk'.storageRoots = disk.storageRoots
  BY <1>d, <1>t, <1>c DEF DiskRecord
<1>r. /\ prune' \in PruneRecord /\ prune'.blk = prune.blk /\ prune'.torn = prune.torn
      /\ prune'.left = (prune.left \ {"values"}) \cup {}
      /\ prune'.roots = prune.roots /\ prune'.storageRoots = prune.storageRoots
  <2>1. PICK left : left = (prune.left \ {"values"}) \cup {}
    OBVIOUS
  <2>2. left \in SUBSET Steps
    <3>1. prune.left \in SUBSET Steps
      BY <1>t DEF PruneRecord
    <3> QED BY <2>1, <3>1 DEF Steps
  <2>3. PICK R : R = prune.roots
    OBVIOUS
  <2>4. PICK S : S = prune.storageRoots
    OBVIOUS
  <2>5. PICK q : q = prune'
    OBVIOUS
  <2>6. q = [prune EXCEPT !.left = left] /\ R = prune.roots /\ S = prune.storageRoots
    BY <2>1, <2>3, <2>4, <2>5 DEF DeleteValues, Step
  <2>7. R \in SUBSET Blocks /\ S \in SUBSET (Accounts \X Blocks)
    BY <2>3, <2>4, <1>t DEF DiskRecord, PruneRecord
  <2>8. /\ q \in PruneRecord /\ q.blk = prune.blk /\ q.torn = prune.torn /\ q.left = left
        /\ q.roots = R /\ q.storageRoots = S
    BY <2>2, <2>6, <2>7, <1>t DEF PruneRecord
  <2> QED BY <2>1, <2>3, <2>4, <2>5, <2>8
<1>u. UNCHANGED <<batch, queue, exec, disabled, opening, stops, state_desc, pending, contents, pool, reader, wrong>>
  BY DEF readVars, openVars, blockVars, DeleteValues
<1>p. PruneTo("values", {}, prune.roots, prune.storageRoots)
  BY <1>d, <1>r, <1>u DEF PruneTo
<1>f. /\ Types' /\ Phases' /\ PutsTell' /\ ViewsTell' /\ HandlesShow'
      /\ contents' = contents /\ Floor' = Floor /\ state_desc = disk.desc
  BY <1>p, <1>e, PruneToFrame
<1>4. DiskTells'
  <2>1. \A v \in Blocks, a \in Accounts : disk.vals[v][a] = Absent => disk'.vals[v][a] = Absent
    BY <1>c, <1>e
  <2>2. \A b \in Blocks : Fresh(b)'
    BY <1>f, <1>i DEF DiskTells, Fresh
  <2>3. Shows(contents, disk'.vals, Floor, disk.desc)
    BY <1>c, <1>e, <1>i DEF DiskTells, Shows
  <2> QED BY <2>1, <2>2, <2>3, <1>i, <1>e, <1>f DEF DiskTells
<1>5. NodesKept'
  BY <1>i, <1>e, <1>f, <1>r DEF NodesKept, Holds
<1> QED BY <1>f, <1>4, <1>5 DEF IInv

\* Collecting the state roots to keep preserves the inductive invariant.
LEMMA CollectRootsStep ==
  ASSUME IInv, CollectRoots
  PROVE  IInv'
<1>i. Types /\ DiskTells /\ NodesKept /\ DiskTypes
  BY DEF IInv, Types
<1>t. disk \in DiskRecord /\ prune \in PruneRecord
  BY <1>i DEF DiskTypes
<1>d. disk' = disk /\ "collect roots" \in prune.left
  BY DEF CollectRoots
<1>e. /\ disk' \in DiskRecord
      /\ disk'.desc = disk.desc /\ disk'.latest = disk.latest /\ disk'.status = disk.status
      /\ disk'.vals = disk.vals /\ disk'.slots = disk.slots /\ disk'.roots = disk.roots /\ disk'.storageRoots = disk.storageRoots
  BY <1>d, <1>t DEF DiskRecord, PruneRecord
<1>r. /\ prune' \in PruneRecord /\ prune'.blk = prune.blk /\ prune'.torn = prune.torn
      /\ prune'.left = (prune.left \ {"collect roots"}) \cup {"drop roots"}
      /\ prune'.roots = disk.roots \cap (prune.blk..state_desc) /\ prune'.storageRoots = prune.storageRoots
  <2>1. PICK left : left = (prune.left \ {"collect roots"}) \cup {"drop roots"}
    OBVIOUS
  <2>2. left \in SUBSET Steps
    <3>1. prune.left \in SUBSET Steps
      BY <1>t DEF PruneRecord
    <3> QED BY <2>1, <3>1 DEF Steps
  <2>3. PICK R : R = disk.roots \cap (prune.blk..state_desc)
    OBVIOUS
  <2>4. PICK S : S = prune.storageRoots
    OBVIOUS
  <2>5. PICK q : q = prune'
    OBVIOUS
  <2>6. q = [[prune EXCEPT !.left = left] EXCEPT !.roots = R] /\ S = prune.storageRoots
    BY <2>1, <2>3, <2>4, <2>5 DEF CollectRoots, Step
  <2>7. R \in SUBSET Blocks /\ S \in SUBSET (Accounts \X Blocks)
    BY <2>3, <2>4, <1>t DEF DiskRecord, PruneRecord
  <2>8. /\ q \in PruneRecord /\ q.blk = prune.blk /\ q.torn = prune.torn /\ q.left = left
        /\ q.roots = R /\ q.storageRoots = S
    BY <2>2, <2>6, <2>7, <1>t DEF PruneRecord
  <2> QED BY <2>1, <2>3, <2>4, <2>5, <2>8
<1>u. UNCHANGED <<batch, queue, exec, disabled, opening, stops, state_desc, pending, contents, pool, reader, wrong>>
  BY DEF readVars, openVars, blockVars, CollectRoots
<1>p. PruneTo("collect roots", {"drop roots"}, disk.roots \cap (prune.blk..state_desc), prune.storageRoots)
  BY <1>d, <1>r, <1>u DEF PruneTo
<1>f. /\ Types' /\ Phases' /\ PutsTell' /\ ViewsTell' /\ HandlesShow'
      /\ contents' = contents /\ Floor' = Floor /\ state_desc = disk.desc
  BY <1>p, <1>e, PruneToFrame
<1>4. DiskTells'
  BY <1>e, <1>f, ColumnsStay
<1>5. NodesKept'
  <2>1. {"drop roots", "put roots"} \cap prune.left = {}
    BY <1>i, <1>d DEF NodesKept
  <2>2. "collect roots" \notin prune'.left /\ "put roots" \notin prune'.left
    BY <2>1, <1>r
  <2> QED BY <2>1, <2>2, <1>i, <1>e, <1>f, <1>r DEF NodesKept, Holds
<1> QED BY <1>f, <1>4, <1>5 DEF IInv

\* Dropping the column of state nodes preserves the inductive invariant.
LEMMA DropRootsStep ==
  ASSUME IInv, DropRoots
  PROVE  IInv'
<1>i. Types /\ DiskTells /\ NodesKept /\ DiskTypes
  BY DEF IInv, Types
<1>t. disk \in DiskRecord /\ prune \in PruneRecord
  BY <1>i DEF DiskTypes
<1>d. disk' = [disk EXCEPT !.roots = {}] /\ "drop roots" \in prune.left
  BY DEF DropRoots
<1>e. /\ disk' \in DiskRecord
      /\ disk'.desc = disk.desc /\ disk'.latest = disk.latest /\ disk'.status = disk.status
      /\ disk'.vals = disk.vals /\ disk'.slots = disk.slots /\ disk'.storageRoots = disk.storageRoots
  BY <1>d, <1>t DEF DiskRecord, PruneRecord
<1>r. /\ prune' \in PruneRecord /\ prune'.blk = prune.blk /\ prune'.torn = prune.torn
      /\ prune'.left = (prune.left \ {"drop roots"}) \cup {"put roots"}
      /\ prune'.roots = prune.roots /\ prune'.storageRoots = prune.storageRoots
  <2>1. PICK left : left = (prune.left \ {"drop roots"}) \cup {"put roots"}
    OBVIOUS
  <2>2. left \in SUBSET Steps
    <3>1. prune.left \in SUBSET Steps
      BY <1>t DEF PruneRecord
    <3> QED BY <2>1, <3>1 DEF Steps
  <2>3. PICK R : R = prune.roots
    OBVIOUS
  <2>4. PICK S : S = prune.storageRoots
    OBVIOUS
  <2>5. PICK q : q = prune'
    OBVIOUS
  <2>6. q = [prune EXCEPT !.left = left] /\ R = prune.roots /\ S = prune.storageRoots
    BY <2>1, <2>3, <2>4, <2>5 DEF DropRoots, Step
  <2>7. R \in SUBSET Blocks /\ S \in SUBSET (Accounts \X Blocks)
    BY <2>3, <2>4, <1>t DEF DiskRecord, PruneRecord
  <2>8. /\ q \in PruneRecord /\ q.blk = prune.blk /\ q.torn = prune.torn /\ q.left = left
        /\ q.roots = R /\ q.storageRoots = S
    BY <2>2, <2>6, <2>7, <1>t DEF PruneRecord
  <2> QED BY <2>1, <2>3, <2>4, <2>5, <2>8
<1>u. UNCHANGED <<batch, queue, exec, disabled, opening, stops, state_desc, pending, contents, pool, reader, wrong>>
  BY DEF readVars, openVars, blockVars, DropRoots
<1>p. PruneTo("drop roots", {"put roots"}, prune.roots, prune.storageRoots)
  BY <1>d, <1>r, <1>u DEF PruneTo
<1>f. /\ Types' /\ Phases' /\ PutsTell' /\ ViewsTell' /\ HandlesShow'
      /\ contents' = contents /\ Floor' = Floor /\ state_desc = disk.desc
  BY <1>p, <1>e, PruneToFrame
<1>4. DiskTells'
  BY <1>e, <1>f, ColumnsStay
<1>5. NodesKept'
  <2>1. "put roots" \in prune'.left /\ "collect roots" \notin prune'.left
    BY <1>i, <1>d, <1>r DEF NodesKept
  <2> QED BY <2>1, <1>i, <1>d, <1>e, <1>f, <1>r DEF NodesKept, Holds
<1> QED BY <1>f, <1>4, <1>5 DEF IInv

\* Writing back the kept state nodes preserves the inductive invariant.
LEMMA PutRootsStep ==
  ASSUME IInv, PutRoots
  PROVE  IInv'
<1>i. Types /\ DiskTells /\ NodesKept /\ DiskTypes
  BY DEF IInv, Types
<1>t. disk \in DiskRecord /\ prune \in PruneRecord
  BY <1>i DEF DiskTypes
<1>d. disk' = [disk EXCEPT !.roots = prune.roots] /\ "put roots" \in prune.left
  BY DEF PutRoots
<1>e. /\ disk' \in DiskRecord
      /\ disk'.desc = disk.desc /\ disk'.latest = disk.latest /\ disk'.status = disk.status
      /\ disk'.vals = disk.vals /\ disk'.slots = disk.slots /\ disk'.storageRoots = disk.storageRoots /\ disk'.roots = prune.roots
  BY <1>d, <1>t DEF DiskRecord, PruneRecord
<1>r. /\ prune' \in PruneRecord /\ prune'.blk = prune.blk /\ prune'.torn = prune.torn
      /\ prune'.left = (prune.left \ {"put roots"}) \cup {}
      /\ prune'.roots = prune.roots /\ prune'.storageRoots = prune.storageRoots
  <2>1. PICK left : left = (prune.left \ {"put roots"}) \cup {}
    OBVIOUS
  <2>2. left \in SUBSET Steps
    <3>1. prune.left \in SUBSET Steps
      BY <1>t DEF PruneRecord
    <3> QED BY <2>1, <3>1 DEF Steps
  <2>3. PICK R : R = prune.roots
    OBVIOUS
  <2>4. PICK S : S = prune.storageRoots
    OBVIOUS
  <2>5. PICK q : q = prune'
    OBVIOUS
  <2>6. q = [prune EXCEPT !.left = left] /\ R = prune.roots /\ S = prune.storageRoots
    BY <2>1, <2>3, <2>4, <2>5 DEF PutRoots, Step
  <2>7. R \in SUBSET Blocks /\ S \in SUBSET (Accounts \X Blocks)
    BY <2>3, <2>4, <1>t DEF DiskRecord, PruneRecord
  <2>8. /\ q \in PruneRecord /\ q.blk = prune.blk /\ q.torn = prune.torn /\ q.left = left
        /\ q.roots = R /\ q.storageRoots = S
    BY <2>2, <2>6, <2>7, <1>t DEF PruneRecord
  <2> QED BY <2>1, <2>3, <2>4, <2>5, <2>8
<1>u. UNCHANGED <<batch, queue, exec, disabled, opening, stops, state_desc, pending, contents, pool, reader, wrong>>
  BY DEF readVars, openVars, blockVars, PutRoots
<1>p. PruneTo("put roots", {}, prune.roots, prune.storageRoots)
  BY <1>d, <1>r, <1>u DEF PruneTo
<1>f. /\ Types' /\ Phases' /\ PutsTell' /\ ViewsTell' /\ HandlesShow'
      /\ contents' = contents /\ Floor' = Floor /\ state_desc = disk.desc
  BY <1>p, <1>e, PruneToFrame
<1>4. DiskTells'
  BY <1>e, <1>f, ColumnsStay
<1>5. NodesKept'
  BY <1>i, <1>d, <1>e, <1>f, <1>r DEF NodesKept, Holds
<1> QED BY <1>f, <1>4, <1>5 DEF IInv

\* The scan for the storage roots to keep preserves the inductive invariant.
LEMMA ScanStep ==
  ASSUME IInv, Scan
  PROVE  IInv'
<1>i. Types /\ DiskTells /\ NodesKept /\ DiskTypes
  BY DEF IInv, Types
<1>t. disk \in DiskRecord /\ prune \in PruneRecord
  BY <1>i DEF DiskTypes
<1>d. disk' = disk /\ "scan" \in prune.left
  BY DEF Scan
<1>e. /\ disk' \in DiskRecord
      /\ disk'.desc = disk.desc /\ disk'.latest = disk.latest /\ disk'.status = disk.status
      /\ disk'.vals = disk.vals /\ disk'.slots = disk.slots /\ disk'.roots = disk.roots /\ disk'.storageRoots = disk.storageRoots
  BY <1>d, <1>t DEF DiskRecord, PruneRecord
<1>r. /\ prune' \in PruneRecord /\ prune'.blk = prune.blk /\ prune'.torn = prune.torn
      /\ prune'.left = (prune.left \ {"scan"}) \cup {"values", "drop storage"}
      /\ prune'.roots = prune.roots /\ prune'.storageRoots = disk.storageRoots \cap Named
  <2>1. PICK left : left = (prune.left \ {"scan"}) \cup {"values", "drop storage"}
    OBVIOUS
  <2>2. left \in SUBSET Steps
    <3>1. prune.left \in SUBSET Steps
      BY <1>t DEF PruneRecord
    <3> QED BY <2>1, <3>1 DEF Steps
  <2>3. PICK R : R = prune.roots
    OBVIOUS
  <2>4. PICK S : S = disk.storageRoots \cap Named
    OBVIOUS
  <2>5. PICK q : q = prune'
    OBVIOUS
  <2>6. q = [[prune EXCEPT !.left = left] EXCEPT !.storageRoots = S] /\ R = prune.roots
    BY <2>1, <2>3, <2>4, <2>5 DEF Scan, Step
  <2>7. R \in SUBSET Blocks /\ S \in SUBSET (Accounts \X Blocks)
    BY <2>3, <2>4, <1>t DEF DiskRecord, PruneRecord
  <2>8. /\ q \in PruneRecord /\ q.blk = prune.blk /\ q.torn = prune.torn /\ q.left = left
        /\ q.roots = R /\ q.storageRoots = S
    BY <2>2, <2>6, <2>7, <1>t DEF PruneRecord
  <2> QED BY <2>1, <2>3, <2>4, <2>5, <2>8
<1>u. UNCHANGED <<batch, queue, exec, disabled, opening, stops, state_desc, pending, contents, pool, reader, wrong>>
  BY DEF readVars, openVars, blockVars, Scan
<1>p. PruneTo("scan", {"values", "drop storage"}, prune.roots, disk.storageRoots \cap Named)
  BY <1>d, <1>r, <1>u DEF PruneTo
<1>f. /\ Types' /\ Phases' /\ PutsTell' /\ ViewsTell' /\ HandlesShow'
      /\ contents' = contents /\ Floor' = Floor /\ state_desc = disk.desc
  BY <1>p, <1>e, PruneToFrame
<1>4. DiskTells'
  BY <1>e, <1>f, ColumnsStay
<1>5. NodesKept'
  <2>2. {"drop storage", "put storage"} \cap prune.left = {}
    BY <1>i, <1>d DEF NodesKept
  <2>3. "scan" \notin prune'.left /\ "put storage" \notin prune'.left
    BY <2>2, <1>r
  <2>4. ASSUME Holds(disk.storageRoots), NEW b \in Floor..disk.desc, NEW a \in Accounts,
               contents[b][a] # Absent, contents[b][a].root # NIL
        PROVE  <<a, contents[b][a].root>> \in disk.storageRoots \cap Named
    <3>n. /\ Blocks \subseteq Nat /\ prune.blk \in Nat /\ Floor \in Nat /\ disk.desc \in Int /\ disk.desc <= LastBlock
          /\ Floor = (IF prune.blk = 0 THEN 0 ELSE prune.blk - 1) /\ LastBlock \in Nat
      BY <1>i, Numbers
    <3>p. prune.blk \in Blocks
      BY <1>t DEF PruneRecord
    <3>b. b \in Nat /\ b <= LastBlock /\ b >= prune.blk - 1
      <4>1. b \in Int /\ b >= Floor /\ b <= disk.desc
        BY <2>4, <3>n
      <4> QED BY <4>1, <3>n
    <3>c. b \in Blocks
      BY <3>b, <3>n DEF Blocks
    <3>1. Seek(disk.vals, a, b) = contents[b][a]
      BY <1>i DEF DiskTells, Shows
    <3>2. \E m : Top(disk.vals, a, b, m)
      <4>1. (\A v \in 0..b : disk.vals[v][a] = Absent) => Seek(disk.vals, a, b) = Absent
        BY SeekNone
      <4>2. (\E m : Top(disk.vals, a, b, m)) \/ (\A v \in 0..b : disk.vals[v][a] = Absent)
        BY <3>c, TopOrNone
      <4> QED BY <3>1, <4>1, <4>2, <2>4
    <3>3. PICK m : Top(disk.vals, a, b, m)
      BY <3>2
    <3>4. Seek(disk.vals, a, b) = IF disk.vals[m][a] = Empty THEN Absent ELSE disk.vals[m][a]
      BY <3>3, <3>c, SeekTop
    <3>5. disk.vals[m][a] = contents[b][a]
      BY <3>1, <3>4, <2>4
    <3>6. m \notin Superseded(disk.vals, a, prune.blk)
      BY <3>3, <3>b, <3>c, <3>p, NewestKept
    <3>7. m \in Blocks
      <4>1. m \in 0..b
        BY <3>3 DEF Top
      <4> QED BY <4>1, <3>b, <3>n DEF Blocks
    <3>8. PICK e : e = <<m, a>>
      OBVIOUS
    <3>9. e \in Kept /\ e[1] = m /\ e[2] = a
      BY <3>5, <3>6, <3>7, <3>8, <2>4 DEF AllVersions, Kept
    <3>10. <<a, contents[b][a].root>> \in Named
      BY <3>5, <3>9 DEF Named
    <3> QED BY <3>10, <2>4 DEF Holds
  <2>5. Holds(disk.storageRoots) => Holds(prune.storageRoots)'
    BY <2>4, <1>f, <1>e, <1>r DEF Holds
  <2> QED BY <2>2, <2>3, <2>5, <1>i, <1>e, <1>f, <1>r DEF NodesKept, Holds
<1> QED BY <1>f, <1>4, <1>5 DEF IInv

\* Dropping the column of storage nodes preserves the inductive invariant.
LEMMA DropStorageStep ==
  ASSUME IInv, DropStorage
  PROVE  IInv'
<1>i. Types /\ DiskTells /\ NodesKept /\ DiskTypes
  BY DEF IInv, Types
<1>t. disk \in DiskRecord /\ prune \in PruneRecord
  BY <1>i DEF DiskTypes
<1>d. disk' = [disk EXCEPT !.storageRoots = {}] /\ "drop storage" \in prune.left
  BY DEF DropStorage
<1>e. /\ disk' \in DiskRecord
      /\ disk'.desc = disk.desc /\ disk'.latest = disk.latest /\ disk'.status = disk.status
      /\ disk'.vals = disk.vals /\ disk'.slots = disk.slots /\ disk'.roots = disk.roots
  BY <1>d, <1>t DEF DiskRecord, PruneRecord
<1>r. /\ prune' \in PruneRecord /\ prune'.blk = prune.blk /\ prune'.torn = prune.torn
      /\ prune'.left = (prune.left \ {"drop storage"}) \cup {"put storage"}
      /\ prune'.roots = prune.roots /\ prune'.storageRoots = prune.storageRoots
  <2>1. PICK left : left = (prune.left \ {"drop storage"}) \cup {"put storage"}
    OBVIOUS
  <2>2. left \in SUBSET Steps
    <3>1. prune.left \in SUBSET Steps
      BY <1>t DEF PruneRecord
    <3> QED BY <2>1, <3>1 DEF Steps
  <2>3. PICK R : R = prune.roots
    OBVIOUS
  <2>4. PICK S : S = prune.storageRoots
    OBVIOUS
  <2>5. PICK q : q = prune'
    OBVIOUS
  <2>6. q = [prune EXCEPT !.left = left] /\ R = prune.roots /\ S = prune.storageRoots
    BY <2>1, <2>3, <2>4, <2>5 DEF DropStorage, Step
  <2>7. R \in SUBSET Blocks /\ S \in SUBSET (Accounts \X Blocks)
    BY <2>3, <2>4, <1>t DEF DiskRecord, PruneRecord
  <2>8. /\ q \in PruneRecord /\ q.blk = prune.blk /\ q.torn = prune.torn /\ q.left = left
        /\ q.roots = R /\ q.storageRoots = S
    BY <2>2, <2>6, <2>7, <1>t DEF PruneRecord
  <2> QED BY <2>1, <2>3, <2>4, <2>5, <2>8
<1>u. UNCHANGED <<batch, queue, exec, disabled, opening, stops, state_desc, pending, contents, pool, reader, wrong>>
  BY DEF readVars, openVars, blockVars, DropStorage
<1>p. PruneTo("drop storage", {"put storage"}, prune.roots, prune.storageRoots)
  BY <1>d, <1>r, <1>u DEF PruneTo
<1>f. /\ Types' /\ Phases' /\ PutsTell' /\ ViewsTell' /\ HandlesShow'
      /\ contents' = contents /\ Floor' = Floor /\ state_desc = disk.desc
  BY <1>p, <1>e, PruneToFrame
<1>4. DiskTells'
  BY <1>e, <1>f, ColumnsStay
<1>5. NodesKept'
  <2>1. "put storage" \in prune'.left /\ "scan" \notin prune'.left
    BY <1>i, <1>d, <1>r DEF NodesKept
  <2> QED BY <2>1, <1>i, <1>d, <1>e, <1>f, <1>r DEF NodesKept, Holds
<1> QED BY <1>f, <1>4, <1>5 DEF IInv

\* Writing back the kept storage nodes preserves the inductive invariant.
LEMMA PutStorageStep ==
  ASSUME IInv, PutStorage
  PROVE  IInv'
<1>i. Types /\ DiskTells /\ NodesKept /\ DiskTypes
  BY DEF IInv, Types
<1>t. disk \in DiskRecord /\ prune \in PruneRecord
  BY <1>i DEF DiskTypes
<1>d. disk' = [disk EXCEPT !.storageRoots = prune.storageRoots] /\ "put storage" \in prune.left
  BY DEF PutStorage
<1>e. /\ disk' \in DiskRecord
      /\ disk'.desc = disk.desc /\ disk'.latest = disk.latest /\ disk'.status = disk.status
      /\ disk'.vals = disk.vals /\ disk'.slots = disk.slots /\ disk'.roots = disk.roots /\ disk'.storageRoots = prune.storageRoots
  BY <1>d, <1>t DEF DiskRecord, PruneRecord
<1>r. /\ prune' \in PruneRecord /\ prune'.blk = prune.blk /\ prune'.torn = prune.torn
      /\ prune'.left = (prune.left \ {"put storage"}) \cup {}
      /\ prune'.roots = prune.roots /\ prune'.storageRoots = prune.storageRoots
  <2>1. PICK left : left = (prune.left \ {"put storage"}) \cup {}
    OBVIOUS
  <2>2. left \in SUBSET Steps
    <3>1. prune.left \in SUBSET Steps
      BY <1>t DEF PruneRecord
    <3> QED BY <2>1, <3>1 DEF Steps
  <2>3. PICK R : R = prune.roots
    OBVIOUS
  <2>4. PICK S : S = prune.storageRoots
    OBVIOUS
  <2>5. PICK q : q = prune'
    OBVIOUS
  <2>6. q = [prune EXCEPT !.left = left] /\ R = prune.roots /\ S = prune.storageRoots
    BY <2>1, <2>3, <2>4, <2>5 DEF PutStorage, Step
  <2>7. R \in SUBSET Blocks /\ S \in SUBSET (Accounts \X Blocks)
    BY <2>3, <2>4, <1>t DEF DiskRecord, PruneRecord
  <2>8. /\ q \in PruneRecord /\ q.blk = prune.blk /\ q.torn = prune.torn /\ q.left = left
        /\ q.roots = R /\ q.storageRoots = S
    BY <2>2, <2>6, <2>7, <1>t DEF PruneRecord
  <2> QED BY <2>1, <2>3, <2>4, <2>5, <2>8
<1>u. UNCHANGED <<batch, queue, exec, disabled, opening, stops, state_desc, pending, contents, pool, reader, wrong>>
  BY DEF readVars, openVars, blockVars, PutStorage
<1>p. PruneTo("put storage", {}, prune.roots, prune.storageRoots)
  BY <1>d, <1>r, <1>u DEF PruneTo
<1>f. /\ Types' /\ Phases' /\ PutsTell' /\ ViewsTell' /\ HandlesShow'
      /\ contents' = contents /\ Floor' = Floor /\ state_desc = disk.desc
  BY <1>p, <1>e, PruneToFrame
<1>4. DiskTells'
  BY <1>e, <1>f, ColumnsStay
<1>5. NodesKept'
  BY <1>i, <1>d, <1>e, <1>f, <1>r DEF NodesKept, Holds
<1> QED BY <1>f, <1>4, <1>5 DEF IInv
-----------------------------------------------------------------------------
(* Stopping and starting.                                                  *)

\* A stop of the process at any point preserves the inductive invariant.
LEMMA StopStep ==
  ASSUME IInv, Stop
  PROVE  IInv'
<1>i. Types /\ Phases /\ PutsTell /\ DiskTells /\ NodesKept /\ ViewsTell /\ HandlesShow /\ DiskTypes
  BY DEF IInv, Types
<1>n. /\ Blocks \subseteq Nat /\ NIL = -1 /\ LastBlock \in Nat /\ disk.desc \in Int /\ disk.desc >= -1
      /\ disk.desc <= LastBlock /\ Floor \in Nat
  BY <1>i, Numbers
<1>a. /\ batch' = <<>> /\ queue' = <<>> /\ exec' = "stopped" /\ state_desc' = NIL /\ pending' = NIL
      /\ contents' = [b \in Blocks |-> IF b <= disk.desc THEN contents[b] ELSE NoValues]
      /\ pool' = [generation |-> 0, idle |-> <<>>] /\ reader' = [r \in Readers |-> [at |-> "idle"]]
      /\ opening' = "status" /\ disk' = disk /\ wrong' = wrong
  BY DEF Stop, FreshPool, NoReads
<1>t. disk \in DiskRecord /\ prune \in PruneRecord /\ contents \in [Blocks -> [Accounts -> Value \cup {Absent}]]
  BY <1>i DEF DiskTypes
<1>p. /\ prune' \in PruneRecord /\ prune'.blk = prune.blk /\ prune'.left = {}
      /\ ~prune'.torn => ~prune.torn /\ "put roots" \notin prune.left /\ "put storage" \notin prune.left
  <2>1. PICK torn \in BOOLEAN : torn = (prune.torn \/ {"put roots", "put storage"} \cap prune.left # {})
    OBVIOUS
  <2>2. PICK q : q = prune'
    OBVIOUS
  <2>3. q = [prune EXCEPT !.left = {}, !.roots = {}, !.storageRoots = {}, !.torn = torn]
    BY <2>1, <2>2 DEF Stop
  <2>4. q \in PruneRecord /\ q.blk = prune.blk /\ q.left = {} /\ q.torn = torn
    BY <2>3, <1>t DEF PruneRecord
  <2>5. ~torn => ~prune.torn /\ "put roots" \notin prune.left /\ "put storage" \notin prune.left
    BY <2>1
  <2> QED BY <2>2, <2>4, <2>5
<1>c. \A b \in Blocks : contents'[b] = IF b <= disk.desc THEN contents[b] ELSE NoValues
  BY <1>a
<1>f. Floor' = Floor /\ \A b \in Floor..disk.desc : b \in Blocks /\ contents'[b] = contents[b]
  <2>1. \A b \in Floor..disk.desc : b \in Blocks /\ b <= disk.desc
    BY <1>n DEF Blocks
  <2> QED BY <2>1, <1>c, <1>p DEF Floor
<1>1. Types'
  <2>1. contents' \in [Blocks -> [Accounts -> Value \cup {Absent}]]
    <3>1. NoValues \in [Accounts -> Value \cup {Absent}]
      BY DEF NoValues
    <3> QED BY <3>1, <1>a, <1>t
  <2>2. DiskTypes'
    BY <2>1, <1>p, <1>t, <1>a DEF DiskTypes
  <2>3. BlockTypes'
    BY <1>a DEF BlockTypes
  <2>4. ReadTypes'
    BY <1>a DEF ReadTypes
  <2> QED BY <2>2, <2>3, <2>4 DEF Types
<1>2. Phases'
  BY <1>a, <1>p, <1>i DEF Phases
<1>3. PutsTell'
  BY <1>a DEF PutsTell, Open
<1>4. DiskTells'
  <2>1. \A b \in Blocks : Fresh(b)'
    BY <1>c, <1>i DEF DiskTells, Fresh, NoValues
  <2>2. disk'.vals = disk.vals /\ disk'.slots = disk.slots /\ disk'.desc = disk.desc
    BY <1>a
  <2> QED BY <2>1, <2>2, <1>f, <1>i, DiskFrame
<1>5. NodesKept'
  <2>1. ASSUME ~prune'.torn PROVE Holds(disk.storageRoots)' /\ (prune.blk..disk.desc) \subseteq disk.roots
    BY <2>1, <1>p, <1>a, <1>f, <1>i DEF NodesKept, Holds
  <2> QED BY <2>1, <1>p, <1>a DEF NodesKept
<1>6. ViewsTell'
  <2>1. disk.desc # NIL => disk.desc \in Blocks /\ contents'[disk.desc] = contents[disk.desc]
    <3>1. disk.desc # NIL => disk.desc \in Blocks /\ disk.desc <= disk.desc
      BY <1>n DEF Blocks
    <3> QED BY <3>1, <1>c
  <2>2. \A a \in Accounts : Committed(a)' = Committed(a)
    BY <2>1, <1>a DEF Committed
  <2> QED BY <2>2, <1>a, <1>i DEF ViewsTell
<1>7. HandlesShow'
  <2>1. ~wrong
    BY <1>i DEF HandlesShow
  <2>2. pool'.idle = <<>> /\ \A r \in Readers : reader'[r].at = "idle"
    BY <1>a
  <2> QED BY <2>1, <2>2, <1>a DEF HandlesShow
<1> QED BY <1>1, <1>2, <1>3, <1>4, <1>5, <1>6, <1>7 DEF IInv

\* Steps of a node that starts: only the views and their status change.
LEMMA OpeningFrame ==
  ASSUME IInv, exec = "stopped", UNCHANGED <<batch, queue, exec, prune, pool, reader, wrong, contents, state_desc, pending>>,
         disk' \in DiskRecord, disk'.vals = disk.vals, disk'.slots = disk.slots, disk'.roots = disk.roots,
         disk'.storageRoots = disk.storageRoots, disk'.desc = disk.desc,
         opening' \in {"status", "drop", "mark", "done"}
  PROVE  Types' /\ Phases' /\ PutsTell' /\ DiskTells' /\ NodesKept' /\ HandlesShow'
<1>i. Types /\ Phases /\ PutsTell /\ DiskTells /\ NodesKept /\ ViewsTell /\ HandlesShow /\ DiskTypes
  BY DEF IInv, Types
<1>a. /\ batch' = batch /\ queue' = queue /\ exec' = exec /\ prune' = prune /\ pool' = pool /\ reader' = reader
      /\ wrong' = wrong /\ contents' = contents /\ state_desc' = state_desc /\ pending' = pending
  OBVIOUS
<1>f. Floor' = Floor
  BY <1>a DEF Floor
<1>1. Types'
  <2>1. DiskTypes'
    BY <1>a, <1>i DEF DiskTypes
  <2> QED BY <2>1, <1>a, <1>i DEF Types, BlockTypes, ReadTypes
<1>2. Phases'
  BY <1>a, <1>i DEF Phases
<1>3. PutsTell'
  BY <1>a DEF PutsTell, Open
<1>4. DiskTells'
  BY <1>a, <1>f, ColumnsStay
<1>5. NodesKept'
  BY <1>a, <1>f, <1>i, NodesFrame
<1>7. HandlesShow'
  <2>1. Seen' = Seen
    <3>1. queue = <<>>
      BY <1>i DEF Phases
    <3> QED BY <3>1, <1>a DEF Seen
  <2> QED BY <2>1, <1>a, <1>f, HandlesQuiet
<1> QED BY <1>1, <1>2, <1>3, <1>4, <1>5, <1>7

\* Rebuilding the most recent view while opening preserves the inductive invariant.
LEMMA OpeningStep ==
  ASSUME IInv, OpenStatus \/ OpenRefused \/ OpenDrop \/ OpenMark \/ StopOpening
  PROVE  IInv'
<1>i. Types /\ ViewsTell /\ DiskTypes /\ disk \in DiskRecord
  BY DEF IInv, Types, DiskTypes
<1>u. /\ exec = "stopped" /\ UNCHANGED <<batch, queue, exec, prune, pool, reader, wrong, contents, state_desc, pending>>
  BY DEF OpenStatus, OpenRefused, OpenDrop, OpenMark, StopOpening, readVars, blockVars
<1>1. CASE OpenStatus
  <2>1. /\ disk' = [disk EXCEPT !.status = NextStatus] /\ ViewsSupported /\ disabled' = disabled
        /\ opening' = IF NextStatus = "disabling" THEN "drop" ELSE "done"
    BY <1>1 DEF OpenStatus
  <2>2. NextStatus \in {"", "enabled", "disabling", "disabled"}
    <3>1. disk.status \in {"", "enabled", "disabling", "disabled"}
      BY <1>i DEF DiskRecord
    <3> QED BY <3>1 DEF NextStatus
  <2>3. /\ disk' \in DiskRecord /\ disk'.vals = disk.vals /\ disk'.slots = disk.slots /\ disk'.roots = disk.roots
        /\ disk'.storageRoots = disk.storageRoots /\ disk'.desc = disk.desc /\ disk'.latest = disk.latest
        /\ disk'.status = NextStatus
    BY <2>1, <2>2, <1>i DEF DiskRecord
  <2>4. Types' /\ Phases' /\ PutsTell' /\ DiskTells' /\ NodesKept' /\ HandlesShow'
    BY <2>1, <2>3, <1>u, OpeningFrame
  <2>5. /\ \A a \in Accounts : Committed(a)' = Committed(a)
        /\ exec' = "stopped"
    BY <2>3, <1>u DEF Committed
  <2>6. ViewsTell'
    <3>0. disk.status \in {"", "enabled", "disabling", "disabled"}
      BY <1>i DEF DiskRecord
    <3>1. CASE disk.status = "" /\ ~disabled
      <4>1. NextStatus = "enabled" /\ disk.desc = NIL /\ disk.latest = NoValues
        BY <3>1, <2>1, <1>i DEF NextStatus, ViewsSupported, ViewsTell
      <4>2. \A a \in Accounts : disk.latest[a] = Absent /\ Committed(a) = Absent
        BY <4>1 DEF NoValues, Committed
      <4>3. Absent # Empty
        BY StateDbAssumption
      <4> QED BY <4>1, <4>2, <4>3, <2>1, <2>3, <2>5, <3>1 DEF ViewsTell
    <3>2. CASE disk.status = "" /\ disabled
      <4>1. NextStatus = "disabled"
        BY <3>2 DEF NextStatus
      <4> QED BY <4>1, <2>1, <2>3, <2>5, <3>2 DEF ViewsTell
    <3>3. CASE disk.status = "enabled" /\ disabled
      <4>1. NextStatus = "disabling"
        BY <3>3 DEF NextStatus
      <4> QED BY <4>1, <2>1, <2>3, <2>5, <3>3 DEF ViewsTell
    <3>4. CASE disk.status = "enabled" /\ ~disabled
      <4>1. NextStatus = "enabled"
        BY <3>4 DEF NextStatus
      <4> QED BY <4>1, <2>1, <2>3, <2>5, <3>4, <1>i DEF ViewsTell
    <3>5. CASE disk.status \in {"disabling", "disabled"}
      <4>1. NextStatus = disk.status /\ disabled
        BY <3>5, <2>1 DEF NextStatus, ViewsSupported
      <4> QED BY <4>1, <2>1, <2>3, <2>5, <3>5 DEF ViewsTell
    <3> QED BY <3>0, <3>1, <3>2, <3>3, <3>4, <3>5
  <2> QED BY <2>4, <2>6 DEF IInv
<1>2. CASE OpenRefused
  <2>1. disk' = disk /\ opening = "status" /\ opening' = opening
    BY <1>2 DEF OpenRefused
  <2>4. Types' /\ Phases' /\ PutsTell' /\ DiskTells' /\ NodesKept' /\ HandlesShow'
    BY <2>1, <1>i, <1>u, OpeningFrame
  <2>5. \A a \in Accounts : Committed(a)' = Committed(a)
    BY <2>1, <1>u DEF Committed
  <2>6. ViewsTell'
    BY <2>1, <2>5, <1>i, <1>u DEF ViewsTell
  <2> QED BY <2>4, <2>6 DEF IInv
<1>3. CASE OpenDrop
  <2>1. disk' = [disk EXCEPT !.latest = NoValues] /\ opening = "drop" /\ opening' = "mark" /\ disabled' = disabled
    BY <1>3 DEF OpenDrop
  <2>2. NoValues \in [Accounts -> Stored]
    BY DEF NoValues, Stored
  <2>3. /\ disk' \in DiskRecord /\ disk'.vals = disk.vals /\ disk'.slots = disk.slots /\ disk'.roots = disk.roots
        /\ disk'.storageRoots = disk.storageRoots /\ disk'.desc = disk.desc /\ disk'.status = disk.status
    BY <2>1, <2>2, <1>i DEF DiskRecord
  <2>4. Types' /\ Phases' /\ PutsTell' /\ DiskTells' /\ NodesKept' /\ HandlesShow'
    BY <2>1, <2>3, <1>u, OpeningFrame
  <2>6. ViewsTell'
    BY <2>1, <2>3, <1>i, <1>u DEF ViewsTell
  <2> QED BY <2>4, <2>6 DEF IInv
<1>4. CASE OpenMark
  <2>1. disk' = [disk EXCEPT !.status = "disabled"] /\ opening = "mark" /\ opening' = "done" /\ disabled' = disabled
    BY <1>4 DEF OpenMark
  <2>3. /\ disk' \in DiskRecord /\ disk'.vals = disk.vals /\ disk'.slots = disk.slots /\ disk'.roots = disk.roots
        /\ disk'.storageRoots = disk.storageRoots /\ disk'.desc = disk.desc /\ disk'.status = "disabled"
    BY <2>1, <1>i DEF DiskRecord
  <2>4. Types' /\ Phases' /\ PutsTell' /\ DiskTells' /\ NodesKept' /\ HandlesShow'
    BY <2>1, <2>3, <1>u, OpeningFrame
  <2>6. ViewsTell'
    BY <2>1, <2>3, <1>i, <1>u DEF ViewsTell
  <2> QED BY <2>4, <2>6 DEF IInv
<1>5. CASE StopOpening
  <2>1. disk' = disk /\ opening' = "status"
    BY <1>5 DEF StopOpening
  <2>4. Types' /\ Phases' /\ PutsTell' /\ DiskTells' /\ NodesKept' /\ HandlesShow'
    BY <2>1, <1>i, <1>u, OpeningFrame
  <2>5. \A a \in Accounts : Committed(a)' = Committed(a)
    BY <2>1, <1>u DEF Committed
  <2>6. ViewsTell'
    BY <2>1, <2>5, <1>i, <1>u DEF ViewsTell
  <2> QED BY <2>4, <2>6 DEF IInv
<1> QED BY <1>1, <1>2, <1>3, <1>4, <1>5

\* The end of opening the database preserves the inductive invariant.
LEMMA OpenedStep ==
  ASSUME IInv, Opened
  PROVE  IInv'
<1>i. Types /\ Phases /\ PutsTell /\ DiskTells /\ NodesKept /\ ViewsTell /\ HandlesShow /\ DiskTypes
  BY DEF IInv, Types
<1>a. /\ exec = "stopped" /\ opening = "done" /\ state_desc' = disk.desc /\ pending' = disk.desc /\ exec' = "idle"
      /\ UNCHANGED <<disk, batch, queue, contents, prune, pool, reader, wrong, disabled, opening, stops>>
  BY DEF Opened, readVars, openVars
<1>b. /\ disk' = disk /\ batch' = batch /\ queue' = queue /\ contents' = contents /\ prune' = prune
      /\ pool' = pool /\ reader' = reader /\ wrong' = wrong /\ opening' = opening
      /\ (disabled' <=> disabled)
  BY <1>a
<1>q. queue = <<>> /\ batch = <<>>
  BY <1>a, <1>i DEF Phases
<1>f. Floor' = Floor
  BY <1>b DEF Floor
<1>1. Types'
  <2>1. disk.desc \in Blocks \cup {NIL}
    BY <1>i DEF DiskTypes, DiskRecord
  <2> QED BY <2>1, <1>a, <1>b, <1>i DEF Types, DiskTypes, BlockTypes, ReadTypes
<1>2. Phases'
  BY <1>a, <1>b, <1>q, <1>i DEF Phases
<1>3. PutsTell'
  BY <1>a DEF PutsTell, Open
<1>4. DiskTells'
  BY <1>b, <1>f, ColumnsStay
<1>5. NodesKept'
  BY <1>b, <1>f, <1>i, NodesFrame
<1>6. ViewsTell'
  <2>1. \A a \in Accounts : Committed(a)' = Committed(a)
    BY <1>b DEF Committed
  <2> QED BY <2>1, <1>a, <1>b, <1>i DEF ViewsTell
<1>7. HandlesShow'
  <2>1. ~wrong /\ pool.idle = <<>> /\ \A r \in Readers : reader[r].at = "idle"
    BY <1>a, <1>i DEF HandlesShow
  <2> QED BY <2>1, <1>a, <1>b DEF HandlesShow
<1> QED BY <1>1, <1>2, <1>3, <1>4, <1>5, <1>6, <1>7 DEF IInv
-----------------------------------------------------------------------------
(* The theorems.                                                           *)

\* A step that changes nothing preserves the inductive invariant.
LEMMA StutterStep ==
  ASSUME IInv, UNCHANGED vars
  PROVE  IInv'
<1>i. Types /\ HandlesShow
  BY DEF IInv
<1>a. UNCHANGED <<disk, batch, queue, exec, prune, disabled, opening, stops, state_desc, pending, contents,
                  pool, reader, wrong>>
  BY DEF vars, readVars, openVars, blockVars
<1>f. /\ DiskTypes' /\ BlockTypes' /\ Phases' /\ PutsTell' /\ DiskTells' /\ NodesKept' /\ ViewsTell'
      /\ Floor' = Floor /\ Seen' = Seen
  BY <1>a, ReadFrame
<1>1. ReadTypes'
  BY <1>a, <1>i DEF Types, ReadTypes
<1>2. HandlesShow'
  BY <1>a, <1>f, HandlesQuiet
<1> QED BY <1>f, <1>1, <1>2 DEF IInv, Types

\* Every step of the database preserves the inductive invariant.
LEMMA NextIInv ==
  ASSUME IInv, [Next]_vars
  PROVE  IInv'
<1>1. CASE Execution
  BY <1>1, BeginStep, CommitSubmitStep, JoinStep, ClearSubmitStep, PutStep DEF Execution
<1>2. CASE Writer
  BY <1>2, WriterPutStep, WriterWriteStep, WriterInvalidateStep, WriterPublishStep, WriterUnlockStep,
     WriterClearStep DEF Writer
<1>3. CASE Reading
  BY <1>3, OpenReaderStep, GetStep, ReturnStep DEF Reading
<1>4. CASE Pruning
  BY <1>4, DeleteStateValuesStep, PruneStep, PruneSteps, CollectRootsStep, DropRootsStep, PutRootsStep, ScanStep,
     DeleteValuesStep, DropStorageStep, PutStorageStep DEF Pruning
<1>5. CASE Opening
  BY <1>5, OpeningStep, OpenedStep DEF Opening
<1>6. CASE Stop
  BY <1>6, StopStep
<1>7. CASE UNCHANGED vars
  BY <1>7, StutterStep
<1> QED BY <1>1, <1>2, <1>3, <1>4, <1>5, <1>6, <1>7 DEF Next

\* The inductive invariant holds in every reachable state of the database.
THEOREM DatabaseInvariant == Spec => []IInv
<1>1. Init => IInv
  BY InitIInv
<1>2. IInv /\ [Next]_vars => IInv'
  BY NextIInv
<1> QED BY <1>1, <1>2, PTL DEF Spec

\* The invariant implies that no reader saw a wrong value and the pending block reads its
\* parent.
LEMMA InvariantReadsExact ==
  ASSUME IInv
  PROVE  ReadsExact
<1>1. ~wrong
  BY DEF IInv, HandlesShow
<1> QED BY <1>1, PendingReads DEF ReadsExact

\* The invariant implies that each committed block that is not pruned is on disk whole.
LEMMA InvariantCommittedWhole ==
  ASSUME IInv
  PROVE  CommittedWhole
<1>i. Types /\ DiskTells /\ NodesKept
  BY DEF IInv
<1>n. /\ Blocks \subseteq Nat /\ NIL = -1 /\ LastBlock \in Nat /\ disk.desc \in Int /\ disk.desc >= -1
      /\ disk.desc <= LastBlock /\ Floor \in Nat
  BY <1>i, Numbers
<1>1. \A e \in AllVersions : e[1] <= disk.desc
  <2> SUFFICES ASSUME NEW e \in AllVersions, ~(e[1] <= disk.desc) PROVE FALSE
    OBVIOUS
  <2>1. e[1] \in Blocks /\ e[2] \in Accounts /\ disk.vals[e[1]][e[2]] # Absent
    BY DEF AllVersions
  <2>2. e[1] > disk.desc
    <3>1. PICK b : b = e[1]
      OBVIOUS
    <3>2. b \in Nat /\ ~(b <= disk.desc)
      BY <3>1, <2>1, <1>n
    <3>3. b > disk.desc
      BY <3>2, <1>n
    <3> QED BY <3>3, <3>1
  <2> QED BY <2>1, <2>2, <1>i DEF DiskTells
<1>2. ASSUME NEW b \in Floor..disk.desc, NEW a \in Accounts
      PROVE  /\ Seek(disk.vals, a, b) = contents[b][a]
             /\ contents[b][a] # Absent /\ contents[b][a].root # NIL =>
                  /\ Versions(disk.slots, a, b) # {} /\ Max(Versions(disk.slots, a, b)) = contents[b][a].root
                  /\ prune.left = {} /\ ~prune.torn => <<a, contents[b][a].root>> \in disk.storageRoots
  <2>1. Seek(disk.vals, a, b) = contents[b][a]
    BY <1>i DEF DiskTells, Shows
  <2>2. ASSUME contents[b][a] # Absent, contents[b][a].root # NIL
        PROVE  Versions(disk.slots, a, b) # {} /\ Max(Versions(disk.slots, a, b)) = contents[b][a].root
    <3>1. Top(disk.slots, a, b, contents[b][a].root)
      BY <2>2, <1>i DEF DiskTells
    <3>2. b \in Blocks
      BY <1>n DEF Blocks
    <3> QED BY <3>1, <3>2, SeekTop
  <2>3. ASSUME contents[b][a] # Absent, contents[b][a].root # NIL, prune.left = {}, ~prune.torn
        PROVE  <<a, contents[b][a].root>> \in disk.storageRoots
    BY <2>3, <1>i DEF NodesKept, Holds
  <2> QED BY <2>1, <2>2, <2>3
<1>3. prune.left = {} /\ ~prune.torn => (prune.blk..disk.desc) \subseteq disk.roots
  BY <1>i DEF NodesKept
<1> QED BY <1>1, <1>2, <1>3 DEF CommittedWhole

\* A reader at a committed block gets exactly what that block put, through whichever
\* iterator of the pool, with commits, pruning and restarts in between (DB.GetBlockState,
\* blockReader.Get, VersionedReadWriter).
THEOREM BlocksReadExactly == Spec => []ReadsExact
  BY DatabaseInvariant, InvariantReadsExact, PTL

\* What RocksDB holds after any step, or stop, is the committed blocks: nothing of a block
\* that was not committed, and every value, of accounts and of slots, that pruning keeps.  State
\* and storage roots are there too, except between the steps of a prune and after a stop
\* between them (prune.left, prune.torn), when nodes may miss.
THEOREM DatabaseHoldsBlocks == Spec => []CommittedWhole
  BY DatabaseInvariant, InvariantCommittedWhole, PTL
================================================================================
