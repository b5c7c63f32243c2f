--------------------------- MODULE TransitionState ---------------------------
(***************************************************************************)
(* Execution of a block on the accounts: the transition state with its     *)
(* journal (state_evm), the calls and creations of the EVM that take       *)
(* snapshots of it and go back to them (core/vm/evm.go), the storage of    *)
(* the precompiled contract (contracts/storage), the sink that takes what  *)
(* a transaction leaves (trie_sink.go) and the commit of the block         *)
(* (state_transition.go).                                                  *)
(*                                                                         *)
(* A contract's code is not modelled: a running call may do any operation  *)
(* at any time.  Code is present or absent, gas is what of its fee a       *)
(* transaction gets back, an address a creation computes is any of         *)
(* Creatable.  The thread of the sink that writes the tries works in the   *)
(* order of submission and is joined by the commit: it has no step.        *)
(***************************************************************************)
EXTENDS Integers, Sequences, FiniteSets, FiniteSetsExt, TLC

CONSTANTS Addr,       \* accounts
          Precompile, \* the account of the precompiled contract
          Creatable,  \* addresses that creations may compute
          Key,        \* storage slots
          MaxVal,     \* slots hold 0..MaxVal, 0 for an absent one
          Amounts,    \* values of calls and payments of the contract
          Fees,       \* gas fees of transactions
          Genesis,    \* committed states to begin with: [db, flat]
          Nil,        \* no account, no body, no transaction
          MaxDepth,   \* CallCreateDepth
          MaxOps,     \* operations of calls
          MaxTx,      \* transactions
          MaxBlock    \* blocks

Val == 0..MaxVal

ASSUME PrecompileAssumption == /\ Precompile \in Addr
                               /\ Creatable \subseteq Addr \ {Precompile}
ASSUME BoundAssumption == /\ MaxVal \in Nat /\ MaxDepth \in Nat
                          /\ Amounts \subseteq Nat /\ Fees \subseteq Nat

NetSstoreClearRefund      == 15000
NetSstoreResetRefund      == 4800
NetSstoreResetClearRefund == 19800
SuicideRefundGas          == 24000

VARIABLES accounts,  \* loaded account entries, Nil for an account not loaded
          reverts,   \* the journal: what undoes each change, oldest first
          logs,      \* number of log records of the transaction
          refund,    \* gas refund counter of the transaction
          transient, \* transient storage of the transaction
          db,        \* committed accounts
          flat,      \* committed slot values, by account and slot
          main,      \* state of the main trie: same, put or gone
          sinks,     \* account mutations begun in this block
          wiped,     \* slots whose committed value this block has removed
          cache,     \* cache of the contract's storage wrapper
          frames,    \* running calls, the innermost last
          err,       \* did the last call that ended fail?
          tx,        \* the transaction being executed, or Nil
          ops, txs, block, ended

tsVars   == <<accounts, reverts, logs, refund, transient>>
dbVars   == <<db, flat>>
sinkVars == <<main, sinks, wiped>>
ctlVars  == <<ops, txs, block, ended>>
vars     == <<tsVars, dbVars, sinkVars, cache, frames, err, tx, ctlVars>>

-----------------------------------------------------------------------------
(***************************************************************************)
(* Accounts.  An entry of the account map has a header and a body, Nil for *)
(* an account that does not exist.  slots are the keys of the storage trie *)
(* the account was loaded with, none for a nil storage root; dirty, origin *)
(* and raw are Go maps from slots to values.                               *)
(***************************************************************************)
NewBody == [balance |-> 0, nonce |-> 0, code |-> FALSE, slots |-> {},
            dirty |-> <<>>, origin |-> <<>>, raw |-> <<>>, suicided |-> FALSE,
            sink |-> FALSE, touched |-> 0, mods |-> 0]

LoadedBody(x) == [NewBody EXCEPT !.balance = x.balance, !.nonce = x.nonce,
                                 !.code = x.code, !.slots = x.slots]

IsEIP161Empty(b) == b # Nil => b.nonce = 0 /\ b.balance = 0 /\ ~b.code

GetBalance(b) == IF b = Nil THEN 0 ELSE b.balance
GetNonce(b)   == IF b = Nil THEN 0 ELSE b.nonce
GetCode(b)    == IF b = Nil THEN FALSE ELSE b.code

get_committed_state(a, b, k) ==
  IF k \in DOMAIN b.origin THEN b.origin[k]
  ELSE IF b.slots = {} /\ b.origin = <<>> THEN 0 ELSE flat[a][k]

GetState(a, b, k) == IF k \in DOMAIN b.dirty THEN b.dirty[k]
                     ELSE get_committed_state(a, b, k)

(***************************************************************************)
(* The operations below take a transition state and return the next one.   *)
(***************************************************************************)
Now == [acc |-> accounts, rev |-> reverts, logs |-> logs, refund |-> refund]

Becomes(s) == /\ accounts' = s.acc
              /\ reverts' = s.rev
              /\ logs' = s.logs
              /\ refund' = s.refund

GetAccount(s, a) ==
  [s EXCEPT !.acc[a] =
     IF @ # Nil THEN [@ EXCEPT !.inCurr = TRUE]
     ELSE [body |-> IF db[a] = Nil THEN Nil ELSE LoadedBody(db[a]),
           inCurr |-> TRUE, inDirties |-> FALSE, fromDb |-> db[a] # Nil,
           deleted |-> FALSE]]

Body(s, a) == s.acc[a].body

\* register_change: the new body counts one more change, and the journal gets
\* what undoes it.
register_change(s, a, b, undo) ==
  [s EXCEPT !.acc[a].body = [b EXCEPT !.mods = @ + 1],
            !.rev = Append(@, [addr |-> a] @@ undo)]

ensure_exists(s, a) ==
  LET t == GetAccount(s, a)
  IN  IF Body(t, a) # Nil THEN t
      ELSE register_change([t EXCEPT !.acc[a].deleted = FALSE], a, NewBody,
             [op |-> "exists", old |-> t.acc[a].deleted])

set_balance(s, a, x) ==
  LET b == Body(s, a)
  IN  register_change(s, a, [b EXCEPT !.balance = x],
                      [op |-> "balance", old |-> b.balance])

AddBalance(s, a, x) ==
  LET t == ensure_exists(s, a)
      b == Body(t, a)
  IN  IF x # 0 THEN set_balance(t, a, b.balance + x)
      ELSE IF ~IsEIP161Empty(b) THEN t
      ELSE register_change(t, a, [b EXCEPT !.touched = @ + 1], [op |-> "touch"])

SubBalance(s, a, x) ==
  LET t == ensure_exists(s, a)
  IN  IF x # 0 THEN set_balance(t, a, Body(t, a).balance - x) ELSE t

SetNonce(s, a, n) ==
  LET t == ensure_exists(s, a)
      b == Body(t, a)
  IN  register_change(t, a, [b EXCEPT !.nonce = n], [op |-> "nonce", old |-> b.nonce])

IncrementNonce(s, a) ==
  LET t == ensure_exists(s, a) IN SetNonce(t, a, Body(t, a).nonce + 1)

SetCode(s, a) ==
  LET t == ensure_exists(s, a)
  IN  register_change(t, a, [Body(t, a) EXCEPT !.code = TRUE], [op |-> "code"])

SetState(s, a, k, v) ==
  LET t    == ensure_exists(s, a)
      b    == Body(t, a)
      prev == GetState(a, b, k)
  IN  IF prev = v THEN t
      ELSE register_change(t, a, [b EXCEPT !.dirty = (k :> v) @@ @],
                           [op |-> "state", key |-> k, old |-> prev])

\* The change is counted, and nothing undoes it.
SetStateRawIrreversibly(s, a, k, v) ==
  LET t == ensure_exists(s, a)
  IN  [t EXCEPT !.acc[a].body.raw = (k :> v) @@ @,
                !.acc[a].body.mods = @ + 1]

\* Mutant of Suicide: the destroyed account keeps its balance.
SuicideKeepsBalance(s, a, to) ==
  LET t == AddBalance(GetAccount(s, to), to, Body(s, a).balance)
      b == Body(t, a)
  IN  register_change(t, a, [b EXCEPT !.suicided = TRUE],
        [op |-> "suicide", old |-> b.balance, flag |-> b.suicided])

Suicide(s, a, to) ==
  LET t == AddBalance(GetAccount(s, to), to, Body(s, a).balance)
      b == Body(t, a)
  IN  register_change(t, a, [b EXCEPT !.suicided = TRUE, !.balance = 0],
        [op |-> "suicide", old |-> b.balance, flag |-> b.suicided])

\* Mutant of AddRefund: the counter is changed without an entry in the journal.
AddRefundUnjournaled(s, gas) == [s EXCEPT !.refund = @ + gas]

AddRefund(s, gas) == [s EXCEPT !.refund = @ + gas,
                               !.rev = Append(@, [op |-> "refund", old |-> s.refund])]

AddLog(s) == [s EXCEPT !.logs = @ + 1,
                       !.rev = Append(@, [op |-> "log", old |-> s.logs])]

\* What one closure of the journal does to the account it is about.
UndoChange(e, u) ==
  LET b == [e.body EXCEPT !.mods = @ - 1]
  IN  CASE u.op = "exists"  -> [e EXCEPT !.body = Nil, !.deleted = u.old]
        [] u.op = "balance" -> [e EXCEPT !.body = [b EXCEPT !.balance = u.old]]
        [] u.op = "nonce"   -> [e EXCEPT !.body = [b EXCEPT !.nonce = u.old]]
        [] u.op = "code"    -> [e EXCEPT !.body = [b EXCEPT !.code = FALSE]]
        [] u.op = "state"   -> [e EXCEPT !.body = [b EXCEPT !.dirty = (u.key :> u.old) @@ @]]
        [] u.op = "touch"   -> [e EXCEPT !.body = [b EXCEPT !.touched = @ - 1]]
        [] u.op = "suicide" -> [e EXCEPT !.body = [b EXCEPT !.balance = u.old,
                                                            !.suicided = u.flag]]

Undo(s, u) ==
  CASE u.op = "refund" -> [s EXCEPT !.refund = u.old]
    [] u.op = "log"    -> [s EXCEPT !.logs = u.old]
    [] OTHER           -> [s EXCEPT !.acc[u.addr] = UndoChange(@, u)]

\* undone[i] is the state after undoing all changes but the first i.
RevertToSnapshot(s, snapshot) ==
  LET undone[i \in snapshot..Len(s.rev)] ==
        IF i = Len(s.rev) THEN s ELSE Undo(undone[i + 1], s.rev[i + 1])
  IN  [undone[snapshot] EXCEPT !.rev = SubSeq(s.rev, 1, snapshot)]

Transfer(s, from, to, x) == AddBalance(SubBalance(s, from, x), to, x)

-----------------------------------------------------------------------------
(***************************************************************************)
(* The end of a transaction: what flush finds out about an account, the    *)
(* entry CommitTransaction leaves in the account map, and what the sink is *)
(* told.                                                                   *)
(***************************************************************************)
Status(e) ==
  LET b == e.body
  IN  IF b = Nil THEN "unmodified"
      ELSE IF b.mods = 0 THEN "unmodified"
      ELSE IF b.suicided \/ IsEIP161Empty(b) THEN "deleted"
      ELSE IF b.mods = b.touched THEN "unmodified"
      ELSE "updated"

\* CommitTransaction skips accounts deleted by an earlier transaction.
InFlush(e) == IF e = Nil THEN FALSE ELSE e.inCurr /\ ~e.deleted

FlushedBody(e) ==
  CASE Status(e) = "deleted"    -> Nil
    [] Status(e) = "unmodified" -> IF e.body = Nil THEN Nil
                                   ELSE [e.body EXCEPT !.mods = 0, !.touched = 0]
    [] Status(e) = "updated"    ->
         [e.body EXCEPT !.mods = 0, !.touched = 0, !.sink = TRUE, !.raw = <<>>,
                        !.dirty = <<>>, !.origin = e.body.dirty @@ @]

\* Mutant of Flushed: a deleted account is forgotten though the committed block
\* still has it.
FlushedForgetful(e) ==
  IF ~InFlush(e) THEN IF e = Nil THEN Nil ELSE [e EXCEPT !.inCurr = FALSE]
  ELSE IF ~(e.inDirties \/ Status(e) = "updated") THEN Nil
  ELSE [body |-> FlushedBody(e), inCurr |-> FALSE, inDirties |-> TRUE,
        fromDb |-> e.fromDb, deleted |-> Status(e) = "deleted"]

Flushed(e) ==
  IF ~InFlush(e) THEN IF e = Nil THEN Nil ELSE [e EXCEPT !.inCurr = FALSE]
  ELSE LET deleted == Status(e) = "deleted"
           dirties == \/ e.inDirties
                      \/ Status(e) = "updated"
                      \/ deleted /\ e.fromDb
       IN  IF ~dirties THEN Nil
           ELSE [body |-> FlushedBody(e), inCurr |-> FALSE, inDirties |-> TRUE,
                 fromDb |-> e.fromDb, deleted |-> deleted]

\* TrieSinkAccountMutation.Update.  A slot set to 0 leaves the trie, and its
\* committed value is removed, if the trie has it.
Update(m, b) ==
  LET upd == b.raw @@ b.dirty
      old == IF b.sink THEN m ELSE [slots |-> b.slots, puts |-> <<>>]
      set == {k \in DOMAIN upd : upd[k] # 0}
      zap == DOMAIN upd \ set
      new == [k \in set |-> upd[k]] @@ old.puts
  IN  [balance |-> b.balance, nonce |-> b.nonce, code |-> b.code,
       slots |-> (old.slots \cup set) \ zap,
       puts  |-> [k \in DOMAIN new \ zap |-> new[k]]]

Zapped(m, b) ==
  LET upd == b.raw @@ b.dirty
  IN  {k \in DOMAIN upd : upd[k] = 0} \cap (IF b.sink THEN m.slots ELSE b.slots)

CommitTransaction(s) ==
  LET Does(a, what) == IF InFlush(s.acc[a]) THEN Status(s.acc[a]) = what ELSE FALSE
      b(a) == Body(s, a)
  IN  /\ accounts' = [a \in Addr |-> Flushed(s.acc[a])]
      /\ main' = [a \in Addr |-> IF Does(a, "deleted") THEN "gone"
                                 ELSE IF Does(a, "updated") THEN "put" ELSE main[a]]
      /\ sinks' = [a \in Addr |-> IF Does(a, "deleted") THEN Nil
                                  ELSE IF Does(a, "updated")
                                       THEN Update(sinks[a], b(a)) ELSE sinks[a]]
      /\ wiped' = [a \in Addr |-> IF Does(a, "updated")
                                  THEN wiped[a] \cup Zapped(sinks[a], b(a))
                                  ELSE wiped[a]]
      /\ reverts' = <<>>
      /\ logs' = 0
      /\ refund' = 0
      /\ transient' = [a \in Addr |-> [k \in Key |-> 0]]

-----------------------------------------------------------------------------
(***************************************************************************)
(* The contract's storage: a write goes to the cache and, irreversibly, to *)
(* the account; a read that misses the cache goes to the committed block.  *)
(***************************************************************************)
\* Mutant of CachePut: a write that leaves the cache alone.
CachePutSkipped(k, v) == cache' = cache

CachePut(k, v) == cache' = (k :> v) @@ cache

StoragePut(s, k, v) == SetStateRawIrreversibly(s, Precompile, k, v)

StorageGet(k) == IF k \in DOMAIN cache THEN cache[k] ELSE flat[Precompile][k]

-----------------------------------------------------------------------------
(***************************************************************************)
(* Calls and creations.                                                    *)
(***************************************************************************)
CallTypes == {"CALL", "CALLCODE", "DELEGATECALL", "STATICCALL"}

\* What a transition state shows of the accounts.
View(a, b) == IF b = Nil THEN Nil
              ELSE [balance |-> b.balance, nonce |-> b.nonce, code |-> b.code,
                    store |-> [k \in Key |-> IF a = Precompile THEN 0
                                             ELSE GetState(a, b, k)]]

WorldOf(s) == [a \in Addr |->
  IF s.acc[a] # Nil THEN View(a, Body(s, a))
  ELSE IF db[a] = Nil THEN Nil ELSE View(a, LoadedBody(db[a]))]

DoomedOf(s) == {a \in Addr : IF s.acc[a] = Nil THEN FALSE
                             ELSE IF Body(s, a) = Nil THEN FALSE
                             ELSE Body(s, a).suicided}

Shown(s) == [world |-> WorldOf(s), doomed |-> DoomedOf(s)]

\* mark is history, read by no action: what the state showed at the snapshot.
Frame(s, self, caller, creates, readOnly) ==
  [snapshot |-> Len(s.rev), mark |-> Shown(s), self |-> self, caller |-> caller,
   creates |-> creates, readOnly |-> readOnly, done |-> FALSE]

Top    == frames[Len(frames)]
Popped == SubSeq(frames, 1, Len(frames) - 1)

\* A precompiled contract runs within the call: it may write its storage, pay
\* out of the balance of the account it runs on, and then return an error.
RunPrecompiled(s, account, caller, snapshot) ==
  \/ \E k \in Key, v \in Val, pay \in Amounts \cup {0}, ok \in BOOLEAN :
       LET put  == StoragePut(s, k, v)
           paid == AddBalance(SubBalance(put, account, pay), caller, pay)
       IN  /\ pay <= GetBalance(Body(put, account))
           /\ CachePut(k, v)
           /\ Becomes(IF ok THEN paid ELSE RevertToSnapshot(paid, snapshot))
           /\ err' = ~ok
  \/ \* it needs more gas than the call has
     /\ Becomes(RevertToSnapshot(s, snapshot))
     /\ err' = TRUE
     /\ UNCHANGED cache

\* call: the four kinds of calls, of account `to' by account `caller'.
DoCall(s, typ, caller, to, value, readOnly) ==
  LET payer    == IF typ = "DELEGATECALL" THEN Top.caller ELSE caller
      account  == IF typ \in {"CALL", "STATICCALL"} THEN to ELSE caller
      g        == GetAccount(s, to)
      refused  == \/ Len(frames) > MaxDepth
                  \/ typ \in {"CALL", "CALLCODE"} /\ GetBalance(Body(g, caller)) < value
      nobody   == /\ typ = "CALL" /\ value = 0
                  /\ Body(g, to) = Nil /\ to # Precompile
      snapshot == Len(g.rev)
      entered  == CASE typ = "CALL"       -> Transfer(g, caller, to, value)
                    [] typ = "STATICCALL" -> AddBalance(g, to, 0)
                    [] OTHER              -> g
      runs     == ~refused /\ ~nobody
  IN  \/ /\ refused \/ nobody
         /\ Becomes(g)
         /\ err' = refused
         /\ UNCHANGED <<frames, cache>>
      \/ /\ runs /\ to = Precompile
         /\ RunPrecompiled(entered, account, payer, snapshot)
         /\ UNCHANGED frames
      \/ /\ runs /\ to # Precompile
         /\ Becomes(entered)
         /\ frames' = IF ~GetCode(Body(entered, to)) THEN frames
                      ELSE Append(frames,
                             Frame(g, account, payer, FALSE,
                                   readOnly \/ typ = "STATICCALL"))
         /\ err' = FALSE
         /\ UNCHANGED cache

\* create: the creator's nonce is counted before the snapshot.
DoCreate(s, caller, addr, value) ==
  LET refused   == Len(frames) > MaxDepth \/ GetBalance(Body(s, caller)) < value
      g         == GetAccount(IncrementNonce(s, caller), addr)
      collision == GetNonce(Body(g, addr)) # 0 \/ GetCode(Body(g, addr))
  IN  \/ /\ refused \/ collision
         /\ Becomes(IF refused THEN s ELSE g)
         /\ err' = TRUE
         /\ UNCHANGED frames
      \/ /\ ~refused /\ ~collision
         /\ Becomes(Transfer(IncrementNonce(g, addr), caller, addr, value))
         /\ frames' = Append(frames, Frame(g, addr, caller, TRUE, FALSE))
         /\ err' = FALSE

-----------------------------------------------------------------------------
(***************************************************************************)
(* Operations of the running call.                                         *)
(***************************************************************************)
Running == frames # <<>> /\ ~Top.done /\ ops < MaxOps

Operates == /\ Running
            /\ ops' = ops + 1
            /\ UNCHANGED <<dbVars, sinkVars, tx, txs, block, ended>>

\* The refund counter by EIP-1283: cur is replaced by new, the transaction
\* found orig.
SstoreRefund(s, orig, cur, new) ==
  IF cur = new THEN s
  ELSE IF orig = cur
       THEN IF orig # 0 /\ new = 0 THEN AddRefund(s, NetSstoreClearRefund) ELSE s
  ELSE LET t == IF orig = 0 THEN s
                ELSE IF cur = 0 THEN AddRefund(s, -NetSstoreClearRefund)
                ELSE IF new = 0 THEN AddRefund(s, NetSstoreClearRefund) ELSE s
       IN  IF orig # new THEN t
           ELSE AddRefund(t, IF orig = 0 THEN NetSstoreResetClearRefund
                             ELSE NetSstoreResetRefund)

Sstore(k, v) ==
  /\ Operates
  /\ ~Top.readOnly
  /\ LET a == Top.self
         b == Body(Now, a)
     IN  Becomes(SetState(SstoreRefund(Now, get_committed_state(a, b, k),
                                       GetState(a, b, k), v), a, k, v))
  /\ UNCHANGED <<transient, cache, frames, err>>

Tstore(k, v) ==
  /\ Operates
  /\ ~Top.readOnly
  /\ transient' = [transient EXCEPT ![Top.self][k] = v]
  /\ UNCHANGED <<accounts, reverts, logs, refund, cache, frames, err>>

Log ==
  /\ Operates
  /\ ~Top.readOnly
  /\ Becomes(AddLog(Now))
  /\ UNCHANGED <<transient, cache, frames, err>>

\* HasSuicided never holds of an existing account: the refund is added each time.
Selfdestruct(to) ==
  /\ Operates
  /\ ~Top.readOnly
  /\ Becomes(Suicide(AddRefund(GetAccount(Now, to), SuicideRefundGas), Top.self, to))
  /\ frames' = [frames EXCEPT ![Len(frames)].done = TRUE]
  /\ UNCHANGED <<transient, cache, err>>

Call(typ, to, value) ==
  /\ Operates
  /\ typ \in {"DELEGATECALL", "STATICCALL"} => value = 0
  /\ ~(Top.readOnly /\ typ = "CALL" /\ value > 0)
  /\ DoCall(Now, typ, Top.self, to, value, Top.readOnly)
  /\ UNCHANGED transient

Create(addr, value) ==
  /\ Operates
  /\ ~Top.readOnly
  /\ DoCreate(Now, Top.self, addr, value)
  /\ UNCHANGED <<transient, cache>>

\* The running call ends; a creation stores the code its run returned.
Return ==
  /\ frames # <<>>
  /\ \/ Becomes(Now)
     \/ Top.creates /\ ~Top.done /\ Becomes(SetCode(Now, Top.self))
  /\ frames' = Popped
  /\ err' = FALSE
  /\ UNCHANGED <<transient, dbVars, sinkVars, cache, tx, ctlVars>>

\* The running call fails: it reverts, runs out of gas, attempts a write that
\* is not allowed, or creates code that is too large or not paid for.
Fail ==
  /\ frames # <<>>
  /\ ~Top.done
  /\ Becomes(RevertToSnapshot(Now, Top.snapshot))
  /\ frames' = Popped
  /\ err' = TRUE
  /\ UNCHANGED <<transient, dbVars, sinkVars, cache, tx, ctlVars>>

-----------------------------------------------------------------------------
(***************************************************************************)
(* Transactions.  Main charges the fee, sets the nonce and makes the       *)
(* outermost call; what is left of the fee is given back when it ended.    *)
(***************************************************************************)
Starts(from, fee, over) ==
  /\ tx = Nil /\ ~ended /\ txs < MaxTx
  /\ tx' = [from |-> from, fee |-> fee, over |-> over]
  /\ txs' = txs + 1
  /\ UNCHANGED <<transient, dbVars, sinkVars, ops, block, ended>>

Sender(from) == GetAccount(Now, from)

\* The transaction is charged and goes no further: it cannot pay its fee, its
\* nonce is used up, or its gas does not cover its data.
MainRejected(from, nonce, fee) ==
  LET s    == Sender(from)
      have == GetBalance(Body(s, from))
      used == GetNonce(Body(s, from)) > nonce
      paid == SubBalance(s, from, IF have < fee THEN have ELSE fee)
  IN  /\ Starts(from, fee, TRUE)
      /\ Becomes(IF used THEN paid ELSE SetNonce(paid, from, nonce + 1))
      /\ UNCHANGED <<cache, frames, err>>

Payable(from, nonce, fee) == /\ GetBalance(Body(Sender(from), from)) >= fee
                             /\ GetNonce(Body(Sender(from), from)) <= nonce

\* A value the sender does not have left is an error of consensus: nothing of
\* the fee is given back.
MainCall(from, nonce, fee, to, value) ==
  LET s == SetNonce(SubBalance(Sender(from), from, fee), from, nonce + 1)
  IN  /\ Payable(from, nonce, fee)
      /\ Starts(from, fee, GetBalance(Body(s, from)) < value)
      /\ DoCall(s, "CALL", from, to, value, FALSE)

MainCreate(from, nonce, fee, addr, value) ==
  LET s == SetNonce(SubBalance(Sender(from), from, fee), from, nonce)
  IN  /\ Payable(from, nonce, fee)
      /\ Starts(from, fee, GetBalance(Body(s, from)) < value)
      /\ DoCreate(s, from, addr, value)
      /\ UNCHANGED cache

\* The end of Main, and the checkpoint after it.
Finish(left) ==
  /\ tx # Nil /\ frames = <<>>
  /\ left <= IF tx.over THEN 0 ELSE tx.fee
  /\ CommitTransaction(IF tx.over THEN Now ELSE AddBalance(Now, tx.from, left))
  /\ tx' = Nil
  /\ UNCHANGED <<dbVars, cache, frames, err, ctlVars>>

\* The contract stores a counter that changed, if any, and a last checkpoint
\* follows.
EndBlock ==
  /\ tx = Nil /\ ~ended
  /\ \/ \E k \in Key, v \in Val : /\ CachePut(k, v)
                                 /\ CommitTransaction(StoragePut(Now, k, v))
     \/ /\ CommitTransaction(Now)
        /\ UNCHANGED cache
  /\ ended' = TRUE
  /\ UNCHANGED <<dbVars, frames, err, tx, ops, txs, block>>

\* PrepareCommit and Commit: the mutations of the accounts that are dirty and
\* not deleted are written, all accounts are unloaded, the cache is cleared.
Commit ==
  LET written(a) == IF accounts[a] = Nil THEN FALSE
                    ELSE accounts[a].inDirties /\ ~accounts[a].deleted
      m(a)       == sinks[a]
  IN  /\ ended /\ block < MaxBlock
      /\ db' = [a \in Addr |->
           CASE main[a] = "same" -> db[a]
             [] main[a] = "gone" -> Nil
             [] main[a] = "put"  ->
                  IF ~written(a) THEN Nil
                  ELSE [balance |-> m(a).balance, nonce |-> m(a).nonce,
                        code |-> m(a).code, slots |-> m(a).slots]]
      /\ flat' = [a \in Addr |-> [k \in Key |->
           IF written(a) /\ main[a] = "put" /\ k \in DOMAIN m(a).puts
           THEN m(a).puts[k]
           ELSE IF k \in wiped[a] THEN 0 ELSE flat[a][k]]]
      /\ accounts' = [a \in Addr |->
           IF accounts[a] = Nil THEN Nil
           ELSE IF accounts[a].inDirties THEN Nil ELSE accounts[a]]
      /\ main' = [a \in Addr |-> "same"]
      /\ sinks' = [a \in Addr |-> Nil]
      /\ wiped' = [a \in Addr |-> {}]
      /\ cache' = <<>>
      /\ ended' = FALSE
      /\ block' = block + 1
      /\ UNCHANGED <<reverts, logs, refund, transient, frames, err, tx, ops, txs>>

Init ==
  /\ accounts = [a \in Addr |-> Nil]
  /\ reverts = <<>> /\ logs = 0 /\ refund = 0
  /\ transient = [a \in Addr |-> [k \in Key |-> 0]]
  /\ \E g \in Genesis : db = g.db /\ flat = g.flat
  /\ main = [a \in Addr |-> "same"]
  /\ sinks = [a \in Addr |-> Nil]
  /\ wiped = [a \in Addr |-> {}]
  /\ cache = <<>>
  /\ frames = <<>> /\ err = FALSE
  /\ tx = Nil
  /\ ops = 0 /\ txs = 0 /\ block = 0 /\ ended = FALSE

Sends(from, nonce, fee) ==
  \/ MainRejected(from, nonce, fee)
  \/ \E to \in Addr, value \in Amounts \cup {0} :
       MainCall(from, nonce, fee, to, value)
  \/ \E addr \in Creatable, value \in Amounts \cup {0} :
       MainCreate(from, nonce, fee, addr, value)

Operation ==
  \/ \E k \in Key, v \in Val : Sstore(k, v) \/ Tstore(k, v)
  \/ Log
  \/ \E to \in Addr : Selfdestruct(to)
  \/ \E typ \in CallTypes, to \in Addr, value \in Amounts \cup {0} : Call(typ, to, value)
  \/ \E addr \in Creatable, value \in Amounts \cup {0} : Create(addr, value)

Next ==
  \/ \E from \in Addr \ (Creatable \cup {Precompile}),
        nonce \in 0..(MaxTx - 1), fee \in Fees :
       Sends(from, nonce, fee)
  \/ Operation
  \/ Return \/ Fail
  \/ \E left \in 0..Max(Fees) : Finish(left)
  \/ EndBlock \/ Commit

Spec == Init /\ [][Next]_vars

-----------------------------------------------------------------------------
(***************************************************************************)
(* What is settled and what is durable: what the sink was told, and the     *)
(* tries of the committed block.                                           *)
(***************************************************************************)
\* The slots of the storage trie of a mutation or of a committed account.
TrieSlots(a, x, puts) == [k \in Key |-> IF k \notin x.slots THEN 0
                                        ELSE IF k \in DOMAIN puts THEN puts[k]
                                        ELSE flat[a][k]]

Stored(a, x, puts) == [balance |-> x.balance, nonce |-> x.nonce, code |-> x.code,
                       store |-> IF a = Precompile THEN [k \in Key |-> 0]
                                 ELSE TrieSlots(a, x, puts)]

Durable(a)   == IF db[a] = Nil THEN Nil ELSE Stored(a, db[a], <<>>)
DurableWorld == [a \in Addr |-> Durable(a)]
DurableVault == TrieSlots(Precompile, db[Precompile], <<>>)

SettledWorld == [a \in Addr |->
  CASE main[a] = "same" -> Durable(a)
    [] main[a] = "gone" -> Nil
    [] main[a] = "put"  -> Stored(a, sinks[a], sinks[a].puts)]

SettledVault == IF main[Precompile] = "put"
                THEN TrieSlots(Precompile, sinks[Precompile], sinks[Precompile].puts)
                ELSE DurableVault

Vault == IF accounts[Precompile] = Nil THEN SettledVault
         ELSE accounts[Precompile].body.raw @@ SettledVault

W == INSTANCE WorldState WITH
       world   <- WorldOf(Now),
       doomed  <- DoomedOf(Now),
       vault   <- Vault,
       saved   <- [i \in 1..Len(frames) |-> frames[i].mark],
       settled <- [world |-> SettledWorld, vault |-> SettledVault],
       durable <- [world |-> DurableWorld, vault |-> DurableVault]

\* Deleting an account leaves the committed values of its slots behind: an
\* account created again at its address can see them (section 5 of the README).
Leftover(a, x) == \E k \in Key \ x.slots : flat[a][k] # 0

NoLeftovers == \A a \in Addr :
  /\ db[a] # Nil => ~Leftover(a, db[a])
  /\ accounts[a] # Nil => (accounts[a].body # Nil => ~Leftover(a, accounts[a].body))

-----------------------------------------------------------------------------
(***************************************************************************)
(* Properties.                                                             *)
(***************************************************************************)

\* Types of all variables.  Balances and nonces never become negative and the
\* journal is never shorter than the snapshots taken of it.
TypeOK ==
  /\ \A a \in Addr : accounts[a] # Nil =>
       /\ DOMAIN accounts[a] = {"body", "inCurr", "inDirties", "fromDb", "deleted"}
       /\ LET b == accounts[a].body
          IN  b # Nil => /\ DOMAIN b = DOMAIN NewBody
                         /\ b.balance \in Nat /\ b.nonce \in Nat
                         /\ b.mods \in Nat /\ b.touched \in 0..b.mods
                         /\ DOMAIN b.dirty \cup DOMAIN b.origin
                              \cup DOMAIN b.raw \cup b.slots \subseteq Key
  /\ logs \in Nat /\ refund \in Int /\ err \in BOOLEAN /\ ended \in BOOLEAN
  /\ transient \in [Addr -> [Key -> Val]]
  /\ flat \in [Addr -> [Key -> Val]]
  /\ main \in [Addr -> {"same", "put", "gone"}]
  /\ DOMAIN cache \subseteq Key
  /\ \A i \in 1..Len(frames) : frames[i].snapshot \in 0..Len(reverts)

\* The transition state does what WorldState promises: a failed call leaves the
\* accounts as they were when it began, whatever calls and creations ran inside
\* it; a transaction settles exactly what it left; committing a block makes
\* that durable and changes nothing an account shows, although the accounts are
\* unloaded and read again.
ImplementsWorld == W!Spec

Coins(w) == MapThenSumSet(LAMBDA a : IF w[a] = Nil THEN 0 ELSE w[a].balance, Addr)

\* No order of transfers, destructions, failed calls and refunds of gas creates
\* coins: what the accounts hold, with the fee taken, is never more than before
\* the transaction, and a block leaves no more than it found.
NoCoinsCreated ==
  /\ Coins(WorldOf(Now)) + (IF tx = Nil THEN 0 ELSE IF tx.over THEN 0 ELSE tx.fee)
       <= Coins(SettledWorld)
  /\ Coins(SettledWorld) <= Coins(DurableWorld)

\* "We can prove that refund counter will never go below 0" (gas.go): every slot
\* that had a value before the transaction and is empty now is covered by one
\* refund for clearing it, through all nested calls that failed, so that the
\* SubRefund when it is filled again cannot panic.
RefundCovered ==
  refund >= NetSstoreClearRefund *
    Cardinality({p \in Addr \X Key :
      IF accounts[p[1]] = Nil \/ p[1] = Precompile THEN FALSE
      ELSE LET b == accounts[p[1]].body
           IN  IF b = Nil THEN FALSE
               ELSE /\ get_committed_state(p[1], b, p[2]) # 0
                    /\ GetState(p[1], b, p[2]) = 0})

\* The contract reads its own writes: a read through the wrapper, whose misses
\* go to the last committed block, returns what the account's storage holds,
\* also after failed calls and in later transactions of the block.
ReadsOwnWrites == \A k \in Key : StorageGet(k) = Vault[k]

\* "adds the change to the journal so that it can be rolled back to its previous
\* value if there is a revert" (transition_state.go): transient storage is empty
\* when the outermost call has failed.
TransientReverted ==
  tx # Nil => (~tx.over /\ frames = <<>> /\ err
                 => transient = [a \in Addr |-> [k \in Key |-> 0]])
=============================================================================
