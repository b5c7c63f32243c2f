----------------------------- MODULE WorldState -----------------------------
(***************************************************************************)
(* What the execution of a block promises about the accounts: a world that *)
(* calls change, a stack of the worlds at which the open calls began, to   *)
(* which a failed call goes back, a settled world written by the           *)
(* transactions executed so far, and a durable one, that of the last       *)
(* committed block.                                                        *)
(*                                                                         *)
(* The storage of the precompiled contracts, the vault, is settled and     *)
(* made durable with the accounts but is no part of what a failed call     *)
(* goes back to.                                                           *)
(***************************************************************************)
EXTENDS Naturals, Sequences

CONSTANTS Addr, \* the accounts
          Nil   \* an account that does not exist

VARIABLES world,   \* account -> its contents, or Nil
          doomed,  \* accounts that destroyed themselves in this transaction
          vault,   \* storage of the precompiled contract
          saved,   \* stack of [world, doomed], one for each open call
          err,     \* did the last call that ended fail?
          settled, \* [world, vault] after the last executed transaction
          durable  \* [world, vault] of the last committed block

vars == <<world, doomed, vault, saved, err, settled, durable>>

Init == /\ doomed = {}
        /\ saved = <<>>
        /\ err = FALSE
        /\ settled = [world |-> world, vault |-> vault]
        /\ durable = settled

Here == [world |-> world, doomed |-> doomed]

IsEmpty(x) == x # Nil => x.nonce = 0 /\ x.balance = 0 /\ ~x.code

\* An operation of the running call, or of the node between transactions.
Change == UNCHANGED <<saved, settled, durable>>

\* A call begins.  It goes back to a state in which one account at most
\* differs: the sender of a transaction, charged before its call began, or the
\* creator of an account, whose nonce is counted first.
Open ==
  LET before == saved
      after  == saved'
      mark   == after[Len(after)]
      w      == world
  IN  /\ Len(after) = Len(before) + 1
      /\ SubSeq(after, 1, Len(before)) = before
      /\ mark.doomed = doomed
      /\ \E a \in Addr :
           /\ \A b \in Addr \ {a} : mark.world[b] = w[b]
           /\ \/ before = <<>>
              \/ mark.world[a] = w[a]
              \/ mark.world[a] = [w[a] EXCEPT !.nonce = @ + 1]
      /\ UNCHANGED <<vault, settled, durable>>

\* The innermost call ends; a creation stores the code of the new account.
Succeed == /\ saved # <<>>
           /\ saved' = SubSeq(saved, 1, Len(saved) - 1)
           /\ \/ world' = world
              \/ \E a \in Addr : /\ world[a] # Nil
                                 /\ world' = [world EXCEPT ![a].code = TRUE]
           /\ ~err'
           /\ UNCHANGED <<doomed, vault, settled, durable>>

\* The innermost call fails: the accounts are as they were when it began.
Fail == /\ saved # <<>>
        /\ saved' = SubSeq(saved, 1, Len(saved) - 1)
        /\ world' = saved[Len(saved)].world
        /\ doomed' = saved[Len(saved)].doomed
        /\ err'
        /\ UNCHANGED <<vault, settled, durable>>

\* The transaction is over: one account, the sender, gets back what is left of
\* its fee; accounts that destroyed themselves and empty ones are gone, all
\* others are settled as they are.
Settle ==
  LET w      == world
      after  == world'
      Rest(a, x) == IF a \in doomed \/ IsEmpty(x) THEN Nil ELSE x
  IN  /\ saved = <<>>
      /\ \E a \in Addr :
           /\ \A b \in Addr \ {a} : after[b] = Rest(b, w[b])
           /\ \/ after[a] = Rest(a, w[a])
              \/ /\ w[a] # Nil /\ after[a] # Nil /\ a \notin doomed
                 /\ after[a].balance > w[a].balance
                 /\ after[a] = [w[a] EXCEPT !.balance = after[a].balance]
      /\ doomed' = {}
      /\ settled' = [world |-> after, vault |-> vault']
      /\ UNCHANGED <<saved, durable>>

\* The block is committed; nothing a later block sees changes by it.
Persist == /\ world = settled.world
           /\ vault = settled.vault
           /\ durable' = settled
           /\ UNCHANGED <<world, doomed, vault, saved, settled>>

Next == \/ Change \/ Open \/ Succeed \/ Fail \/ Settle \/ Persist

Spec == Init /\ [][Next]_vars
=============================================================================
