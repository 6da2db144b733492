----------------------------- MODULE Multilock -----------------------------
(***************************************************************************)
(* async/multilock.go: locks on sets of string keys.  A key's lock is a    *)
(* channel with room for one token; who receives the token holds the key.  *)
(* Channels are made on demand and, after every Unlock, Clean closes and   *)
(* forgets those nobody holds, while other goroutines may be about to      *)
(* receive from them.                                                      *)
(*                                                                         *)
(* Go channels are external: a receive on a channel without a token parks  *)
(* the goroutine in the channel's queue, a send hands the token to the     *)
(* first of that queue, and a receive on a closed channel returns at once. *)
(***************************************************************************)
EXTENDS Naturals, Sequences

CONSTANTS Threads,   \* goroutines; each uses a Lock of its own
          Keys,      \* lock keys, ordered as sort.Strings orders them
          Want,      \* Want[t]: the keys t makes its Lock for
          Chans,     \* identities of channels
          NoChan,      \* nil
          MaxRounds  \* bound: how often a thread locks and unlocks

ASSUME MultilockAssumption ==
  /\ Keys \subseteq Nat
  /\ NoChan \notin Threads /\ NoChan \notin Chans /\ NoChan \notin Keys
  /\ Want \in [Threads -> SUBSET Keys \ {{}}]
  /\ MaxRounds \in [Threads -> Nat]

VARIABLES
  list,      \* locks.list: the channel of a key, or NoChan
  owner,     \* locks.lock: who is inside getChan or Clean
  chan,      \* state of a channel
  waiters,   \* goroutines parked on a channel, first come first served
  at,        \* where a thread is in Lock and Unlock
  key,       \* lk.keys[i]: the key a thread is acquiring
  ref,       \* ch: the channel getChan returned
  chans,     \* lk.chans: the channels a Lock has received from, by key
  unswept,   \* keys that the loop of Clean has not visited
  toDelete,  \* keys whose channel Clean has closed
  rounds     \* completed Lock and Unlock pairs

lockVars == <<list, owner, chan, waiters, at, key, ref, chans, unswept, toDelete, rounds>>

Got(t) == {k \in Keys : chans[t][k] # NoChan}

\* NewMultilock sorts the keys and drops duplicates.
Least(k, K) == k \in K /\ \A j \in K : k <= j

LockInit ==
  /\ list = [k \in Keys |-> NoChan]
  /\ owner = NoChan
  /\ chan = [c \in Chans |-> "empty"]
  /\ waiters = [c \in Chans |-> <<>>]
  /\ at = [t \in Threads |-> "idle"]
  /\ key = [t \in Threads |-> NoChan]
  /\ ref = [t \in Threads |-> NoChan]
  /\ chans = [t \in Threads |-> [k \in Keys |-> NoChan]]
  /\ unswept = {} /\ toDelete = {}
  /\ rounds = [t \in Threads |-> 0]

\* A channel nobody can reach any more: the model reuses its identity.
Unreachable(c) ==
  /\ \A k \in Keys : list[k] # c
  /\ \A t \in Threads : ref[t] # c /\ \A k \in Keys : chans[t][k] # c

Lock(t) ==
  /\ at[t] = "idle" /\ rounds[t] < MaxRounds[t]
  /\ at' = [at EXCEPT ![t] = "getChan"]
  /\ UNCHANGED <<list, owner, chan, waiters, key, ref, chans, unswept, toDelete, rounds>>

\* Mutant of GetChan: a new channel is made without its token.
GetChan_NoToken(t) ==
  /\ at[t] = "getChan" /\ owner = NoChan
  /\ \E k \in Want[t] :
       /\ Least(k, Want[t] \ Got(t))
       /\ key' = [key EXCEPT ![t] = k]
       /\ \/ /\ list[k] # NoChan
             /\ ref' = [ref EXCEPT ![t] = list[k]]
             /\ UNCHANGED <<list, chan>>
          \/ /\ list[k] = NoChan
             /\ \E c \in Chans : Unreachable(c)
             /\ LET c == CHOOSE c \in Chans : Unreachable(c) IN
                  /\ list' = [list EXCEPT ![k] = c]
                  /\ chan' = [chan EXCEPT ![c] = "empty"]
                  /\ ref' = [ref EXCEPT ![t] = c]
  /\ at' = [at EXCEPT ![t] = "receive"]
  /\ UNCHANGED <<owner, waiters, chans, unswept, toDelete, rounds>>

\* getChan(lk.keys[i]): the next key in sorted order; its channel is made,
\* holding a token, when the key has none.
GetChan(t) ==
  /\ at[t] = "getChan" /\ owner = NoChan
  /\ \E k \in Want[t] :
       /\ Least(k, Want[t] \ Got(t))
       /\ key' = [key EXCEPT ![t] = k]
       /\ \/ /\ list[k] # NoChan
             /\ ref' = [ref EXCEPT ![t] = list[k]]
             /\ UNCHANGED <<list, chan>>
          \/ /\ list[k] = NoChan
             /\ \E c \in Chans : Unreachable(c)
             /\ LET c == CHOOSE c \in Chans : Unreachable(c) IN
                  /\ list' = [list EXCEPT ![k] = c]
                  /\ chan' = [chan EXCEPT ![c] = "full"]
                  /\ ref' = [ref EXCEPT ![t] = c]
  /\ at' = [at EXCEPT ![t] = "receive"]
  /\ UNCHANGED <<owner, waiters, chans, unswept, toDelete, rounds>>

\* The receiver t has the token of channel c: append to lk.chans and go on
\* with the next key, or return from Lock.
Received(t, c) ==
  /\ chans' = [chans EXCEPT ![t][key[t]] = c]
  /\ at' = [at EXCEPT ![t] =
              IF Want[t] \subseteq Got(t) \union {key[t]} THEN "locked" ELSE "getChan"]
  /\ ref' = [ref EXCEPT ![t] = NoChan]

\* Mutant of Receive: the receive from a closed channel counts as the lock.
Receive_IgnoresOk(t) ==
  /\ at[t] = "receive"
  /\ \/ /\ chan[ref[t]] # "empty"
        /\ chan' = [chan EXCEPT ![ref[t]] = IF @ = "full" THEN "empty" ELSE @]
        /\ Received(t, ref[t])
        /\ UNCHANGED waiters
     \/ /\ chan[ref[t]] = "empty"
        /\ waiters' = [waiters EXCEPT ![ref[t]] = Append(@, t)]
        /\ at' = [at EXCEPT ![t] = "parked"]
        /\ UNCHANGED <<chan, ref, chans>>
  /\ UNCHANGED <<list, owner, key, unswept, toDelete, rounds>>

\* _, ok := <-ch
Receive(t) ==
  /\ at[t] = "receive"
  /\ \/ /\ chan[ref[t]] = "full"
        /\ chan' = [chan EXCEPT ![ref[t]] = "empty"]
        /\ Received(t, ref[t])
        /\ UNCHANGED waiters
     \/ /\ chan[ref[t]] = "empty"
        /\ waiters' = [waiters EXCEPT ![ref[t]] = Append(@, t)]
        /\ at' = [at EXCEPT ![t] = "parked"]
        /\ UNCHANGED <<chan, ref, chans>>
     \/ /\ chan[ref[t]] = "closed"
        /\ at' = [at EXCEPT ![t] = "getChan"]
        /\ ref' = [ref EXCEPT ![t] = NoChan]
        /\ UNCHANGED <<chan, waiters, chans>>
  /\ UNCHANGED <<list, owner, key, unswept, toDelete, rounds>>

\* ch <- 1 in Unlock, for the first channel still to be given back: the
\* token goes to the first parked receiver w, if there is one.
GiveBack(t, k, c) ==
  \/ /\ waiters[c] = <<>>
     /\ chan' = [chan EXCEPT ![c] = "full"]
     /\ chans' = [chans EXCEPT ![t][k] = NoChan]
     /\ at' = [at EXCEPT ![t] = IF Got(t) = {k} THEN "clean" ELSE "unlock"]
     /\ UNCHANGED <<waiters, ref>>
  \/ /\ waiters[c] # <<>>
     /\ LET w == Head(waiters[c]) IN
          /\ waiters' = [waiters EXCEPT ![c] = Tail(@)]
          /\ chans' = [chans EXCEPT ![t][k] = NoChan, ![w][key[w]] = c]
          /\ at' = [at EXCEPT
                      ![t] = IF Got(t) = {k} THEN "clean" ELSE "unlock",
                      ![w] = IF Want[w] \subseteq Got(w) \union {key[w]}
                             THEN "locked" ELSE "getChan"]
          /\ ref' = [ref EXCEPT ![w] = NoChan]
     /\ UNCHANGED chan

Unlock(t) ==
  /\ at[t] \in {"locked", "unlock"}
  /\ \E k \in Want[t] :
       /\ Least(k, Got(t))
       /\ chan[chans[t][k]] = "empty"
       /\ GiveBack(t, k, chans[t][k])
  /\ UNCHANGED <<list, owner, key, unswept, toDelete, rounds>>

\* Clean, called at the end of Unlock, visits the keys in any order.
CleanStart(t) ==
  /\ at[t] = "clean" /\ owner = NoChan
  /\ owner' = t
  /\ unswept' = {k \in Keys : list[k] # NoChan}
  /\ at' = [at EXCEPT ![t] = "sweep"]
  /\ UNCHANGED <<list, chan, waiters, key, ref, chans, toDelete, rounds>>

\* Mutant of Sweep: held channels are forgotten like the unused ones.
Sweep_AlsoHeld(t, k) ==
  /\ at[t] = "sweep" /\ k \in unswept
  /\ unswept' = unswept \ {k}
  /\ toDelete' = toDelete \union {k}
  /\ chan' = [chan EXCEPT ![list[k]] = IF @ = "full" THEN "closed" ELSE @]
  /\ UNCHANGED <<list, owner, waiters, at, key, ref, chans, rounds>>

Sweep(t, k) ==
  /\ at[t] = "sweep" /\ k \in unswept
  /\ unswept' = unswept \ {k}
  /\ \/ /\ chan[list[k]] = "full"
        /\ chan' = [chan EXCEPT ![list[k]] = "closed"]
        /\ toDelete' = toDelete \union {k}
     \/ /\ chan[list[k]] # "full"
        /\ UNCHANGED <<chan, toDelete>>
  /\ UNCHANGED <<list, owner, waiters, at, key, ref, chans, rounds>>

CleanEnd(t) ==
  /\ at[t] = "sweep" /\ unswept = {}
  /\ list' = [k \in Keys |-> IF k \in toDelete THEN NoChan ELSE list[k]]
  /\ owner' = NoChan
  /\ at' = [at EXCEPT ![t] = "idle"]
  /\ key' = [key EXCEPT ![t] = NoChan]
  /\ rounds' = [rounds EXCEPT ![t] = @ + 1]
  /\ toDelete' = {}
  /\ UNCHANGED <<chan, waiters, ref, chans, unswept>>

ThreadStep(t) ==
  \/ Lock(t) \/ GetChan(t) \/ Receive(t) \/ Unlock(t)
  \/ CleanStart(t) \/ (\E k \in Keys : Sweep(t, k)) \/ CleanEnd(t)

LockNext == \E t \in Threads : ThreadStep(t)

LockSpec == LockInit /\ [][LockNext]_lockVars

\* The Go scheduler runs every goroutine that can run; critical sections end.
LockFairSpec == LockSpec /\ \A t \in Threads : WF_lockVars(ThreadStep(t))

-----------------------------------------------------------------------------
Locations == {"idle", "getChan", "receive", "parked", "locked", "unlock", "clean", "sweep"}

\* The variables have the types of their declarations, and locks.lock is
\* held exactly while a thread is inside Clean.
LockTypeOK ==
  /\ list \in [Keys -> Chans \union {NoChan}]
  /\ owner \in Threads \union {NoChan}
  /\ chan \in [Chans -> {"full", "empty", "closed"}]
  /\ waiters \in [Chans -> Seq(Threads)]
  /\ at \in [Threads -> Locations]
  /\ key \in [Threads -> Keys \union {NoChan}]
  /\ ref \in [Threads -> Chans \union {NoChan}]
  /\ chans \in [Threads -> [Keys -> Chans \union {NoChan}]]
  /\ unswept \subseteq Keys /\ toDelete \subseteq Keys
  /\ rounds \in [Threads -> Nat]
  /\ \A t \in Threads : owner = t <=> at[t] = "sweep"

\* Two Locks never hold one key, also when Clean has replaced the key's
\* channel between getChan and the receive of one of them.
MutualExclusion ==
  \A t, u \in Threads : t # u => Got(t) \intersect Got(u) = {}

\* The channel of a held key is the registered one, open and without a
\* token: Unlock's send neither blocks nor panics on a closed channel.
HeldChannelsAreOpen ==
  \A t \in Threads : \A k \in Got(t) :
    list[k] = chans[t][k] /\ chan[chans[t][k]] = "empty"

\* Every Lock that is called returns and every Unlock completes, whatever
\* keys the others want: sorting the keys leaves no cycle of waiters, and a
\* channel closed under a waiter is noticed.
AllRoundsEnd == <>[](\A t \in Threads : at[t] = "idle" /\ rounds[t] = MaxRounds[t])
=============================================================================
