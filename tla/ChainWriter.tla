---------------------------- MODULE ChainWriter ----------------------------
(***************************************************************************)
(* The writes of the chain adapter: in each process a queue that lets one  *)
(* write at a time take a nonce from a cached counter and broadcast, all   *)
(* of them for the same account.  A write is one call of anchor or revoke. *)
(***************************************************************************)
EXTENDS Naturals, Sequences

CONSTANTS
  Process,      \* the API and the workers, each with its adapter
  Write,        \* calls of anchor and revoke
  None,
  MaxNonce,     \* bound: no nonce above it is taken
  MaxWriterRestarts   \* bound: restarts of all processes together

ASSUME WriterAssumption ==
  MaxNonce \in Nat /\ MaxWriterRestarts \in Nat /\ None \notin Write \cup Nat

Nonce == 0..MaxNonce

VARIABLES
  mined,     \* transactions of the account that are mined: the next nonce
  slot,      \* the write whose transaction holds each nonce, in pool or chain
  counter,   \* nextNonce, None before the first write
  queue,     \* the writes enqueued in each process, oldest first
  at,        \* where the oldest of them stands
  hand,      \* the nonce it has taken
  answered,  \* the nonces each process has returned since it started
  state,     \* of each write
  writerRestarts

writerVars == <<mined, slot, counter, queue, at, hand, answered, state, writerRestarts>>

WriterTypeOK ==
  /\ mined \in 0..(MaxNonce + 1)
  /\ slot \in [Nonce -> Write \cup {None}]
  /\ counter \in [Process -> 0..(MaxNonce + 1) \cup {None}]
  /\ queue \in [Process -> Seq(Write)]
  /\ at \in [Process -> {"idle", "count", "send"}]
  /\ hand \in [Process -> Nonce]
  /\ answered \in [Process -> Seq(Nonce)]
  /\ state \in [Write -> {"new", "queued", "returned", "failed"}]
  /\ writerRestarts \in 0..MaxWriterRestarts

WriterInit ==
  /\ mined = 0
  /\ slot = [n \in Nonce |-> None]
  /\ counter = [p \in Process |-> None]
  /\ queue = [p \in Process |-> <<>>]
  /\ at = [p \in Process |-> "idle"]
  /\ hand = [p \in Process |-> 0]
  /\ answered = [p \in Process |-> <<>>]
  /\ state = [w \in Write |-> "new"]
  /\ writerRestarts = 0

-----------------------------------------------------------------------------
(* enqueueWrite. *)
Enqueue(p, w) ==
  /\ state[w] = "new"
  /\ state' = [state EXCEPT ![w] = "queued"]
  /\ queue' = [queue EXCEPT ![p] = Append(@, w)]
  /\ UNCHANGED <<mined, slot, counter, at, hand, answered, writerRestarts>>

Current(p) == Head(queue[p])

(* The oldest write of a process is over; the next one begins, whatever came
   of it. *)
Ends(p, how) ==
  /\ state' = [state EXCEPT ![Current(p)] = how]
  /\ queue' = [queue EXCEPT ![p] = Tail(@)]
  /\ at' = [at EXCEPT ![p] = "idle"]

(* getNextNonce once nextNonce is n. *)
Takes_NoIncrement(p, n) ==
  /\ n <= MaxNonce
  /\ hand' = [hand EXCEPT ![p] = n]
  /\ counter' = [counter EXCEPT ![p] = n]
  /\ at' = [at EXCEPT ![p] = "send"]

Takes(p, n) ==
  /\ n <= MaxNonce
  /\ hand' = [hand EXCEPT ![p] = n]
  /\ counter' = [counter EXCEPT ![p] = n + 1]
  /\ at' = [at EXCEPT ![p] = "send"]

Begin(p) ==
  /\ at[p] = "idle" /\ queue[p] # <<>>
  /\ \/ counter[p] # None /\ Takes(p, counter[p])
     \/ counter[p] = None /\ at' = [at EXCEPT ![p] = "count"]
                          /\ UNCHANGED <<hand, counter>>
  /\ UNCHANGED <<mined, slot, queue, answered, state, writerRestarts>>

(* The contract's deployment record is missing. *)
BeginFails(p) ==
  /\ at[p] = "idle" /\ queue[p] # <<>>
  /\ Ends(p, "failed")
  /\ UNCHANGED <<mined, slot, counter, hand, answered, writerRestarts>>

(* getTransactionCount(..., 'latest'), which leaves out the pool. *)
ReadCount(p) ==
  /\ at[p] = "count"
  /\ Takes(p, mined)
  /\ UNCHANGED <<mined, slot, queue, answered, state, writerRestarts>>

ReadCountFails(p) ==
  /\ at[p] = "count"
  /\ Ends(p, "failed")
  /\ UNCHANGED <<mined, slot, counter, hand, answered, writerRestarts>>

(* The node accepts a transaction with a nonce that is not mined yet; it takes
   the place of one in the pool with the same nonce if it pays enough more. *)
Accepted(p) ==
  /\ hand[p] >= mined
  /\ slot' = [slot EXCEPT ![hand[p]] = Current(p)]

SendReturns_GivesBack(p) ==
  /\ at[p] = "send"
  /\ Accepted(p)
  /\ Ends(p, "returned")
  /\ answered' = [answered EXCEPT ![p] = Append(@, hand[p])]
  /\ counter' = [counter EXCEPT ![p] = hand[p]]
  /\ UNCHANGED <<mined, hand, writerRestarts>>

SendReturns(p) ==
  /\ at[p] = "send"
  /\ Accepted(p)
  /\ Ends(p, "returned")
  /\ answered' = [answered EXCEPT ![p] = Append(@, hand[p])]
  /\ UNCHANGED <<mined, counter, hand, writerRestarts>>

(* The transaction was accepted, the answer lost: such an error carries
   neither transaction nor receipt, and the nonce is given back. *)
SendLost(p) ==
  /\ at[p] = "send"
  /\ Accepted(p)
  /\ Ends(p, "failed")
  /\ counter' = [counter EXCEPT ![p] = hand[p]]
  /\ UNCHANGED <<mined, hand, answered, writerRestarts>>

(* Not accepted, and the error does not carry a transaction: the nonce is
   given back. *)
SendFails_OneTooFew(p) ==
  /\ at[p] = "send"
  /\ Ends(p, "failed")
  /\ counter' = [counter EXCEPT ![p] = hand[p] - 1]
  /\ UNCHANGED <<mined, slot, hand, answered, writerRestarts>>

SendFails_Jams(p) ==
  /\ at[p] = "send"
  /\ counter' = [counter EXCEPT ![p] = hand[p]]
  /\ at' = [at EXCEPT ![p] = "idle"]
  /\ UNCHANGED <<mined, slot, queue, hand, answered, state, writerRestarts>>

SendFails(p) ==
  /\ at[p] = "send"
  /\ Ends(p, "failed")
  /\ counter' = [counter EXCEPT ![p] = hand[p]]
  /\ UNCHANGED <<mined, slot, hand, answered, writerRestarts>>

(* Not accepted, with an error that carries the transaction: the call would
   revert when its gas was estimated, the nonce is mined already, another
   transaction holds it, or the account has no funds.  The counter stays. *)
SendRefused(p) ==
  /\ at[p] = "send"
  /\ Ends(p, "failed")
  /\ UNCHANGED <<mined, slot, counter, hand, answered, writerRestarts>>

(* The transaction with the next nonce is mined; one with a later nonce
   waits. *)
Mine ==
  /\ mined <= MaxNonce /\ slot[mined] # None
  /\ mined' = mined + 1
  /\ UNCHANGED <<slot, counter, queue, at, hand, answered, state, writerRestarts>>

(* The process starts again, without its queue and its counter. *)
RestartWriter(p) ==
  /\ writerRestarts < MaxWriterRestarts
  /\ writerRestarts' = writerRestarts + 1
  /\ state' = [w \in Write |-> IF \E i \in 1..Len(queue[p]) : queue[p][i] = w
                                 THEN "failed" ELSE state[w]]
  /\ queue' = [queue EXCEPT ![p] = <<>>]
  /\ at' = [at EXCEPT ![p] = "idle"]
  /\ counter' = [counter EXCEPT ![p] = None]
  /\ answered' = [answered EXCEPT ![p] = <<>>]
  /\ UNCHANGED <<mined, slot, hand>>

Sends(p) == SendReturns(p) \/ SendLost(p) \/ SendFails(p) \/ SendRefused(p)

Works(p) == Begin(p) \/ BeginFails(p) \/ ReadCount(p) \/ ReadCountFails(p)
                     \/ Sends(p)

WriterNext ==
  \/ \E p \in Process : Works(p) \/ RestartWriter(p) \/ \E w \in Write : Enqueue(p, w)
  \/ Mine

WriterSpec == WriterInit /\ [][WriterNext]_writerVars

(* Every call of the provider returns or throws in the end: requests to the
   RPC node time out. *)
FairWriterSpec == WriterSpec /\ \A p \in Process : WF_writerVars(Works(p))

-----------------------------------------------------------------------------
(* The nonces a process returns grow in the order of its writes: no two writes
   of one process get the same nonce and none overtakes another, whatever fails
   in between (chain.adapter.js:98-104). *)
QueueOrder ==
  \A p \in Process : \A i, j \in 1..Len(answered[p]) :
    i < j => answered[p][i] < answered[p][j]

(* A process never replaces a transaction whose hash it has returned since it
   started, although lost answers and refusals move its counter back and
   forth. *)
ReturnedStays ==
  [][\A p \in Process : Sends(p) =>
       \A i \in 1..Len(answered[p]) :
         slot'[answered[p][i]] = slot[answered[p][i]]]_writerVars

(* A failed write does not jam the writes queued behind it: every write is
   answered in the end (chain.adapter.js:170-175). *)
EveryWriteEnds ==
  \A w \in Write : state[w] = "queued" ~> state[w] \in {"returned", "failed"}

(* chain.adapter.js:211-214: a nonce that was never consumed is given back
   "rather than leaving a permanent gap that would fail every write queued
   after it".  Not so when the error carries the transaction it failed to
   send. *)
NoPermanentGap ==
  \A p \in Process : at[p] = "idle" /\ counter[p] # None =>
    \A n \in Nonce : n < counter[p] => slot[n] # None
=============================================================================
