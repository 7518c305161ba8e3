---------------------------- MODULE WriteLedger ----------------------------
(***************************************************************************)
(* What the write-down path of an endpoint promises a client, without its  *)
(* queue, its batches and its retries.  Accepted writes are numbered in    *)
(* the order Dispatcher::enqueue_write accepted them.  They are settled in *)
(* that order, each at most once, and settling a write either confirms it  *)
(* (the tag goes Good), rejects it (the tag goes Bad) or forgets it.       *)
(***************************************************************************)
EXTENDS Integers

CONSTANT MaxWrites            \* bound on the writes a behaviour accepts

VARIABLES accepted,           \* how many writes have been accepted
          settled,            \* writes 1..settled have been dealt with
          confirmed,          \* the settled writes the device acknowledged
          rejected            \* the settled writes reported as failed

ledger == <<accepted, settled, confirmed, rejected>>

LedgerInit ==
  /\ accepted = 0
  /\ settled = 0
  /\ confirmed = {}
  /\ rejected = {}

Accept ==
  /\ accepted < MaxWrites
  /\ accepted' = accepted + 1
  /\ UNCHANGED <<settled, confirmed, rejected>>

\* Settle the oldest writes, up to and including the one numbered n.
Settle(n) ==
  /\ n \in (settled + 1)..accepted
  /\ settled' = n
  /\ \E C, R \in SUBSET ((settled + 1)..n) :
       /\ C \cap R = {}
       /\ confirmed' = confirmed \cup C
       /\ rejected' = rejected \cup R
  /\ UNCHANGED accepted

LedgerNext == Accept \/ \E n \in 1..MaxWrites : Settle(n)

LedgerSpec == LedgerInit /\ [][LedgerNext]_ledger

=============================================================================
