---------------------------- MODULE CollectionLock ----------------------------
(***************************************************************************)
(* What the orchestrator promises about one (source, collection) key,      *)
(* stated without nodes, pools, callers' loops or reloads (spec.md 3 and   *)
(* 5): a key is free or held by one owner; only its holder may start the   *)
(* key's execution, at most one execution of a key runs at a time, and     *)
(* the lock is given back when, and only when, that execution is over.    *)
(* A holder that never starts an execution may keep the lock: the          *)
(* orchestrator has no other release path.                                 *)
(***************************************************************************)
CONSTANTS
  Owners,   \* the parties that take locks
  Keys,     \* (source, collection) pairs
  NoOwner   \* a free key, and a key with no execution

VARIABLES
  holder,   \* [Keys -> Owners \cup {NoOwner}]: who holds each key's lock
  runner    \* [Keys -> Owners \cup {NoOwner}]: whose execution of the key runs

vars == <<holder, runner>>

Init ==
  /\ holder = [k \in Keys |-> NoOwner]
  /\ runner = [k \in Keys |-> NoOwner]

\* An owner takes a free key.
Acquire(o, k) ==
  /\ holder[k] = NoOwner
  /\ holder' = [holder EXCEPT ![k] = o]
  /\ UNCHANGED runner

\* The holder of a key starts its one execution.
Start(k) ==
  /\ holder[k] # NoOwner
  /\ runner[k] = NoOwner
  /\ runner' = [runner EXCEPT ![k] = holder[k]]
  /\ UNCHANGED holder

\* The execution ends, whatever its outcome, and the key becomes free.
Finish(k) ==
  /\ runner[k] # NoOwner
  /\ holder' = [holder EXCEPT ![k] = NoOwner]
  /\ runner' = [runner EXCEPT ![k] = NoOwner]

Next ==
  \/ \E o \in Owners, k \in Keys : Acquire(o, k)
  \/ \E k \in Keys : Start(k) \/ Finish(k)

\* An execution that has started ends.
Spec == Init /\ [][Next]_vars /\ \A k \in Keys : WF_vars(Finish(k))

=============================================================================
