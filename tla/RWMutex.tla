------------------------------- MODULE RWMutex -------------------------------
(***************************************************************************)
(* A read-write lock of package sync, as its callers see it.  Lock first   *)
(* announces the writer: from then on new readers wait.  The writer has    *)
(* the lock once the readers that were there have left.  Unlock admits the *)
(* readers that have gathered before the next writer may announce itself.  *)
(***************************************************************************)
CONSTANTS
    Readers,
    Writers,
    Nobody

VARIABLES
    turn,          \* the writer that has announced itself
    readers,       \* those that hold the lock for reading
    waiting        \* those in RLock behind an announced writer

lockVars == <<turn, readers, waiting>>

LockTypeOK ==
    /\ turn \in Writers \cup {Nobody}
    /\ readers \in SUBSET Readers
    /\ waiting \in SUBSET Readers

LockInit ==
    /\ turn = Nobody
    /\ readers = {}
    /\ waiting = {}

\* The call of RLock; it returns when u is among the readers.
RLock(u) ==
    /\ UNCHANGED turn
    /\ IF turn = Nobody
       THEN readers' = readers \cup {u} /\ UNCHANGED waiting
       ELSE waiting' = waiting \cup {u} /\ UNCHANGED readers

RUnlock(u) ==
    /\ readers' = readers \ {u}
    /\ UNCHANGED <<turn, waiting>>

\* The call of Lock, from the moment it has its turn; it returns when Locked(w).
Lock(w) ==
    /\ turn = Nobody
    /\ turn' = w
    /\ UNCHANGED <<readers, waiting>>

Locked(w) == turn = w /\ readers = {}

Unlock ==
    /\ turn' = Nobody
    /\ readers' = waiting
    /\ waiting' = {}
=============================================================================
