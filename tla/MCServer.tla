------------------------------- MODULE MCServer -------------------------------
(* Finite instances of the server for TLC. *)
EXTENDS ServerClaims

CONSTANTS F1, B1, B2, w1, w2

NoPayloads == {}

Create(lock) == [type |-> "open", name |-> F1, create |-> TRUE, lock |-> lock]
Open(lock)   == [type |-> "open", name |-> F1, create |-> FALSE, lock |-> lock]
OnFd(t, fd)  == [type |-> t, fd |-> fd]

RemoveF1 == [type |-> "remove", name |-> F1]

(* Requests that are never answered EBUSY and never wait. *)
Sharing == {Create(FALSE), Open(FALSE), OnFd("close", 0)}

(* A client locks and unlocks, another one is in its way. *)
Locking == {Create(TRUE), Open(FALSE), OnFd("unlock", 0)}

(* Locks that wait for a file to be closed. *)
Waiting == {Create(FALSE), Open(FALSE), Open(TRUE), OnFd("lock", 0), OnFd("close", 1), RemoveF1}

(* One request of a kind, where one is enough. *)
LockOnce  == {Create(FALSE), Open(FALSE), OnFd("lock", 0), OnFd("close", 1)}
Queueing  == {Create(TRUE), Open(TRUE), OnFd("unlock", 0)}

Symmetric == Permutations(Workers)
=============================================================================
