-------------------------- MODULE MCSessionManager --------------------------
(* Instances of SessionManager for TLC. *)
EXTENDS SessionManager, TLC

CONSTANTS k1, k2, a1, s1, s2

\* Two conversations with one agent.
OneAgent == [k \in Keys |-> a1]

\* Two conversations compete for the sessions and share them by lease; nobody
\* calls the manager.
SharedSessions == [keys |-> {k1, k2}, objects |-> 2, leases |-> 2, calls |-> {}]

\* One conversation under every administrative call.
AllCalls == [keys |-> {k1}, objects |-> 1, leases |-> 2,
             calls |-> {"remove", "delete", "drain", "close"}]

\* A conversation that is deleted, opened again as a second Session object and
\* deleted again while turns of the first are still around.
DeletedAgain == [keys |-> {k1}, objects |-> 2, leases |-> 1,
                 calls |-> {"delete", "close"}]

\* One conversation, removed and deleted.
RemovedAndDeleted == [keys |-> {k1}, objects |-> 1, leases |-> 1,
                      calls |-> {"remove", "delete"}]

AllEnvironments == {SharedSessions, AllCalls, DeletedAgain}
OnlyRemovedAndDeleted == {RemovedAndDeleted}

\* Session objects are interchangeable.
Symmetry == Permutations(Sessions)
=============================================================================
