----------------------------- MODULE MCDelegation -----------------------------
(***************************************************************************)
(* Surroundings of the delegation service: retries of one key while time   *)
(* passes, a queue slower than the escrow, operators against two workers,  *)
(* conflicting uses of a key, the closing of service and board, and        *)
(* submissions that bypass the service.                                    *)
(***************************************************************************)
EXTENDS DelegationService

CONSTANTS w1, w2

NoKeys == [c \in Calls |-> NoKey]
OneKey == [c \in Calls |-> 1]
Alike == [c \in Calls |-> 1]

Retries == [calls |-> Calls, direct |-> {}, key |-> [c \in Calls |-> IF c = 3 THEN NoKey ELSE 1], request |-> Alike,
            stream |-> {}, workers |-> {w1}, responses |-> {"done"},
            faults |-> FALSE, operations |-> 0, ticks |-> 2, closing |-> {}]
SlowQueue == [calls |-> {1}, direct |-> {}, key |-> NoKeys, request |-> Alike, stream |-> {1}, workers |-> {w1},
              responses |-> TerminalStatus, faults |-> TRUE, operations |-> 1, ticks |-> 2, closing |-> {}]
Operating == [calls |-> {1, 2}, direct |-> {}, key |-> NoKeys, request |-> Alike, stream |-> {1}, workers |-> {w1, w2},
              responses |-> {"done"}, faults |-> FALSE, operations |-> 2, ticks |-> 0, closing |-> {}]
Conflicts == [calls |-> {1, 2}, direct |-> {}, key |-> OneKey, request |-> [c \in Calls |-> c], stream |-> {1, 2},
              workers |-> {w1}, responses |-> {"failed"}, faults |-> TRUE, operations |-> 1, ticks |-> 0,
              closing |-> {"service"}]
Closing == [calls |-> {1, 2}, direct |-> {}, key |-> OneKey, request |-> Alike, stream |-> {}, workers |-> {w1, w2},
            responses |-> {"done"}, faults |-> TRUE, operations |-> 0, ticks |-> 0, closing |-> {"service", "board"}]
Submissions == [calls |-> Calls, direct |-> {1, 2}, key |-> OneKey,
                request |-> [c \in Calls |-> IF c = 3 THEN 2 ELSE 1], stream |-> {},
                workers |-> {w1}, responses |-> {"done"}, faults |-> FALSE, operations |-> 0, ticks |-> 2,
                closing |-> {"service"}]
AllEnvironments == {Retries, SlowQueue, Operating, Conflicts, Closing, Submissions}
=============================================================================
