-------------------------- MODULE MessageDelivery --------------------------
(***************************************************************************)
(* What the services together promise to a client that sends requests      *)
(* 1, 2, ..., N over one connection: a message is stored at least once     *)
(* before it is acknowledged, under the number the client is given, and    *)
(* acknowledged numbers grow from request to request.  A message may be    *)
(* stored more than once, and may be stored although the client is told    *)
(* that it failed, unless it is invalid.                                   *)
(***************************************************************************)
EXTENDS Integers

CONSTANTS
    N,        \* number of requests
    Invalid   \* requests that validation refuses

VARIABLES
    rows,     \* stored copies: records [req, id]
    outcome,  \* what the client was told of each request
    seq       \* the number it was given

Reqs == 1..N

Init ==
    /\ rows = {}
    /\ outcome = [r \in Reqs |-> "pending"]
    /\ seq = [r \in Reqs |-> 0]

(* A copy is stored under a number larger than all others, at any time. *)
Store(r) ==
    /\ r \notin Invalid
    /\ \E new \in rows' :
          /\ new.req = r
          /\ \A row \in rows : row.id < new.id
          /\ rows' = rows \union {new}
    /\ UNCHANGED <<outcome, seq>>

(* The client gets code 0 and the number of a copy of its message. *)
Ack(r) ==
    /\ outcome[r] = "pending"
    /\ \A q \in Reqs : q < r => outcome[q] \in {"acked", "refused"}
    /\ \E row \in rows :
          /\ row.req = r
          /\ \A q \in Reqs : q < r => seq[q] < row.id
          /\ seq' = [seq EXCEPT ![r] = row.id]
    /\ outcome' = [outcome EXCEPT ![r] = "acked"]
    /\ UNCHANGED rows

(* The client gets code 500, or no answer at all. *)
Fail(r) ==
    /\ outcome[r] = "pending"
    /\ \A q \in Reqs : q < r => outcome[q] \in {"acked", "refused"}
    /\ \E o \in {"refused", "abandoned"} : outcome' = [outcome EXCEPT ![r] = o]
    /\ UNCHANGED <<rows, seq>>

Next == \E r \in Reqs : Store(r) \/ Ack(r) \/ Fail(r)

Spec == Init /\ [][Next]_<<rows, outcome, seq>>

=============================================================================
