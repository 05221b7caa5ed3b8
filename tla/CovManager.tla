------------------------------ MODULE CovManager ------------------------------
(***************************************************************************)
(* The COV manager's promise, abstractly: a table from live subscriptions *)
(* (object, subscriber) to their remaining lifetime in seconds.           *)
(*   - subscribe creates a subscription, or renews an identical one, with  *)
(*     the requested lifetime; a new one needs a free slot;                *)
(*   - cancel removes one;                                                 *)
(*   - tick decrements every positive lifetime and removes the            *)
(*     subscriptions whose lifetime reaches 0; a lifetime of 0 is          *)
(*     indefinite (the choice the implementation makes).                  *)
(* Object existence and notifications are not part of this interface.    *)
(***************************************************************************)
EXTENDS Naturals

CONSTANTS Keys, Subscribers, MaxLifetime, MaxCovSubscriptions,
          Size(_)   \* the number of elements of a finite set

VARIABLE table

Pairs == Keys \X Subscribers

Init == table = [p \in {} |-> 0]

Subscribe(p, lt) ==
    /\ p \in DOMAIN table \/ Size(DOMAIN table) < MaxCovSubscriptions
    /\ table' = [q \in DOMAIN table \cup {p} |-> IF q = p THEN lt ELSE table[q]]

Cancel(p) ==
    /\ p \in DOMAIN table
    /\ table' = [q \in DOMAIN table \ {p} |-> table[q]]

Tick ==
    table' = [q \in {r \in DOMAIN table : table[r] # 1} |->
                IF table[q] > 0 THEN table[q] - 1 ELSE table[q]]

Next ==
    \/ \E p \in Pairs, lt \in 0..MaxLifetime : Subscribe(p, lt)
    \/ \E p \in Pairs : Cancel(p)
    \/ Tick

Spec == Init /\ [][Next]_table

=============================================================================
