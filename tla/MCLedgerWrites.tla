--------------------------- MODULE MCLedgerWrites ---------------------------
(* Small instances of LedgerWrites: the requests, catalog and symmetry TLC uses. *)
EXTENDS LedgerWrites, TLC

CONSTANTS w1, w2, w3, k1, k2, t1, t2, t3, food, fun, salary, none

Food == [direction |-> "expense", category |-> food, large |-> FALSE]
Rent == [Food EXCEPT !.large = TRUE]
Pay == [Food EXCEPT !.direction = "income", !.category = salary]
Fun == [Food EXCEPT !.category = fun]
Misfit == [Food EXCEPT !.category = salary]

MCDirectionOf == food :> "expense" @@ fun :> "expense" @@ salary :> "income"
MCSeedRow == Food @@ "source" :> "agent"

Creating(k, d, confirmed) ==
    [key |-> k, op |-> "create", id |-> none, draft |-> d, agent |-> TRUE, confirmed |-> confirmed]
Updating(k, id, d, confirmed) ==
    [key |-> k, op |-> "update", id |-> id, draft |-> d, agent |-> FALSE, confirmed |-> confirmed]
Deleting(k, id, confirmed) ==
    [key |-> k, op |-> "delete", id |-> id, draft |-> none, agent |-> FALSE, confirmed |-> confirmed]

\* One key, sent by three: a large create before and after confirmation, and another body.
KeyRequests ==
    {Creating(k1, Rent, FALSE), Creating(k1, Rent, TRUE), Creating(k1, Misfit, TRUE)}

\* Two keys that meet on one row.
RowRequests ==
    {Updating(k1, t1, Rent, FALSE), Updating(k1, t1, Rent, TRUE), Updating(k2, t1, Pay, TRUE),
     Deleting(k2, t1, TRUE), Creating(k2, Fun, FALSE)}

\* Two updates whose columns mix, and a deletion.
MixRequests ==
    {Updating(k1, t1, Pay, TRUE), Updating(k2, t1, Fun, TRUE), Deleting(k2, t1, TRUE)}

WorkerSymmetry == Permutations(Worker)
=============================================================================
