----------------------------- MODULE MCRegistry -----------------------------
(* Instances of Registry for TLC.                                          *)
EXTENDS Registry, TLC

CONSTANTS a1, A1, b1, keyA, keyB

\* Two spellings of one name, and a second name.
MCLower == (a1 :> keyA) @@ (A1 :> keyA) @@ (b1 :> keyB)
MCNames == {a1, A1, b1}

Ask(op, n, starter, stopper, rewrite) ==
    [op |-> op, name |-> n, starter |-> starter, stopper |-> stopper,
     rewrite |-> rewrite]

\* A name whose every operation can race: Add with and without a Start that
\* can fail, AddReady under the other spelling, Remove, Dial and Close.
OneName ==
    {Ask("Add", a1, TRUE, TRUE, TRUE), Ask("Add", A1, FALSE, FALSE, FALSE),
     Ask("AddReady", A1, TRUE, TRUE, FALSE),
     Ask("Remove", a1, FALSE, FALSE, FALSE),
     Ask("Dial", A1, FALSE, FALSE, FALSE),
     Ask("Close", a1, FALSE, FALSE, FALSE)}

\* With a second name, so that Close has several routes to stop.
AllRequests == OneName \cup {Ask("AddReady", b1, FALSE, TRUE, TRUE)}
=============================================================================
