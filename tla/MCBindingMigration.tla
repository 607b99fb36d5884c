------------------------- MODULE MCBindingMigration -------------------------
(***************************************************************************)
(* BindingMigration on small instances.                                    *)
(***************************************************************************)
EXTENDS BindingMigration, TLC

CONSTANTS a1, a2, n1, n2

free == [kind |-> "free", params |-> "x", labelled |-> FALSE]

stored == [kind |-> "stored", params |-> "x", labelled |-> FALSE]

bad == [kind |-> "bad", params |-> "x", labelled |-> FALSE]

oauth(p, label) == [kind |-> "oauth", params |-> p, labelled |-> label]

MCTemplates == {free, stored, oauth("x", FALSE)}

MCChoices == {oauth("y", TRUE), bad}

MCLegacies == {[n \in Name |-> "absent"], [n \in Name |-> "free"]}

\* An unrestricted agent and restricted ones, none reviewed
Estate(s) ==
    [agents |-> [a \in Agent |-> [allow |-> IF a = a1 THEN None ELSE {n1}, deny |-> {},
                                  reviewed |-> FALSE, revoked |-> FALSE]],
     regs |-> [n \in Name |-> [auth |-> s, disabled |-> FALSE]],
     bindings |-> [x \in Agent \X Name |-> None],
     sealed |-> "live",
     sessions |-> [n \in Name |-> "healthy"]]

\* A row, and both policies with the other row
MCMarks ==
    {[rows |-> {<<a1, n1>>}, policies |-> {}],
     [rows |-> {<<a2, n1>>}, policies |-> {a1, a2}]}

\* A policy, and a row that it leaves out
InfraMarks == {[rows |-> {<<a1, n2>>}, policies |-> {a1}]}

\* A binding to a registration that is gone
Orphan == [Estate(free) EXCEPT !.regs = [n \in Name |-> None],
                               !.bindings = [x \in Agent \X Name |->
                                               IF x[1] = a1 THEN None ELSE stored]]

MCEstates == {Estate(stored), Estate(oauth("x", FALSE)), Orphan}

Symmetry == Permutations(Owner)
=============================================================================
