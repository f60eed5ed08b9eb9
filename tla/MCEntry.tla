------------------------------ MODULE MCEntry ------------------------------
(***************************************************************************)
(* A code, a key and a name that may refer to either; two flows, and up to *)
(* MaxChanges changes of all kinds.                                        *)
(***************************************************************************)
EXTENDS Entry, TLC

Chosen(m, k, r) == [mode |-> m, key |-> k, refresh |-> r]
Screen(d, f, c) == [door |-> d, flap |-> f, check |-> c]

MCChoices ==
    {Chosen("none", None, FALSE), Chosen("secret", None, TRUE), Chosen("otp", None, TRUE)}
    \cup {Chosen("direct", Ref(n), FALSE) : n \in Names}
MCScreens == {Screen(FALSE, TRUE, "off"), Screen(TRUE, FALSE, "journal"),
              Screen(TRUE, FALSE, "ha_command")}
Symmetry == Permutations(Flows)
=============================================================================
