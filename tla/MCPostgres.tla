----------------------------- MODULE MCPostgres -----------------------------
(***************************************************************************)
(* Small instances of Postgres for TLC.                                    *)
(***************************************************************************)
EXTENDS PostgresInvariant, TLC

CONSTANTS p1, p2, g1, g2, g3, g4

OneProc  == {p1}
TwoProcs == {p1, p2}

MCGenerated  == {g1, g2, g3}
MCGenerated4 == {g1, g2, g3, g4}

(***************************************************************************)
(* The default, another port, one that is refused and one that comes out   *)
(* as port 1 when it is cut to an int32.                                   *)
(***************************************************************************)
MCPort == {DefaultPostgresPort, 3, 5, 9}

SpecOf(policy, pw, asked, ok) ==
  [policy |-> policy, password |-> pw, port |-> asked, sizeOk |-> ok]

PlainSpecs   == {SpecOf("Delete", NoPw, NoPort, TRUE)}
GivenSpecs   == {SpecOf("Delete", UserPw, NoPort, TRUE)}
RefusedSpecs == {SpecOf("Delete", NoPw, 5, TRUE)}

(***************************************************************************)
(* A generated password, a given one with a port of its own, and a size    *)
(* that does not parse; then an orphaning policy and the other ports.      *)
(***************************************************************************)
DeleteSpecs == PlainSpecs \cup {SpecOf("Delete", UserPw, 3, TRUE),
                                SpecOf("Delete", NoPw, NoPort, FALSE)}

AllSpecs == DeleteSpecs \cup RefusedSpecs
              \cup {SpecOf("Orphan", NoPw, NoPort, TRUE), SpecOf("Delete", NoPw, 9, TRUE)}

Symmetry  == Permutations(MCGenerated)
Symmetry4 == Permutations(MCGenerated4)
Symmetric == Symmetry4 \cup Permutations(TwoProcs)

=============================================================================
