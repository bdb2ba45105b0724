---------------------------- MODULE MCPluginTree ----------------------------
(* Two rows, a child of the second, and two services.                       *)
EXTENDS PluginTree

CONSTANTS s, t

MCParent == <<0, 0, 2>>

\* What a fiber injects, may inject and provides.
Role(i, o, p) == [inject |-> i, optional |-> o, provide |-> p]
Compose(role) ==
    [inject |-> [f \in 1 .. 3 |-> role[f].inject],
     optional |-> [f \in 1 .. 3 |-> role[f].optional],
     provide |-> [f \in 1 .. 3 |-> role[f].provide]]

\* A chain through both services.
Chain == Compose(<<Role({}, {}, {s}), Role({s}, {}, {t}), Role({s}, {t}, {})>>)
\* The rows fight; the child follows the first.
Fight == Compose(<<Role({}, {t}, {s}), Role({s}, {}, {t}), Role({s}, {}, {})>>)
\* A row and a child provide the same service.
Duplicate == Compose(<<Role({}, {}, {t}), Role({}, {}, {s}), Role({}, {s}, {t})>>)
\* A child provides what a row may use.
Inward == Compose(<<Role({}, {t}, {s}), Role({}, {}, {}), Role({}, {}, {t})>>)

\* A child provides both services to the first row.
Bundle == Compose(<<Role({}, {s, t}, {}), Role({}, {}, {}), Role({}, {}, {s, t})>>)
\* A row fights the child of the other.
Feud == Compose(<<Role({}, {t}, {s}), Role({}, {}, {}), Role({}, {s}, {t})>>)

MCCompositions == {Chain, Fight, Duplicate, Inward, Bundle, Feud}
=============================================================================
