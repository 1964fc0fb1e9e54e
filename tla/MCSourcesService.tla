-------------------------- MODULE MCSourcesService --------------------------
(***************************************************************************)
(* Two nodes, one Sync caller on each, one source "s" whose configuration  *)
(* the watched resource may change between two collections {a, b}, one    *)
(* collection {a}, an invalid entry (no destinations), no sources at all,  *)
(* and a payload that does not parse.  A pool of one worker per node makes *)
(* the second collection of a Sync wait for the first task.               *)
(***************************************************************************)
EXTENDS SourcesService

CONSTANTS n1, n2, c1, c2

MCNodes == {n1, n2}
MCCallers == {c1, c2}
MCNodeOf == [c \in Callers |-> IF c = c1 THEN n1 ELSE n2]
OneNodeOf == [c \in Callers |-> n1]
MCSourceNames == {"s"}
MCCollections == {"a", "b"}
MCRegistered == {"s"}
MCCtorFails == {}

Str(n) == Entry("str", n, "")
CfgAB     == SourceConfig("", {"d1"}, <<Str("a"), Str("b")>>)
CfgA      == SourceConfig("", {"d1"}, <<Str("a")>>)
CfgNoDest == SourceConfig("", {}, <<Str("a")>>)

PayloadAB     == [s \in {"s"} |-> CfgAB]
PayloadA      == [s \in {"s"} |-> CfgA]
PayloadNoDest == [s \in {"s"} |-> CfgNoDest]
PayloadNone   == [s \in {} |-> CfgAB]

SyncPayloads == {PayloadAB}
ReloadPayloads == {PayloadAB, PayloadA, PayloadNoDest, PayloadNone, Malformed}

=============================================================================
