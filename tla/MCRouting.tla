------------------------------ MODULE MCRouting ------------------------------
(***************************************************************************)
(* Instances of Routing for TLC.  In MCRouting.cfg two tasks replace and   *)
(* remove one upstream that serves one request at a time; MCRoutingAlias   *)
(* has a second upstream after it, without a limit, and aliases.           *)
(***************************************************************************)
EXTENDS Routing, TLC

\* One upstream, that no alias names.
OneRank == [u \in {"u1"} |-> 1]
OneCap == [u \in {"u1"} |-> 1]
NoEntries == [n \in {"fast"} |-> << >>]

\* Two upstreams.
MCRank == [u \in {"u1", "u2"} |-> IF u = "u1" THEN 1 ELSE 2]
MCMaxConcurrency == [u \in {"u1", "u2"} |-> IF u = "u1" THEN 1 ELSE 0]

\* model_list sends "fast" to u2's model "m"; the alias falls back on u1.
MCModelList == [n \in {"fast"} |-> <<[id |-> "u2", model |-> "m"]>>]
MCAliases == [n \in {"fast"} |-> <<[id |-> "u1", model |-> "k"]>>]
MCModelChoices == {{}, {"fast", "m"}}

=============================================================================
