----------------------------- MODULE MCUpstream -----------------------------
(***************************************************************************)
(* Instances of Upstream.                                                  *)
(***************************************************************************)
EXTENDS Upstream

Pkt(s) == [status |-> s, fits |-> TRUE]

\* One packet that is forwarded, one that is filtered out, and one that
\* cannot be serialised.
SomeKinds == {Pkt("ok"), Pkt("nocrc"), [status |-> "ok", fits |-> FALSE]}
=============================================================================
