-------------------------- MODULE MCRubroManifest --------------------------
(***************************************************************************)
(* Two processes, two edits, and the turns of one conversation.            *)
(***************************************************************************)
EXTENDS RubroManifest

CONSTANTS e1, e2, p1, p2, t1, t2, t3

\* The edits are of two rubros: their own rows do not keep them apart.
Keys == [e \in Editors |-> e]
Mixed == {
  [processes |-> {p1, p2}, editors |-> {e1, e2}, turns |-> {}, faults |-> {"load"}],
  [processes |-> {p1, p2}, editors |-> {e1, e2}, turns |-> {t1}, faults |-> {}],
  [processes |-> {p1, p2}, editors |-> {e1}, turns |-> {t1, t2}, faults |-> {"restart"}],
  [processes |-> {p1}, editors |-> {e1}, turns |-> {t1, t2, t3}, faults |-> {}],
  [processes |-> {p1}, editors |-> {e1, e2}, turns |-> {t1, t2}, faults |-> {"agent", "load"}] }
=============================================================================
