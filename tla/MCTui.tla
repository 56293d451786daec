--------------------------------- MODULE MCTui ---------------------------------
(* Values of the constants of Tui for TLC. *)
EXTENDS Tui

Everywhere == {Network, Diagnostics, Management}
DiagnosticsOnly == {Diagnostics}
FirstProfile == {0}
Nowhere == {}

NoFilters == [sidebar |-> {}, profiles |-> {}]

\* What is left: some of the sections, one profile or none.
SomeFilters == [sidebar |-> {<<-2, -4, -3>>}, profiles |-> {<< >>, <<1>>}]
===============================================================================
