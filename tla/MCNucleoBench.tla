---------------------------- MODULE MCNucleoBench ----------------------------
(* Answers and identities for the run of NucleoBench.                       *)
EXTENDS NucleoBench

\* An identity in either order that starts at the first byte, ends with one of
\* the framings or is cut by it; and no identity at all.
SomeAnswers ==
  [order : {"le"}, lead : 0 .. 3, filler : {"00"}]
    \cup { [order |-> "be", lead |-> 2, filler |-> "02"],
           [order |-> "none", lead |-> 0, filler |-> "ff"] }

\* A chip of the DW3110's kind, another, and what an undriven bus reads.
SomeIdentities == {"dw3110", "sibling", "dw1000", "zero"}
MaskedMatches  == {"dw3110", "sibling"}
=============================================================================
