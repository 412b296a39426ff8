------------------------------ MODULE MCScopes ------------------------------
(* Programs with one name and one label.  The first kind exercises the     *)
(* names, the second the ends of blocks, break and continue, the third     *)
(* goto and return, the last the sorts of variables.                       *)
EXTENDS Scopes

P(sorts, spaces, kinds, jumps, n) ==
  [sorts |-> sorts, spaces |-> spaces, kinds |-> kinds, jumps |-> jumps, steps |-> n]
MCPrograms ==
  {P({"auto"}, {"typedef", "enum", "tag"}, {"block", "for", "if"}, {}, 5),
   P({"clean"}, {}, {"block", "for", "switch", "expr", "while"}, {"break", "continue"}, 8),
   P({"clean"}, {}, {"block", "for"}, {"goto", "label", "return"}, 7),
   P(VarSorts, {}, {"block", "for"}, {"return"}, 6)}
=============================================================================
