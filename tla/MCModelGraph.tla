---------------------------- MODULE MCModelGraph ----------------------------
(***************************************************************************)
(* Every registered family, one unregistered one, and every path of at     *)
(* most MaxLinks links with every property published where it ends, alone  *)
(* in its profile, beside rules that have drawn content built, and beside  *)
(* rules of every family.                                                  *)
(***************************************************************************)
EXTENDS ModelGraph

MCTypes == Families \cup {"CosBBox"}

MCOtherFamilies ==
  {{}, {"inlineImage"}, {"operator", "markedContent"}, {"contentStream", "xObject"}, Families}

=============================================================================
