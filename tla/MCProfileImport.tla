--------------------------- MODULE MCProfileImport ---------------------------
(***************************************************************************)
(* Profiles of at most eight elements: two rules with an identity and a    *)
(* test each, or one with every part.                                      *)
(***************************************************************************)
EXTENDS ProfileImport

MCFlavours ==
  {<< <<"PDFA">>, <<"1">>, <<"b">> >>, << <<"PDFA">>, <<"4">> >>, << <<"PDFA">>, <<"1">>, <<"1">> >>,
   << <<"PDFUA">>, <<"2">> >>, << <<"PDFUA">>, <<"3">> >>,
   << <<"WTPDF">>, <<"2">>, <<"0">>, <<"reuse">> >>}

MCParsable == {<<"a">>}

=============================================================================
