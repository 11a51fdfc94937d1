------------------------- MODULE MCParserReference -------------------------
(* The parser and the reference recognizer with the tables of a toy grammar. *)
EXTENDS ParserReference, ToyGrammars
=============================================================================
