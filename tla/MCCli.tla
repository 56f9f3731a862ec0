------------------------------- MODULE MCCli --------------------------------
(***************************************************************************)
(* The command line client: words for four requests and their operands.    *)
(***************************************************************************)
EXTENDS CliMain

Word(text, number) == [text |-> text, number |-> number]

MCWords ==
    {Word("--ping", NaN), Word("--remove-chain", NaN), Word("--get-block", NaN),
     Word("--add-block", NaN), Word("--data", NaN),
     Word("--chain-id", NaN), Word("--block-id", NaN), Word("--password", NaN),
     Word("true", NaN), Word("-1", -1), Word("3x", 3), Word("9", 9)}

=============================================================================
