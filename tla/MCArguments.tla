---------------------------- MODULE MCArguments -----------------------------
(***************************************************************************)
(* The parser with the options of the daemon: words that are keys, an       *)
(* unknown key, numbers at and behind the limits of an int, a number with a *)
(* tail, and words that say no number.                                      *)
(***************************************************************************)
EXTENDS Arguments

Word(text, number) == [text |-> text, number |-> number]

MCWords ==
    {Word("--daemonize", NaN), Word("--port", NaN), Word("--password", NaN),
     Word("-h", NaN), Word("true", NaN), Word("-8", -8), Word("7x", 7),
     Word("8", 8)}

=============================================================================
