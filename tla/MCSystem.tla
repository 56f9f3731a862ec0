------------------------------ MODULE MCSystem ------------------------------
(***************************************************************************)
(* The system with a small script.                                          *)
(***************************************************************************)
EXTENDS System, TLC

CONSTANTS a, b, w

MCLength == [r \in Requests |-> 1]

Command(key) == [key |-> key, chain |-> 1, password |-> w]

\* a creates the chain and then adds a block, reads the chain or removes it; b
\* adds a block once, with or without the password.
MCScript ==
    <<a, 1>> :> {Command("--create-chain")}
    @@ <<a, 2>> :> {Command("--add-block"), Command("--get-blocks"),
                    Command("--remove-chain")}
    @@ <<b, 1>> :> {Command("--add-block"),
                    [Command("--add-block") EXCEPT !.password = ""]}
    @@ <<b, 2>> :> {}

=============================================================================
