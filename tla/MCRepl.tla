------------------------------- MODULE MCRepl -------------------------------
EXTENDS Repl

=============================================================================
