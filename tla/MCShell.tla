------------------------------- MODULE MCShell -------------------------------
(* Screens five cells wide, where a line of three characters wraps and the  *)
(* prompt scrolls; lines of up to five characters, so that a quoted and an  *)
(* unquoted word fit; commands bound to the shortest texts there are.       *)
EXTENDS Shell

MCCommands == <<
    [name |-> <<"a", QUOTE>>, does |-> "help"],
    [name |-> <<"a", QUOTE, "a">>, does |-> "clear"],
    [name |-> <<BLANK>>, does |-> "echo"],
    [name |-> <<"a", QUOTE, QUOTE>>, does |-> "halt"],
    [name |-> <<"a">>, does |-> "history"],
    [name |-> <<"a", "a", "a">>, does |-> "reboot"],
    [name |-> <<"a", BLANK>>, does |-> "report"]>>
=============================================================================
