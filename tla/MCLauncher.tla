------------------------------ MODULE MCLauncher ------------------------------
(***************************************************************************)
(* recover with its two default names, the first of which the base         *)
(* launcher uses; with --name, when commands may run late; and with --name *)
(* beside archive_stop_groups.py.                                          *)
(***************************************************************************)
EXTENDS ArchiveStop

MCBoth == [names |-> <<"base", "eager">>, tools |-> {"recover", "base"},
           late |-> FALSE, launches |-> 3]
MCLate == [names |-> <<"eager">>, tools |-> {"recover"}, late |-> TRUE, launches |-> 4]
MCArchive == [names |-> <<"eager">>, tools |-> {"recover", "archive"},
              late |-> FALSE, launches |-> 3]
MCArchiveLate == [MCArchive EXCEPT !.late = TRUE]
MCSetups == {MCBoth, MCLate, MCArchive, MCArchiveLate}
MCDefault == {[MCBoth EXCEPT !.launches = 2]}
=============================================================================
