-------------------------- MODULE MC_DictToolkitMain --------------------------
(***************************************************************************)
(* Model values for DictToolkitMain: every command name of the table, one  *)
(* unknown name and the empty one (as in the command_utils unit test);     *)
(* makedict's options o and t and one unknown option z; its defaults and   *)
(* one plain value as the strings of argv.                                 *)
(***************************************************************************)
EXTENDS DictToolkitMain

MCCommandNames == {"info", "diff", "makedict", "header", "help", "abc", ""}
MCOptionNames == {"o", "t", "z"}
MCValues == {"p", "2", "off"}
=============================================================================
