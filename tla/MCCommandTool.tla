--------------------------- MODULE MCCommandTool ---------------------------
(***************************************************************************)
(* One command.  Standard output has room for one of the bytes the process *)
(* may write, standard error for none; the pipes hold one byte, and a      *)
(* reader takes them two at a time.                                        *)
(***************************************************************************)
EXTENDS CommandTool, TLC

CONSTANTS stdout, stderr
MCMaxWritten == stdout :> 2 @@ stderr :> 1
MCLimit == stdout :> 1 @@ stderr :> 0
=============================================================================
