--------------------------- MODULE MCAdbCommands ---------------------------
(* AdbCommands with the programs of run adb_commands: each of the calls,   *)
(* after calls that leave something in the pipe.                           *)
EXTENDS AdbCommands

MCPrograms ==
  { <<"Shell", "Shell", "Shell">>, <<"StreamingShell", "InteractiveShell", "InteractiveShell">>,
    <<"Pull", "Install">>,
    <<"Reboot", "Shell">>, <<"PushDirectory">> }
=============================================================================
