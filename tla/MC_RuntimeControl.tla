-------------------------- MODULE MC_RuntimeControl --------------------------
(* Instances of RuntimeControl for TLC.                                    *)
EXTENDS RuntimeControl

Set(op, arg) == [op |-> op, arg |-> arg]

(* Every operation once.                                                   *)
SomeCommands ==
  {Set("set-mode", "legacy"),
   Set("set-fps-target", "40"), Set("set-persona", "battery"),
   Set("clear-fps-target", "none"), Set("clear-persona", "none"),
   Set("restore-defaults", "none")}

(* An unreadable file, a mode of no command here, an invalid field beside  *)
(* a valid one.                                                            *)
SomeEdits ==
  {Damaged, Payload("observe", "bad", "none"), Payload("off", "none", "none")}
=============================================================================
