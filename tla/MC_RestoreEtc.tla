--------------------------- MODULE MC_RestoreEtc ---------------------------
(* Instances of RestoreEtc for TLC.                                        *)
EXTENDS RestoreEtc

Entry(dest, place, type, policy, actions, restarts) ==
  [dest |-> dest, place |-> place, type |-> type, policy |-> policy,
   source |-> IF type = "file" /\ policy = "managed" THEN "inside" ELSE "none",
   target |-> IF type = "symlink" THEN "safe" ELSE "none",
   mode |-> IF type = "file" THEN "octal" ELSE "none",
   actions |-> actions, restarts |-> restarts]

Unit == Entry("unit", "etc", "file", "managed", {"systemd-system"}, FALSE)
Wants == Entry("wants", "etc", "symlink", "managed", {"systemd-user"}, TRUE)
Device == Entry("device", "devices", "file", "managed", {}, FALSE)
Vpn == Entry("vpn", "etc", "file", "health-check", {}, FALSE)
Bus == Entry("vpn", "etc", "file", "managed", {"dbus-system"}, FALSE)

(* The full manifest, an older one, and one that names a destination twice. *)
SomeManifests == {<<Unit, Wants, Device, Vpn>>, <<Unit, Bus>>, <<Unit, Wants, Unit>>}
=============================================================================
