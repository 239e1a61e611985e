-------------------------- MODULE MCStationAccess --------------------------
(* A station without settings, or delivered with an address of the server    *)
(* and no login before a recording; switches of every kind: the operator's   *)
(* own, the gates', dangerous ones.                                          *)
EXTENDS StationAccess
LOCAL INSTANCE FiniteSetsExt
Delivered ==
  {[Defaults EXCEPT !.sync.server_base_url = "court", !.operator.required_to_start = FALSE]}

FlipSwitch(w, s) ==
  CASE w = "device" -> [s EXCEPT !.audio.device = IF @ = None THEN "usb" ELSE None]
    [] w = "encrypt" -> [s EXCEPT !.storage.encrypt_at_rest = ~@]
    [] w = "url" -> [s EXCEPT !.sync.server_base_url = IF @ = None THEN "court" ELSE None]
    [] w = "root" -> [s EXCEPT !.storage.root_path = IF @ = None THEN "other_disk" ELSE None]
    [] w = "required" -> [s EXCEPT !.operator.required_to_start = ~@]
    [] w = "pin" -> [s EXCEPT !.operator.offline_pin.required = ~@]
    [] w = "admin_pin" -> [s EXCEPT !.admin_pin.required = ~@]
    [] w = "event_log" -> [s EXCEPT !.integrity.event_log = ~@]

FlipSwitches(edit, s) == FoldSet(FlipSwitch, s, edit)

Saves == {{"device", "encrypt"}, {"pin"}, {"admin_pin", "url"}, {"event_log"}, {"root"}}
Starts == {{"key", "admin_pin", "autonomous", "profile"}, {}}
=============================================================================
