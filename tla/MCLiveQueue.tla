---------------------------- MODULE MCLiveQueue ----------------------------
(* Instances of LiveQueue for TLC.                                         *)
EXTENDS LiveQueue, TLC

File(captFirst, allowDanmu, passRules, filterRules) ==
  [queue_rules  |-> [capt_first |-> captFirst, allow_danmu |-> allowDanmu,
                     allow_gift |-> TRUE],
   pass_rules   |-> passRules,
   filter_rules |-> filterRules]

NoLists == [none |-> {}]

(* An entry of a list, its uid a JSON string or a JSON number. *)
AsString(u) == [type |-> "string", value |-> u]
AsNumber(u) == [type |-> "number", value |-> u]

Ask(u, level) ==
  [uid : {u}, body : {"queue", "cancel", "chat"}, fleet_lv : {level}]

(* Two viewers and a captain, first come, first served; one of the viewers *)
(* never cancels.                                                          *)
PlainDanmus == Ask(1, 0) \cup Ask(2, 3)
               \cup {d \in Ask(3, 0) : d.body = "queue"}
PlainFiles == {File(FALSE, TRUE, NoLists, NoLists),
               File(FALSE, FALSE, NoLists, NoLists)}

(* A viewer, two captains and two above them, the fleet first; the lists   *)
(* where the program reads them, their uids numbers: 4 is on both, 5 is    *)
(* blacklisted.                                                            *)
FleetDanmus == Ask(1, 0) \cup Ask(2, 3) \cup Ask(3, 3)
               \cup Ask(4, 2) \cup Ask(5, 1)
FleetFiles ==
  {File(TRUE, TRUE,
        [blacklist |-> {AsNumber(4), AsNumber(5)}, whitelist |-> {AsNumber(4)}],
        NoLists)}

(* The file as it is shipped (config/pdjcfg.json): the lists in a section  *)
(* of their own, their uids strings.                                       *)
ShippedFiles ==
  {File(TRUE, TRUE, NoLists,
        [blacklist |-> {AsString(2)}, whitelist |-> {AsString(3)}])}
ShippedDanmus == Ask(1, 0) \cup Ask(2, 0)
=============================================================================
