----------------------------- MODULE InterfaceChecks -----------------------------
(* The evaluators of core/check_engine.py that go through the interfaces,      *)
(* trunks, access lists and VLAN features of a device, with the view of an     *)
(* interface that core/parser_engine.py joins from two outputs.                *)
EXTENDS CheckOutcome

(* InterfaceView: the configuration and the status line of one interface, each *)
(* None when its output does not show the interface.                           *)
SwitchportMode(i) ==
  IF i.config # None /\ i.config.mode # None THEN i.config.mode
  ELSE IF i.status # None /\ i.status.vlan # None THEN "access" ELSE None

AccessVlan(i) ==
  IF i.config # None /\ i.config.vlan # None THEN i.config.vlan
  ELSE IF i.status # None THEN i.status.vlan ELSE None

InterfaceField(i, field) ==
  CASE field = "shutdown"        -> IF i.config # None THEN i.config.shutdown ELSE None
    [] field = "access_vlan"     -> AccessVlan(i)
    [] field = "switchport_mode" -> SwitchportMode(i)
    [] field = "status"          -> IF i.status # None THEN i.status.state ELSE None
    [] field = "media_type"      -> IF i.status # None THEN i.status.media ELSE None

InterfaceFields == {"shutdown", "access_vlan", "switchport_mode", "status"}
FieldsOf(i)     == [f \in InterfaceFields |-> InterfaceField(i, f)]

Lines(i)  == IF i.config # None THEN i.config.lines ELSE {}
Object(i) == <<"interface", i.name>>

(* _interface_candidates: an interface is in scope when one rule includes it. *)
Includes(rule, i) ==
  /\ rule.physical => i.physical
  /\ rule.down => InterfaceField(i, "status") \in {"disabled", "notconnect"}
  /\ \A f \in DOMAIN rule.match : ValueMatches(InterfaceField(i, f), rule.match[f])

Candidates(scope, interfaces) == {i \in interfaces : \E rule \in scope : Includes(rule, i)}

(* _interface_policy *)
InterfacePolicy(check, profile, d) ==
  LET candidates == Candidates(check.scope, d.interfaces)
      ok == {i \in candidates : ConditionsPass(profile, FieldsOf(i), check.all)}
  IN  Judged({Object(i) : i \in candidates \ ok}, {Object(i) : i \in ok})

(* _interface_config_policy.  `exempt' alone configures nothing; the search    *)
(* strings of an alternative group are one set; a forbidden field value is     *)
(* read from the view, not from the text.                                      *)
Exempt(check, i) == check.exempt \cap Lines(i) # {}

FailsUnlessForbidden(check, i) ==
  \/ ~ check.required \subseteq Lines(i)
  \/ \E group \in check.alternatives : group \cap Lines(i) = {}
  \/ \E f \in check.forbiddenFields : ValueMatches(InterfaceField(i, f.field), f.expected)

InterfaceFails(check, i) ==
  \/ ~ check.required \subseteq Lines(i)
  \/ check.forbidden \cap Lines(i) # {}
  \/ \E group \in check.alternatives : group \cap Lines(i) = {}
  \/ \E f \in check.forbiddenFields : ValueMatches(InterfaceField(i, f.field), f.expected)

InterfaceConfigPolicy(check, d) ==
  LET candidates == Candidates(check.scope, d.interfaces)
      missing    == check.global \ d.running
      failing    == {i \in candidates : ~ Exempt(check, i) /\ InterfaceFails(check, i)}
  IN  IF /\ check.global = {} /\ check.required = {} /\ check.alternatives = {}
         /\ check.forbidden = {} /\ check.forbiddenFields = {}
      THEN Undecided("Not_Reviewed")
      ELSE IF check.requireCandidates /\ candidates = {} THEN Undecided(check.result.error)
      ELSE Judged({<<"global_config", g>> : g \in missing} \cup {Object(i) : i \in failing},
                  {Object(i) : i \in candidates \ failing})

(* _trunk_vlan_policy: a device without trunks has nothing that fails. *)
TrunkVlanPolicy(check, profile, d) ==
  LET ok == {t \in d.trunks : ConditionsPass(profile, t.fields, check.all)}
  IN  Judged({<<"interface", t.name>> : t \in d.trunks \ ok}, {<<"interface", t.name>> : t \in ok})

(* _acl_deny_logging_policy: deny statements of the types in scope and, when   *)
(* asked for, of the lists an interface applies.                               *)
Bound(d) == UNION {i.config.groups : i \in {i \in d.interfaces : i.config # None}}

AclDenyLoggingPolicy(check, d) ==
  LET judged == {s \in d.acls : /\ s.action = "deny" /\ s.type \in check.types
                                /\ check.boundOnly => s.acl \in Bound(d)}
      logged == {s \in judged : s.logged}
  IN  Judged({<<"acl_statement", s.acl>> : s \in judged \ logged},
             {<<"acl_statement", s.acl>> : s \in logged})

(* _dhcp_snooping_policy and _arp_inspection_policy: the VLANs of the profile  *)
(* are required whatever the conditions of the check say.                      *)
DhcpSnoopingPolicy(check, profile, d) ==
  LET ok == ConditionsPass(profile, [global_enabled |-> d.dhcp.enabled, snooping_vlans |-> d.dhcp.vlans],
                           check.all)
      failed == (IF d.dhcp.enabled THEN {} ELSE {<<"global", "ip dhcp snooping">>})
                  \cup {<<"vlan", v>> : v \in ProfileList(profile, "dhcp_snooping.vlans") \ d.dhcp.vlans}
  IN  Outcome(ok /\ failed = {}, NoStatus, failed, {})

ArpInspectionPolicy(check, profile, d) ==
  LET ok == ConditionsPass(profile, [inspection_vlans |-> d.arp, vlans |-> d.arp], check.all)
      failed == {<<"vlan", v>> : v \in ProfileList(profile, "arp_inspection.vlans") \ d.arp}
  IN  Outcome(ok /\ failed = {}, NoStatus, failed, {})
================================================================================
