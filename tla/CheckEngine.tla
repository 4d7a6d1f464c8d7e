------------------------------- MODULE CheckEngine -------------------------------
(* core/check_engine.py: the judgement of one check on the outputs of one      *)
(* device, and what a verdict of compliance has to mean.                       *)
EXTENDS InterfaceChecks, ControlChecks

(* command_contains, command_not_contains and command_regex; a check without   *)
(* anything to look for raises.                                                *)
CommandContains(check, outputs, expected) ==
  IF check.needle = None THEN Raised
  ELSE Plainly(Found(outputs, [command |-> check.command, pattern |-> check.needle]) = expected)

(* section_contains and section_not_contains: a missing section is empty. *)
SectionContains(check, sections, expected) ==
  IF check.section = None \/ check.needle = None THEN Raised
  ELSE Plainly((check.section \in DOMAIN sections /\ check.needle \in sections[check.section]) = expected)

(* _command_pattern_policy: without any pattern nothing was reviewed. *)
CommandPatternPolicy(check, profile, outputs) ==
  LET required     == Patterns(profile, check.all, check.profileAll)
      alternatives == Patterns(profile, check.any, check.profileAny)
      forbidden    == Patterns(profile, check.none, check.profileNone)
      missing      == {p \in required : ~ Found(outputs, p)}
      present      == {p \in forbidden : Found(outputs, p) /\ ~ p.blank}
      matched      == alternatives = {} \/ \E p \in alternatives : Found(outputs, p)
  IN  IF required = {} /\ alternatives = {} /\ forbidden = {} THEN Undecided("Not_Reviewed")
      ELSE Outcome(missing = {} /\ matched /\ present = {}, NoStatus,
                   {<<"pattern", p.pattern>> : p \in missing \cup present}, {})

(* _evaluate_by_type *)
EvaluateByType(check, profile, d) ==
  CASE check.type = "manual_review"             -> Plainly(FALSE)
    [] check.type = "command_contains"          -> CommandContains(check, d.outputs, TRUE)
    [] check.type = "command_not_contains"      -> CommandContains(check, d.outputs, FALSE)
    [] check.type = "command_regex"             -> CommandContains(check, d.outputs, TRUE)
    [] check.type = "section_contains"          -> SectionContains(check, d.sections, TRUE)
    [] check.type = "section_not_contains"      -> SectionContains(check, d.sections, FALSE)
    [] check.type = "command_pattern_policy"    -> CommandPatternPolicy(check, profile, d.outputs)
    [] check.type = "interface_policy"          -> InterfacePolicy(check, profile, d)
    [] check.type = "interface_config_policy"   -> InterfaceConfigPolicy(check, d)
    [] check.type = "trunk_vlan_policy"         -> TrunkVlanPolicy(check, profile, d)
    [] check.type = "acl_deny_logging_policy"   -> AclDenyLoggingPolicy(check, d)
    [] check.type = "dhcp_snooping_policy"      -> DhcpSnoopingPolicy(check, profile, d)
    [] check.type = "arp_inspection_policy"     -> ArpInspectionPolicy(check, profile, d)
    [] check.type = "dod_banner_policy"         -> DodBannerPolicy(d)
    [] check.type = "radius_server_policy"      -> RadiusServerPolicy(check, profile, d)
    [] check.type = "vty_session_limit_policy"  -> VtySessionLimitPolicy(profile.maximum, d.blocks)
    [] check.type = "root_guard_neighbor_policy" -> RootGuardNeighborPolicy(check, profile.upstream, d)
    [] check.type = "persistent_logging_privilege_policy" -> PersistentLoggingPrivilegePolicy(check, d)
    [] check.type = "management_access_policy"  -> ManagementAccessPolicy(check, profile, d)
    [] check.type = "ntp_authentication_policy" -> NtpAuthenticationPolicy(check, profile.servers, d)
    [] OTHER                                    -> Raised

(* evaluate, for a case: a check, a profile, a device with the commands whose  *)
(* output was collected, and the exception rules.                              *)
Evaluate(c) ==
  Result(c.check, c.device.collected, EvaluateByType(c.check, c.profile, c.device),
         c.rules, c.device.name)

--------------------------------------------------------------------------------
(* What compliance means, control by control, said of the device and not of    *)
(* the way the engine goes through it.  Types whose evaluator is a single      *)
(* comparison are left out.                                                    *)

(* Every string of the configured lists is there, one of the alternatives is,  *)
(* none of the forbidden ones, and something was configured at all.            *)
PatternCompliance(check, profile, d) ==
  LET shows(p)  == p.command \in DOMAIN d.outputs /\ p.pattern \in d.outputs[p.command]
      hidden(p) == ~ shows(p) \/ p.blank
      of(k, v)  == [command |-> k.command, pattern |-> v, blank |-> FALSE]
      values(k) == ProfileList(profile, k.key)
      optional  == check.any # {} \/ \E k \in check.profileAny : values(k) # {}
  IN  /\ \A p \in check.all : shows(p)
      /\ \A k \in check.profileAll : \A v \in values(k) : shows(of(k, v))
      /\ \A p \in check.none : hidden(p)
      /\ \A k \in check.profileNone : \A v \in values(k) : hidden(of(k, v))
      /\ optional => \/ \E p \in check.any : shows(p)
                     \/ \E k \in check.profileAny : \E v \in values(k) : shows(of(k, v))
      /\ \/ check.all \cup check.none # {} \/ optional
         \/ \E k \in check.profileAll \cup check.profileNone : values(k) # {}

(* Each interface in scope is exempt or has the whole wanted configuration. *)
InterfaceCompliance(check, d) ==
  LET wanted(i) == /\ \A p \in check.required : p \in Lines(i)
                   /\ \A p \in check.forbidden : p \notin Lines(i)
                   /\ \A group \in check.alternatives : \E p \in group : p \in Lines(i)
                   /\ \A f \in check.forbiddenFields : ~ ValueMatches(InterfaceField(i, f.field), f.expected)
      inScope(i) == \E rule \in check.scope : Includes(rule, i)
  IN  /\ \A p \in check.global : p \in d.running
      /\ \A i \in d.interfaces : inScope(i) => (Exempt(check, i) \/ wanted(i))
      /\ check.requireCandidates => \E i \in d.interfaces : inScope(i)
      /\ \/ check.global \cup check.required \cup check.forbidden # {}
         \/ check.alternatives # {} \/ check.forbiddenFields # {}

(* A banner is a header and the text up to the next delimiter.  Nobody can say *)
(* what a header inside an unfinished banner is: the engine takes its          *)
(* delimiter for the end.                                                      *)
BannerCompliance(d) ==
  \E i \in DOMAIN d.config : \E j \in i .. Len(d.config) :
    /\ d.config[i].header
    /\ d.config[j].ends \/ (i < j /\ d.config[j].header)
    /\ \A k \in i .. j - 1 : ~ d.config[k].ends
    /\ Clauses \subseteq UNION {d.config[k].clauses : k \in {k \in i .. j : k = i \/ ~ d.config[k].header}}

BannersNested(d) ==
  \E i, j \in DOMAIN d.config :
    /\ i < j /\ d.config[i].header /\ d.config[j].header
    /\ \A k \in i .. j - 1 : ~ d.config[k].ends

(* At most `maximum' sessions are possible at the same time. *)
VtyCompliance(maximum, blocks) ==
  LET bs == NamesOf(blocks)
      limited == \E b \in bs : b.limits # {} /\ b.first <= b.last
      lines == UNION {b.first .. b.last : b \in bs}
  IN  /\ maximum # None /\ maximum >= 1
      /\ \A b \in bs : b.first <= b.last
      /\ limited  => \A b \in bs : b.limits # {} /\ \A l \in b.limits : l # None /\ l <= maximum
      /\ ~ limited => Cardinality(lines) <= maximum

(* Each switch seen downstream is behind a port, or a channel of that port,    *)
(* that guards the root.                                                       *)
RootGuardCompliance(check, upstream, d) ==
  LET above(n) == (check.tokens /\ n.token) \/ \E u \in upstream : Variants(u) \cap Variants(n.id) # {}
  IN  /\ \A n \in d.neighbors : n.switch /\ ~ above(n) =>
           /\ n.local \in DOMAIN d.ports
           /\ \/ d.ports[n.local].guard
              \/ LET channel == d.ports[n.local].channel
                 IN  channel \in DOMAIN d.ports /\ d.ports[channel].guard
      /\ d.neighbors # {}
      /\ upstream # {} \/ check.tokens

(* VTY lines take connections through the list, and the list lets in exactly   *)
(* the networks of the profile.                                                *)
ManagementCompliance(p, d) ==
  LET permits == {s \in d.acls : s.acl = p.acl /\ s.action = "permit" /\ s.type # "ipv6"}
  IN  /\ p.acl # None /\ p.networks # None /\ p.networks # {} /\ d.vty # {}
      /\ \A v \in d.vty : v.class = p.acl
      /\ {AclPermitSource(s.type, s.tokens) : s \in permits} = p.networks

(* Each server of the profile is asked with a key that is trusted and whose    *)
(* definition in force is approved.                                            *)
NtpCompliance(check, servers, d) ==
  LET inForce(id, k) == d.keys[k].id = id /\ \A j \in k + 1 .. Len(d.keys) : d.keys[j].id # id
      askedWith(s, id) == \E l \in DOMAIN d.servers :
        /\ d.servers[l].name = s /\ d.servers[l].key = id
        /\ \A e \in 1 .. l - 1 : d.servers[e].name = s => d.servers[e].key = None
      named == {d.servers[l].key : l \in DOMAIN d.servers} \ {None}
  IN  /\ servers # None /\ check.approved # {}
      /\ Cardinality({servers[k] : k \in DOMAIN servers}) >= check.minimum
      /\ d.authenticate
      /\ \A k \in DOMAIN servers : \E id \in named :
           /\ askedWith(servers[k], id)
           /\ \E t \in d.trusted : t.first <= id /\ id <= t.last
           /\ \E n \in DOMAIN d.keys : inForce(id, n) /\ d.keys[n].algorithm \in check.approved

(* What the parsers and the profile give an evaluator: lists and ranges of     *)
(* whole numbers, one entry for each section header, keys that are there.      *)
IsList(s) == Len(s) \in Nat /\ DOMAIN s = 1 .. Len(s)

BannerFacts(d) == IsList(d.config) /\ \A k \in DOMAIN d.config : d.config[k].ends \in BOOLEAN /\ d.config[k].header \in BOOLEAN

VtyFacts(maximum, blocks) ==
  /\ maximum \in Int \cup {None} /\ IsList(blocks)
  /\ \A k \in DOMAIN blocks : /\ blocks[k].first \in Int /\ blocks[k].last \in Int
                              /\ blocks[k].limits \subseteq Int \cup {None}

ManagementFacts(d) ==
  /\ \A v, w \in d.vty : v.name = w.name => v = w
  /\ \A s \in d.acls : s.type \in {"standard", "extended", "ipv6"}

NtpFacts(check, servers, d) ==
  /\ servers = None \/ IsList(servers)
  /\ IsList(d.servers) /\ IsList(d.keys)
  /\ \A l \in DOMAIN d.servers : d.servers[l].key \in Int \cup {None}
  /\ \A t \in d.trusted : t.first \in Int /\ t.last \in Int
  /\ check.minimum \in Int /\ None \notin check.approved

FactsOf(c) ==
  LET check == c.check  d == c.device
  IN  /\ check.type = "dod_banner_policy"          => BannerFacts(d)
      /\ check.type = "vty_session_limit_policy"   => VtyFacts(c.profile.maximum, d.blocks)
      /\ check.type = "root_guard_neighbor_policy" => None \notin DOMAIN d.ports
      /\ check.type = "management_access_policy"   => ManagementFacts(d)
      /\ check.type = "ntp_authentication_policy"  => NtpFacts(check, c.profile.servers, d)

Complies(c) ==
  LET check == c.check  d == c.device
  IN  CASE check.type = "command_pattern_policy"     -> PatternCompliance(check, c.profile, d)
        [] check.type = "interface_config_policy"    -> InterfaceCompliance(check, d)
        [] check.type = "dod_banner_policy"          -> BannerCompliance(d)
        [] check.type = "vty_session_limit_policy"   -> VtyCompliance(c.profile.maximum, d.blocks)
        [] check.type = "root_guard_neighbor_policy" -> RootGuardCompliance(check, c.profile.upstream, d)
        [] check.type = "management_access_policy"   -> ManagementCompliance(c.profile, d)
        [] check.type = "ntp_authentication_policy"  -> NtpCompliance(check, c.profile.servers, d)

Referenced == {"command_pattern_policy", "interface_config_policy", "dod_banner_policy",
               "vty_session_limit_policy", "root_guard_neighbor_policy",
               "management_access_policy", "ntp_authentication_policy"}
================================================================================
