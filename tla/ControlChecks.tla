------------------------------ MODULE ControlChecks ------------------------------
(* The evaluators of core/check_engine.py that know one control each: banner,  *)
(* RADIUS servers, VTY sessions, root guard, persistent logging, management    *)
(* access and NTP authentication.                                              *)
EXTENDS CheckOutcome

CONSTANT Clauses      \* required_clauses of the banner

--------------------------------------------------------------------------------
(* _extract_ios_banners.  A line may be a header of the wanted banner, may     *)
(* hold the delimiter (`ends'), and holds clauses (up to the delimiter).  A    *)
(* header whose own line holds a second delimiter is a whole banner.  A header *)
(* without an end is passed over, one inside an unfinished banner ends it.     *)
Ends(line) == line.ends \/ line.header

Banners(config) ==
  LET n == Len(config)
      from[i \in 1 .. n + 1] ==
        IF i > n THEN {}
        ELSE IF ~ config[i].header THEN from[i + 1]
        ELSE IF config[i].ends THEN {config[i].clauses} \cup from[i + 1]
        ELSE LET later == {j \in i + 1 .. n : Ends(config[j])}
             IN  IF later = {} THEN from[i + 1]
                 ELSE LET last == CHOOSE j \in later : \A k \in later : j <= k
                          body == (UNION {config[j].clauses : j \in i .. last - 1})
                                    \cup (IF config[last].header THEN {} ELSE config[last].clauses)
                      IN  {body} \cup from[last + 1]
  IN  from[1]

(* _dod_banner_policy: the banner that misses fewest clauses decides. *)
DodBannerPolicy(d) ==
  LET banners == Banners(d.config)
      missing(b) == Cardinality(Clauses \ b)
      object  == {<<"banner", "login">>}
  IN  IF banners = {} THEN Judged(object, {})
      ELSE LET best == CHOOSE b \in banners : \A c \in banners : missing(b) <= missing(c)
           IN  IF missing(best) > 0 THEN Judged(object, {}) ELSE Judged({}, object)

--------------------------------------------------------------------------------
(* _radius_server_policy.  `servers' is a list of the profile, `addresses' a   *)
(* mapping; the sections of the configuration are keyed by name.               *)
NamesOf(list) == {list[k] : k \in DOMAIN list}

RadiusProfileValid(p, ports) ==
  /\ p.group # None
  /\ p.servers # None
  /\ Cardinality(NamesOf(p.servers)) >= 2
  /\ Cardinality(NamesOf(p.servers)) = Len(p.servers)
  /\ p.addresses # None
  /\ NamesOf(p.servers) \subseteq DOMAIN p.addresses
  /\ \A port \in ports : port \in 1 .. 65535

RadiusServerPolicy(check, p, d) ==
  LET good(s) == /\ s \in DOMAIN d.servers
                 /\ <<p.addresses[s], check.auth, check.acct>> \in d.servers[s].addresses
                 /\ d.servers[s].key
      names   == NamesOf(p.servers)
      grouped == p.group \in DOMAIN d.groups /\ names \subseteq d.groups[p.group]
      group   == {<<"radius_group", p.group>>}
  IN  IF ~ RadiusProfileValid(p, {check.auth, check.acct}) THEN Raised
      ELSE Judged({<<"radius_server", s>> : s \in {s \in names : ~ good(s)}}
                    \cup (IF grouped THEN {} ELSE group),
                  {<<"radius_server", s>> : s \in {s \in names : good(s)}}
                    \cup (IF grouped THEN group ELSE {}))

--------------------------------------------------------------------------------
(* _vty_session_limit_policy.  A block is a range of lines with its            *)
(* session-limit values (None: no whole number).  One limit anywhere makes     *)
(* every block need one; without any, the lines themselves are counted, each   *)
(* once.  A range that ends before it starts fails and is left out.            *)
VtySessionLimitPolicy(maximum, blocks) ==
  LET valid    == {b \in NamesOf(blocks) : b.first <= b.last}
      section(b) == <<"vty_section", b.first, b.last>>
      invalid  == {section(b) : b \in NamesOf(blocks) \ valid}
      overrun(b) == b.limits = {} \/ \E l \in b.limits : l = None \/ l > maximum
      lines    == UNION {b.first .. b.last : b \in valid}
      capacity == {<<"vty_capacity", Cardinality(lines)>>}
  IN  IF maximum = None \/ maximum < 1 THEN Raised
      ELSE IF \E b \in valid : b.limits # {}
      THEN Judged(invalid \cup {section(b) : b \in {b \in valid : overrun(b)}},
                  {section(b) : b \in {b \in valid : ~ overrun(b)}})
      ELSE IF Cardinality(lines) > maximum THEN Judged(invalid \cup capacity, {})
      ELSE Judged(invalid, capacity)

--------------------------------------------------------------------------------
(* _root_guard_neighbor_policy.  A name is a sequence of labels; a neighbour   *)
(* is known by it and by its first label; `token' says that its model contains *)
(* an upstream token.  An interface of the configuration may belong to a port  *)
(* channel.                                                                    *)
Variants(name) == {name, <<name[1]>>}

RootGuardNeighborPolicy(check, upstream, d) ==
  LET names     == UNION {Variants(u) : u \in upstream}
      exempt(n) == Variants(n.id) \cap names # {} \/ (check.tokens /\ n.token)
      switches  == {n \in d.neighbors : n.switch}
      targets   == {n \in switches : ~ exempt(n) /\ n.local # None}
      unresolved == {n \in switches : ~ exempt(n) /\ n.local = None}
      checked(n) == IF n.local \notin DOMAIN d.ports THEN {}
                    ELSE {n.local} \cup ({d.ports[n.local].channel} \cap DOMAIN d.ports)
      guarded(n) == \E p \in checked(n) : d.ports[p].guard
      object(n) == <<"interface", n.local>>
      good      == {object(n) : n \in {n \in switches : exempt(n)}}
                     \cup {object(n) : n \in {n \in targets : guarded(n)}}
      bad       == {n \in targets : ~ guarded(n)}
  IN  IF upstream = {} /\ ~ check.tokens THEN Undecided("Not_Reviewed")
      ELSE IF d.neighbors = {} THEN Undecided("Not_Reviewed")
      ELSE IF bad # {} THEN Judged({object(n) : n \in bad}, good)
      ELSE IF unresolved # {}
      THEN Outcome(FALSE, "Not_Reviewed", {<<"cdp_neighbor", n.id>> : n \in unresolved}, good)
      ELSE Judged({}, good)

--------------------------------------------------------------------------------
(* _persistent_logging_privilege_policy: without persistent logging the        *)
(* control does not pass; the check maps that to its own status.               *)
PersistentLoggingPrivilegePolicy(check, d) ==
  IF d.empty THEN Undecided(check.result.error)
  ELSE IF ~ d.persistent THEN Plainly(FALSE)
  ELSE IF d.privileges # {} /\ d.privileges \subseteq {15} THEN Plainly(TRUE)
  ELSE Outcome(FALSE, "Open", {<<"persistent_logging", "file privilege">>}, {})

--------------------------------------------------------------------------------
(* _acl_permit_source.  A token is a keyword or an IPv4 address; the protocol  *)
(* of an extended statement is passed over.                                    *)
CONSTANTS Addresses, NoWildcard      \* IPv4 addresses; "0.0.0.0" is one of them

AclPermitSource(type, tokens) ==
  LET at == IF type = "extended" THEN 3 ELSE 2
      here == tokens[at]
      token(k) == IF at + k <= Len(tokens) THEN tokens[at + k] ELSE None
  IN  IF tokens = <<>> \/ tokens[1] # "permit" \/ at > Len(tokens) THEN None
      ELSE IF here = "any" THEN <<"any", "any">>
      ELSE IF here = "host" THEN IF token(1) \in Addresses THEN <<token(1), NoWildcard>> ELSE None
      ELSE IF here \notin Addresses THEN None
      ELSE IF token(1) = None THEN <<here, NoWildcard>>
      ELSE IF token(1) \in Addresses THEN <<here, token(1)>>
      ELSE IF token(1) = "wildcard" /\ token(2) = "bits" /\ token(3) # None
      THEN IF token(3) \in Addresses THEN <<here, token(3)>> ELSE None
      ELSE IF type = "extended" THEN None ELSE <<here, NoWildcard>>

(* _management_access_policy.  `networks' are the sources of the profile, or   *)
(* None when one of them is not a network.                                     *)
ManagementAccessPolicy(check, p, d) ==
  LET vty        == {<<"vty_section", v.name>> : v \in d.vty}
      classed    == {<<"vty_section", v.name>> : v \in {v \in d.vty : v.class = p.acl}}
      permits    == {s \in d.acls : /\ s.acl = p.acl /\ s.action = "permit"
                                    /\ s.type \in {"standard", "extended"}}
      source(s)  == AclPermitSource(s.type, s.tokens)
      approved   == {s \in permits : source(s) \in p.networks}
      statement(s) == <<"acl_statement", s.sequence>>
      configured == {source(s) : s \in approved}
  IN  IF p.acl = None \/ p.networks = None \/ p.networks = {} THEN Raised
      ELSE IF vty = {} THEN Undecided(check.result.error)
      ELSE IF permits = {} THEN Judged((vty \ classed) \cup {<<"management_acl", p.acl>>}, classed)
      ELSE Judged((vty \ classed) \cup {statement(s) : s \in permits \ approved}
                    \cup {<<"management_network", n>> : n \in p.networks \ configured},
                  classed \cup {statement(s) : s \in approved})

--------------------------------------------------------------------------------
(* _ntp_authentication_policy.  The commands of the configuration are          *)
(* sequences: a key defined twice has its last algorithm, a server configured  *)
(* on several lines is judged by the first key any of them names.              *)
NtpAlgorithm(keys, id) ==
  LET defined == {k \in DOMAIN keys : keys[k].id = id}
  IN  IF defined = {} THEN None ELSE keys[CHOOSE k \in defined : \A j \in defined : j <= k].algorithm

NtpTrusted(ranges) == UNION {r.first .. r.last : r \in ranges}

NtpServerFails(check, server, d) ==
  LET keyed == {k \in DOMAIN d.servers : d.servers[k].name = server /\ d.servers[k].key # None}
      key   == d.servers[CHOOSE k \in keyed : \A j \in keyed : k <= j].key
  IN  \/ keyed = {}
      \/ NtpAlgorithm(d.keys, key) \notin check.approved
      \/ key \notin NtpTrusted(d.trusted)

NtpAuthenticationPolicy(check, servers, d) ==
  LET failing == {s \in NamesOf(servers) : NtpServerFails(check, s, d)}
      global  == {<<"ntp_global", "ntp authenticate">>}
  IN  IF servers = None \/ check.approved = {} THEN Raised
      ELSE IF Cardinality(NamesOf(servers)) < check.minimum THEN Raised
      ELSE Judged({<<"ntp_server", s>> : s \in failing} \cup (IF d.authenticate THEN {} ELSE global),
                  {<<"ntp_server", s>> : s \in NamesOf(servers) \ failing}
                    \cup (IF d.authenticate THEN global ELSE {}))
================================================================================
