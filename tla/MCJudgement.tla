------------------------------- MODULE MCJudgement -------------------------------
(* Judgement on many small inputs.                                             *)
EXTENDS Judgement, TLC

LowerCase(word)  == CASE word = "SHOW" -> "show" [] word = "Version" -> "version" [] OTHER -> word
ApprovedCommands == {<<"page">>, <<"show", "_", "version">>, <<"show", "_", "|", "_", "inc">>}
Page             == <<"page">>

--------------------------------------------------------------------------------
(* Cases of the check engine.  The mapping of the check and the exception      *)
(* rules are varied in Generic, the evaluators in one set each.                *)
Mapping == [pass |-> "NotAFinding", fail |-> "Open", error |-> "Error"]
Lenient == [pass |-> "NotAFinding", fail |-> "Not_Applicable", error |-> "Not_Reviewed"]

Check(type)  == [type |-> type, vuln |-> "V1", commands |-> {"run"}, result |-> Mapping]
Device       == [name |-> "d1", collected |-> {"run"}]
Case(check, profile, device) ==
  [kind |-> "check", check |-> check, profile |-> profile, device |-> device, rules |-> <<>>]

Rule(device, vuln, type, name, force) ==
  [device |-> device, vuln |-> vuln, type |-> type, name |-> name, force |-> force]
Rules == {Rule(dv, v, o[1], o[2], f) : dv \in {"*", "d1", "d2"}, v \in {"V1", "V2"},
            o \in {<<"*", "*">>, <<"interface", "i1">>, <<"interface", "*">>, <<"*", "i2">>},
            f \in {"NotAFinding", "Skipped"}}

View(name, physical, config, status) ==
  [name |-> name, physical |-> physical, config |-> config, status |-> status]
Config(shutdown, mode, vlan, lines) ==
  [shutdown |-> shutdown, mode |-> mode, vlan |-> vlan, lines |-> lines, groups |-> {}]
Status(state, vlan, media) == [state |-> state, vlan |-> vlan, media |-> media]
AnyRule == [physical |-> FALSE, down |-> FALSE, match |-> <<>>]

PortConfigs == {None} \cup {Config(s, m, v, {}) : s \in BOOLEAN, m \in {None, "access", "trunk"}, v \in {None, 1, 9}}
PortStates  == {None} \cup {Status(s, v, "copper") : s \in {"connected", "notconnect"}, v \in {None, 1, 9}}
DisabledPorts ==
  [Check("interface_policy") EXCEPT !.result = Mapping] @@
    [scope |-> {[physical |-> TRUE, down |-> TRUE, match |-> <<>>]},
     all |-> {[field |-> "shutdown", op |-> "equals", value |-> TRUE],
              [field |-> "access_vlan", op |-> "equals_profile_value", value |-> "unused_vlan"]}]
InterfacePolicyCases ==
  {Case(DisabledPorts, [unused_vlan |-> 9], Device @@ [interfaces |-> {View("i1", p, c, s)}]) :
     p \in BOOLEAN, c \in PortConfigs, s \in PortStates}

(* Results with one failed and one passed interface, under one or two rules,   *)
(* and with every way not to be evaluated.                                     *)
GenericCases ==
  LET two  == Device @@ [interfaces |-> {View("i1", TRUE, Config(FALSE, None, 1, {}), Status("notconnect", 1, "copper")),
                                         View("i2", TRUE, Config(TRUE, None, 9, {}), Status("notconnect", 9, "copper"))}]
      bare == [DisabledPorts EXCEPT !.scope = {}]
      asked(r) == {[Case(ck, [unused_vlan |-> 9], dv) EXCEPT !.rules = r] :
                     ck \in {DisabledPorts, bare, [DisabledPorts EXCEPT !.type = "unheard_of"],
                             [DisabledPorts EXCEPT !.result = Lenient]},
                     dv \in {two, [two EXCEPT !.collected = {}]}}
  IN  UNION {asked(r) : r \in {<<>>} \cup {<<a>> : a \in Rules} \cup {<<a, b>> : a \in {a \in Rules : a.device = "*"}, b \in {b \in Rules : b.device = "d1"}}}

Pat(c, p) == [command |-> c, pattern |-> p, blank |-> FALSE]
PatternCases ==
  LET P == {Pat("run", "a"), Pat("clock", "b")}
      keys == {[key |-> "list", command |-> "run"]}
      check(all, any, none, pall, pany, pnone) ==
        Check("command_pattern_policy") @@ [all |-> all, any |-> any, none |-> none,
                    profileAll |-> pall, profileAny |-> pany, profileNone |-> pnone]
  IN  {Case(check(a, y, n, pa, py, pn), pr, Device @@ [outputs |-> o]) :
         a \in SUBSET {Pat("run", "a")}, y \in SUBSET P, n \in {{}, {Pat("run", "b")}, {[Pat("run", "b") EXCEPT !.blank = TRUE]}},
         pa \in {{}, keys}, py \in {{}, keys}, pn \in {{}, keys},
         pr \in {<<>>, [list |-> {}], [list |-> {"a", "c"}]},
         o \in {[run |-> t] : t \in SUBSET {"a", "b", "c"}} \cup {[run |-> {"a"}, clock |-> {"b"}]}}

TextCases ==
  {Case(Check(t) @@ [command |-> "run", needle |-> n, section |-> s], <<>>,
        Device @@ [outputs |-> [run |-> o], sections |-> [line |-> o]]) :
     t \in {"command_contains", "command_not_contains", "command_regex", "section_contains",
            "section_not_contains", "manual_review"},
     n \in {None, "a"}, s \in {None, "line", "absent"}, o \in SUBSET {"a", "b"}}

InterfaceConfigCases ==
  LET check(g, r, a, f, e, ff, rc) ==
        Check("interface_config_policy") @@ [global |-> g, required |-> r, alternatives |-> a, forbidden |-> f,
          exempt |-> e, forbiddenFields |-> ff, requireCandidates |-> rc,
          scope |-> {[physical |-> FALSE, down |-> FALSE,
                      match |-> [switchport_mode |-> [values |-> {"access"}, positive |-> TRUE]]]}]
      fields == {[field |-> "access_vlan", expected |-> [values |-> {9}, positive |-> TRUE]]}
      port(n, m, l, v) == View(n, TRUE, Config(FALSE, m, v, l), None)
  IN  {Case(check(g, r, a, f, e, ff, rc), <<>>,
            Device @@ [running |-> ru, interfaces |-> {port("i1", m, l, v), port("i2", "access", {"x"}, 1)}]) :
         g \in SUBSET {"aaa"}, r \in SUBSET {"x"}, a \in {{}, {{"x", "y"}}}, f \in SUBSET {"z"}, e \in SUBSET {"e"},
         ff \in {{}, fields}, rc \in BOOLEAN, ru \in {{"aaa"}, {"b"}}, m \in {"access", "trunk"},
         l \in SUBSET {"x", "y", "z", "e"}, v \in {1, 9}}
        \cup
      {Case(check({}, r, {}, {}, e, {}, rc), <<>>, Device @@ [running |-> {}, interfaces |-> is]) :
         r \in SUBSET {"x"}, e \in SUBSET {"e"}, rc \in BOOLEAN,
         is \in {{}, {port("i1", "trunk", {}, 1)}, {View("i1", TRUE, None, Status("connected", 1, "sfp"))}}}

TrunkCases ==
  {Case(Check("trunk_vlan_policy") @@
          [all |-> {[field |-> "allowed", op |-> "excludes_profile_list", value |-> "pruned"],
                    [field |-> "allowed", op |-> "excludes", value |-> 1]}],
        p, Device @@ [trunks |-> {[name |-> "t" , fields |-> [allowed |-> v]] : v \in vs}]) :
     p \in {<<>>, [pruned |-> {2}]}, vs \in SUBSET ({None} \cup SUBSET {1, 2, 3})}

AclCases ==
  LET acl(n, y, a, l) == [acl |-> n, type |-> y, action |-> a, logged |-> l]
      bound(gs) == View("i1", TRUE, [Config(FALSE, None, 1, {}) EXCEPT !.groups = gs], None)
  IN  {Case(Check("acl_deny_logging_policy") @@ [types |-> ty, boundOnly |-> b], <<>>,
            Device @@ [acls |-> as, interfaces |-> {bound(gs), View("i2", TRUE, None, None)}]) :
         ty \in {{"extended"}, {"standard", "extended"}}, b \in BOOLEAN, gs \in SUBSET {"A", "B"},
         as \in SUBSET {acl("A", "extended", "deny", FALSE), acl("A", "extended", "deny", TRUE),
                        acl("B", "standard", "deny", FALSE), acl("B", "extended", "permit", FALSE)}}

VlanCases ==
  {Case(Check("dhcp_snooping_policy") @@
          [all |-> {[field |-> "global_enabled", op |-> "equals", value |-> TRUE],
                    [field |-> "snooping_vlans", op |-> "includes_profile_list", value |-> "dhcp_snooping.vlans"]}],
        p, Device @@ [dhcp |-> [enabled |-> e, vlans |-> v]]) :
     p \in {<<>>, "dhcp_snooping.vlans" :> {1, 2}}, e \in BOOLEAN, v \in SUBSET (1 .. 3)}
    \cup
  {Case(Check("arp_inspection_policy") @@ [all |-> all], p, Device @@ [arp |-> v]) :
     p \in {<<>>, "arp_inspection.vlans" :> {1, 2}}, v \in SUBSET (1 .. 3),
     all \in {{}, {[field |-> "vlans", op |-> "includes", value |-> 3]},
              {[field |-> "inspection_vlans", op |-> "not_equals", value |-> {}]}}}

BannerLines == [header : BOOLEAN, ends : BOOLEAN, clauses : SUBSET Clauses]
BannerCases ==
  {Case(Check("dod_banner_policy"), <<>>, Device @@ [config |-> c]) :
     c \in UNION {[1 .. n -> BannerLines] : n \in 0 .. 3}}

RadiusCases ==
  LET profile(g, s, a) == [group |-> g, servers |-> s, addresses |-> a]
      section(k, as) == [key |-> k, addresses |-> as]
      both == ("s1" :> "a1") @@ ("s2" :> "a2")
  IN  {Case(Check("radius_server_policy") @@ [auth |-> pt, acct |-> 1813], profile(g, s, a), Device @@ [servers |-> d, groups |-> gs]) :
         pt \in {0, 1812, 65536}, g \in {None, "G"}, s \in {None, <<>>, <<"s1">>, <<"s1", "s1">>, <<"s1", "s2">>, <<"s1", "s2", "s1">>},
         a \in {None, "s1" :> "a1", both},
         d \in {<<>>} \cup [{"s1", "s2"} -> {section(TRUE, {<<"a1", 1812, 1813>>, <<"a2", 1812, 1813>>}),
                                             section(FALSE, {<<"a1", 1812, 1813>>}), section(TRUE, {<<"a1", 1645, 1646>>})}],
         gs \in {<<>>, "G" :> {"s1"}, "G" :> {"s1", "s2", "s3"}}}

VtyCases ==
  LET block(f, l, ls) == [first |-> f, last |-> l, limits |-> ls]
      blocks == {block(f, l, ls) : f \in {0, 2}, l \in {1, 3}, ls \in {{}, {1}, {2, 3}, {None}}}
  IN  {Case(Check("vty_session_limit_policy"), [maximum |-> m], Device @@ [blocks |-> b]) :
         m \in {None, 0, 2, 4}, b \in UNION {[1 .. n -> blocks] : n \in 0 .. 2}}

RootGuardCases ==
  LET neighbor(id, sw, tok, loc) == [id |-> id, switch |-> sw, token |-> tok, local |-> loc]
      N == {neighbor(<<"core", "net">>, TRUE, FALSE, "g1"), neighbor(<<"acc">>, TRUE, FALSE, "g1"),
            neighbor(<<"acc", "net">>, TRUE, FALSE, None), neighbor(<<"dist">>, TRUE, TRUE, "g2"),
            neighbor(<<"phone">>, FALSE, FALSE, "g3")}
      port(g, c) == [guard |-> g, channel |-> c]
  IN  {Case(Check("root_guard_neighbor_policy") @@ [tokens |-> t], [upstream |-> u], Device @@ [neighbors |-> n, ports |-> p]) :
         t \in BOOLEAN, u \in {{}, {<<"core">>}, {<<"core", "lab">>, <<"dist">>}}, n \in SUBSET N,
         p \in {<<>>, "g1" :> port(TRUE, None), "g1" :> port(FALSE, "p1"),
                ("g1" :> port(FALSE, "p1")) @@ ("g2" :> port(TRUE, None)) @@ ("p1" :> port(TRUE, None))}}

PrivilegeCases ==
  {Case([Check("persistent_logging_privilege_policy") EXCEPT !.result = r], <<>>,
        Device @@ [empty |-> e, persistent |-> p, privileges |-> v]) :
     r \in {Mapping, Lenient}, e \in BOOLEAN, p \in BOOLEAN, v \in SUBSET {1, 15}}

Tokens == {"permit", "ip", "host", "any", "wildcard", "bits", "n1", "w1", "log"}
PermitForms == {<<"permit">> \o t : t \in UNION {[1 .. n -> Tokens \ {"permit"}] : n \in 0 .. 3}}
                 \cup {<<"permit", "ip", "n1", "wildcard", "bits", x>> : x \in Tokens}
                 \cup {<<"permit", "n1", "wildcard", "bits", x>> : x \in Tokens}
                 \cup {<<>>, <<"log">>}
ManagementCases ==
  LET stmt(a, y, ac, n, t) == [acl |-> a, type |-> y, action |-> ac, sequence |-> n, tokens |-> t]
      profile(a, ns) == [acl |-> a, networks |-> ns]
      net == <<"n1", "w1">>
      host == <<"h1", NoWildcard>>
      good == stmt("M", "standard", "permit", 10, <<"permit", "n1", "w1">>)
      vty(n, c) == [name |-> n, class |-> c]
  IN  {Case(Check("management_access_policy"), profile("M", {net}), Device @@ [vty |-> {vty(0, "M")}, acls |-> {stmt("M", y, "permit", 10, t)}]) :
         y \in {"standard", "extended"}, t \in PermitForms}
        \cup
      {Case(Check("management_access_policy"), p, Device @@ [vty |-> v, acls |-> a]) :
         p \in {profile(None, {net}), profile("M", None), profile("M", {}), profile("M", {net}), profile("M", {net, host})},
         v \in {w \in SUBSET {vty(0, "M"), vty(5, "X"), vty(5, None)} : Cardinality({x.name : x \in w}) = Cardinality(w)},
         a \in SUBSET {good, stmt("M", "extended", "permit", 20, <<"permit", "ip", "host", "h1", "any">>),
                       stmt("M", "standard", "permit", 30, <<"permit", "any">>), stmt("M", "standard", "deny", 40, <<"deny", "any">>),
                       stmt("X", "standard", "permit", 50, <<"permit", "any">>), stmt("M", "ipv6", "permit", 60, <<"permit", "any">>)}}

NtpCases ==
  LET key(i, a) == [id |-> i, algorithm |-> a]
      line(n, k) == [name |-> n, key |-> k]
      lines == {<<>>, <<line("s1", 1), line("s2", 2)>>, <<line("s1", None), line("s1", 2), line("s2", 1)>>,
                <<line("s1", 1), line("s1", 2), line("s2", 3)>>, <<line("s1", None), line("s2", None)>>}
  IN  {Case(Check("ntp_authentication_policy") @@ [approved |-> ap, minimum |-> 2], [servers |-> s],
            Device @@ [authenticate |-> au, keys |-> ks, trusted |-> tr, servers |-> l]) :
         ap \in {{}, {"sha2"}}, s \in {None, <<"s1">>, <<"s1", "s1">>, <<"s1", "s2">>}, au \in BOOLEAN,
         ks \in UNION {[1 .. n -> {key(1, "sha2"), key(2, "sha2"), key(1, "md5")}] : n \in 0 .. 3},
         tr \in {{}, {[first |-> 1, last |-> 1]}, {[first |-> 1, last |-> 3]}, {[first |-> 3, last |-> 1]}}, l \in lines}

--------------------------------------------------------------------------------
(* Two releases and a library of at most two checks.  The first rule of the    *)
(* earlier release keeps, changes, swaps or loses its identifiers and texts.   *)
ReleaseRule(vuln, rule, stig, title, texts) ==
  [vuln |-> vuln, rule |-> rule, stig |-> stig, title |-> title,
   check |-> texts[1], fix |-> texts[2], meta |-> "cat2"]
LibraryCheck(vuln, rule, stig, automated) ==
  [vuln |-> vuln, rule |-> rule, stig |-> stig, automated |-> automated]

ReleaseCases ==
  LET A == ReleaseRule("v1", "r1", "s1", "t1", <<"a", "x">>)
      B == ReleaseRule("v2", "r2", "s2", "t2", <<"b", "x">>)
      earlier == {<<A>>, <<A, B>>, <<A, [B EXCEPT !.vuln = "v1"]>>, <<A, [B EXCEPT !.stig = "s1"]>>,
                  <<[A EXCEPT !.vuln = None], [B EXCEPT !.rule = "r1"]>>, <<B, A>>, <<>>}
      later == {ReleaseRule(v, r, s, t, x) : v \in {"v1", "v2", None}, r \in {"r1", "r3"}, s \in {"s1", "s2", None},
                  t \in {"t1", "t3"}, x \in {<<"a", "x">>, <<"c", "x">>, <<"a", "y">>, <<"c", "y">>}}
      checks == {<<>>, <<LibraryCheck("v1", None, None, TRUE)>>, <<LibraryCheck("v1", None, "s1", FALSE)>>,
                 <<LibraryCheck("v1", "r1", None, TRUE), LibraryCheck("v2", None, "s1", TRUE)>>,
                 <<LibraryCheck("v3", None, "s2", TRUE), LibraryCheck("v3", "r3", None, FALSE)>>}
  IN  [kind : {"releases"}, old : earlier, checks : checks,
       new : {<<>>} \cup {<<n>> : n \in later}
               \cup {<<n, m>> : n \in {n \in later : n.title = "t1"}, m \in {B, [B EXCEPT !.vuln = "v1"], [B EXCEPT !.check = "a"]}}]

(* Two runs over a device with two vulnerabilities, results repeated or gone. *)
RunCases ==
  LET result(v, s) == [ip |-> "d1", vuln |-> v, status |-> s]
      runs == {<<>>} \cup {<<result("v1", s)>> : s \in Statuses}
                \cup {<<result("v1", s), result(v, "Open")>> : s \in Statuses, v \in {"v1", "v2"}}
      prints == {<<>>, "v1" :> "p", ("v1" :> "q") @@ ("v2" :> "p")}
  IN  [kind : {"runs"}, previous : runs, current : runs, oldPrints : prints, newPrints : prints]

(* A run over two devices with checklists: every choice of templates with a    *)
(* result of each kind, and every pair of results with few templates.          *)
ChecklistCases ==
  LET entry(v, notes) == [vuln |-> v, status |-> "Not_Reviewed", comments |-> notes]
      A == entry("v1", <<"note">>)   B == entry("v2", <<>>)
      result(ip, v, f, s) == [ip |-> ip, vuln |-> v, family |-> f, status |-> s]
      firsts  == {result("1::2:3", v[1], v[2], s) : s \in Statuses,
                    v \in {<<"v1", "IOSXE_L2">>, <<"v1", "IOSXE_NDM">>, <<"local", "IOSXE_L2">>}}
      seconds(other) == {result(ip, v[1], v[2], s) : ip \in {"1::2:3", other}, s \in {"Open", "NotAFinding", "Error"},
                    v \in {<<"v1", "IOSXE_L2">>, <<"v2", "IOSXE_NDM">>, <<"v2", "IOSXE_L2">>}}
      path(c, l, n) == [COMBINED |-> c, IOSXE_L2 |-> l, IOSXE_NDM |-> n]
      asked(sel, paths, r, append, targets, assets) ==
        [kind |-> "checklist", selected |-> sel, paths |-> paths, results |-> r, append |-> append, targets |-> targets,
         assets |-> assets, ids |-> [f \in {"IOSXE_L2", "IOSXE_NDM"} |->
                     {IF f = "IOSXE_L2" THEN "v1" ELSE "v2"} \cup {r[k].vuln : k \in {k \in DOMAIN r : r[k].family = f}}]]
      host(other) == [ip \in {"1::2:3", other} |-> "unknown"]
      one  == [ip \in {"1::2:3"} |-> "sw"]
  IN  {asked(sel, path(c, l, n), r, TRUE, <<"1::2:3">>, as) :
         sel \in SUBSET {"IOSXE_L2", "IOSXE_NDM"}, c \in {None, <<A>>, <<A, B>>, <<entry(None, <<>>)>>},
         l \in {None, <<A>>, <<B>>}, n \in {None, <<B>>, <<A>>},
         r \in {<<result("1::2:3", "v1", "IOSXE_L2", "Error"), result("1::2:3", "v2", "IOSXE_NDM", "Open")>>},
         as \in {<<>>, one}}
        \cup
      UNION {{asked({"IOSXE_L2", "IOSXE_NDM"}, p, <<a, b>>, append, <<"1::2:3", other>>, host(other)) :
         p \in {path(None, <<A>>, <<B, entry("v3", <<"note">>)>>), path(<<B, A>>, None, None)},
         a \in firsts, b \in seconds(other), append \in BOOLEAN} : other \in {"1:2::3", "10.0.0.1"}}

(* Libraries whose commands are spelled in every way. *)
Spellings == {<<"show", "_", "version">>, <<"_", "SHOW", "_", "_", "Version">>, <<"page">>, <<"_">>,
              <<"show", "_", "version", ";", "page">>, <<"show", "_", "version", "eol">>,
              <<"show", "_", "|", "_", "inc">>, <<"show", "_", "|", "inc">>, <<"write">>}
PlannedCheck(vuln, commands, nested) ==
  [vuln |-> vuln, automated |-> TRUE, manual |-> FALSE, commands |-> commands, nested |-> nested,
   names |-> {}, review |-> None, status |-> None, reviewed |-> TRUE]
PlanCases ==
  LET lists == {<<>>} \cup {<<a>> : a \in Spellings} \cup {<<a, b>> : a, b \in Spellings}
  IN  [kind : {"plan"},
       checks : {<<PlannedCheck("v1", l, n)>> : l \in lists, n \in {{}} \cup {{a} : a \in Spellings}}
                  \cup {<<PlannedCheck("v1", l, {}), PlannedCheck(v, <<a>>, {})>> :
                           l \in lists, v \in {"v1", "v2"}, a \in Spellings}]

ReadinessCases ==
  LET target(k, v) == [key |-> k, valid |-> v]
      bare == PlannedCheck("v1", <<<<"page">>>>, {})
      folder(w, p) == [writable |-> w, probe |-> p, low |-> w]
      store(d, e, r) == [database |-> d, evidence |-> e, reports |-> r]
      asked(ts, fs, cs, p, st) == [kind |-> "audit", targets |-> ts, families |-> fs, checks |-> cs, profile |-> p, store |-> st]
      targets == {<<>>, <<target("a", TRUE)>>, <<target("a", TRUE), target("a", TRUE)>>,
                  <<target("a", TRUE), target("b", FALSE)>>, <<target("a", TRUE), target("b", TRUE)>>}
      libraries == {<<>>, <<bare>>, <<[bare EXCEPT !.names = {<<"acl">>, <<"ntp", "key">>}]>>,
                    <<bare, [bare EXCEPT !.commands = <<<<"write">>>>]>>,
                    <<[bare EXCEPT !.manual = TRUE, !.review = "STALE"]>>, <<[bare EXCEPT !.reviewed = FALSE]>>}
      profiles == {None, Invalid, <<"acl">> :> "M", (<<"variables", "acl">> :> "M") @@ (<<"ntp", "key">> :> None),
                   (<<"variables", "acl">> :> "M") @@ (<<"ntp", "key">> :> 1)}
      ok == store("up", None, None)
  IN  {asked(ts, fs, cs, p, ok) : ts \in targets, fs \in {{}, {"L2"}}, cs \in libraries, p \in profiles}
        \cup {asked(<<target("a", TRUE)>>, {"L2"}, <<bare>>, p, store(d, e, r)) :
                p \in profiles, d \in {None, "up", "down"},
                e \in {None} \cup {folder(w, b) : w, b \in BOOLEAN}, r \in {None} \cup {folder(w, b) : w, b \in BOOLEAN}}

--------------------------------------------------------------------------------
CheckCase ==
  \/ case \in InterfacePolicyCases  \/ case \in GenericCases         \/ case \in PatternCases
  \/ case \in TextCases             \/ case \in InterfaceConfigCases \/ case \in TrunkCases
  \/ case \in AclCases              \/ case \in VlanCases            \/ case \in BannerCases
  \/ case \in RadiusCases           \/ case \in VtyCases             \/ case \in RootGuardCases
  \/ case \in PrivilegeCases        \/ case \in ManagementCases      \/ case \in NtpCases

CaseInit ==
  /\ \/ CheckCase
     \/ case \in ReleaseCases
     \/ case \in RunCases
     \/ case \in PlanCases
     \/ case \in ReadinessCases
     \/ case \in ChecklistCases
  /\ JudgeInit
================================================================================
