------------------------------ MODULE ReviewProofs ------------------------------
(* Theorems about the decisions of the program that are reviewed or acted on   *)
(* by a person: the comparison of two STIG releases, the plan of a session,    *)
(* the readiness of an audit and the completed checklists (Judgement), for     *)
(* releases, libraries, templates and runs of any size, any registry of        *)
(* approved commands and any way to fold the case of a name.                   *)
EXTENDS DecisionProofs

--------------------------------------------------------------------------------
(* RELEASES.  A round pairs what is left on each side, and goes over it from   *)
(* either side in the same way.                                                *)
LeftOld(old, m, f, v) == Releases!With(old, f, v) \ {p.old : p \in m.pairs}
LeftNew(new, m, f, v) == Releases!With(new, f, v) \ {p.new : p \in m.pairs}
SharedValues(old, new, m, f) ==
  {v \in ({old[i][f] : i \in DOMAIN old} \ {None}) : LeftOld(old, m, f, v) # {} /\ LeftNew(new, m, f, v) # {}}
SingleValues(old, new, m, f) ==
  {v \in SharedValues(old, new, m, f) : Cardinality(LeftOld(old, m, f, v)) = 1 /\ Cardinality(LeftNew(new, m, f, v)) = 1}
NotedValues(old, new, m, f) == SharedValues(old, new, m, f) \ SingleValues(old, new, m, f)

LEMMA ReleaseCount ==
  ASSUME NEW S
  PROVE  Releases!Cardinality(S) = Cardinality(S)
BY DEF Releases!Cardinality, Cardinality

\* What one round adds: the pairs of single rules, and notes on the others.
LEMMA RoundParts ==
  ASSUME NEW old, NEW new, NEW m, NEW f
  PROVE  LET r == Releases!MatchRound(old, new, m, f)
         IN  /\ r.pairs = m.pairs \cup UNION {[old : LeftOld(old, m, f, v), new : LeftNew(new, m, f, v)] :
                                                v \in SingleValues(old, new, m, f)}
             /\ r.oldNoted = m.oldNoted \cup UNION {LeftOld(old, m, f, v) : v \in NotedValues(old, new, m, f)}
             /\ r.newNoted = m.newNoted \cup UNION {LeftNew(new, m, f, v) : v \in NotedValues(old, new, m, f)}
<1> DEFINE o(v) == Releases!With(old, f, v) \ {p.old : p \in m.pairs}
           n(v) == Releases!With(new, f, v) \ {p.new : p \in m.pairs}
           shared == {v \in ({old[i][f] : i \in DOMAIN old} \ {None}) : o(v) # {} /\ n(v) # {}}
           single == {v \in shared : Releases!Cardinality(o(v)) = 1 /\ Releases!Cardinality(n(v)) = 1}
           r == Releases!MatchRound(old, new, m, f)
<1>1. r = [pairs |-> m.pairs \cup UNION {[old : o(v), new : n(v)] : v \in single},
           oldNoted |-> m.oldNoted \cup UNION {o(v) : v \in shared \ single},
           newNoted |-> m.newNoted \cup UNION {n(v) : v \in shared \ single}]
  BY Zenon DEF Releases!MatchRound
<1>2. \A v : o(v) = LeftOld(old, m, f, v) /\ n(v) = LeftNew(new, m, f, v)
  BY DEF LeftOld, LeftNew
<1> HIDE DEF o, n, r
<1>3. shared = SharedValues(old, new, m, f)
  BY <1>2 DEF SharedValues
<1> HIDE DEF shared
<1>4. single = SingleValues(old, new, m, f)
  BY <1>2, <1>3, ReleaseCount DEF SingleValues
<1> HIDE DEF single
<1>5. shared \ single = NotedValues(old, new, m, f)
  BY <1>3, <1>4 DEF NotedValues
<1>6. UNION {[old : o(v), new : n(v)] : v \in single}
        = UNION {[old : LeftOld(old, m, f, v), new : LeftNew(new, m, f, v)] : v \in SingleValues(old, new, m, f)}
  BY <1>2, <1>4, Zenon
<1>7. /\ UNION {o(v) : v \in shared \ single} = UNION {LeftOld(old, m, f, v) : v \in NotedValues(old, new, m, f)}
      /\ UNION {n(v) : v \in shared \ single} = UNION {LeftNew(new, m, f, v) : v \in NotedValues(old, new, m, f)}
  BY <1>2, <1>5, Zenon
<1>8. QED
  BY <1>1, <1>6, <1>7 DEF r

(* Pairs that take each rule once, and what a pair has in common.              *)
Pair(i, j) == [old |-> i, new |-> j]
IsMatching(old, new, pairs) ==
  /\ \A p \in pairs : p = Pair(p.old, p.new) /\ p.old \in DOMAIN old /\ p.new \in DOMAIN new
  /\ \A p, q \in pairs : p.old = q.old <=> p.new = q.new
Shares(old, new, p, f) == old[p.old][f] # None /\ old[p.old][f] = new[p.new][f]

\* A round keeps the pairs a matching; each new pair shares its value.
LEMMA RoundIsMatching ==
  ASSUME NEW old, NEW new, IsList(old), IsList(new), NEW m, NEW f, IsMatching(old, new, m.pairs)
  PROVE  LET r == Releases!MatchRound(old, new, m, f)
         IN  /\ IsMatching(old, new, r.pairs)
             /\ \A p \in r.pairs : p \in m.pairs \/ Shares(old, new, p, f)
<1> DEFINE r == Releases!MatchRound(old, new, m, f)
           o(v) == LeftOld(old, m, f, v)
           n(v) == LeftNew(new, m, f, v)
           single == SingleValues(old, new, m, f)
<1>1. /\ \A v, i : i \in o(v) <=> i \in DOMAIN old /\ old[i][f] = v /\ \A p \in m.pairs : p.old # i
      /\ \A v, j : j \in n(v) <=> j \in DOMAIN new /\ new[j][f] = v /\ \A p \in m.pairs : p.new # j
  BY DEF LeftOld, LeftNew, Releases!With
<1>2. \A v : IsFiniteSet(o(v)) /\ IsFiniteSet(n(v))
  <2>1. IsFiniteSet(DOMAIN old) /\ IsFiniteSet(DOMAIN new)
    BY FS_Interval DEF IsList
  <2>2. \A v : o(v) \subseteq DOMAIN old /\ n(v) \subseteq DOMAIN new
    BY <1>1
  <2>3. QED
    BY <2>1, <2>2, FS_Subset
<1>3. \A v \in single : v # None /\ (\E i : o(v) = {i}) /\ \E j : n(v) = {j}
  BY <1>2, FS_Singleton DEF SingleValues, SharedValues
<1>4. \A p : p \in r.pairs <=> p \in m.pairs \/ \E v \in single : p \in [old : o(v), new : n(v)]
  <2> DEFINE box(v) == [old : o(v), new : n(v)]
  <2>1. r.pairs = m.pairs \cup UNION {box(v) : v \in single}
    BY RoundParts
  <2> HIDE DEF box, r, single
  <2>2. \A p : p \in r.pairs <=> p \in m.pairs \/ \E v \in single : p \in box(v)
    BY <2>1
  <2>3. QED
    BY <2>2 DEF box
<1> HIDE DEF o, n, single, r
<1>5. \A p \in r.pairs : \/ p \in m.pairs
                         \/ \E v \in single : p = Pair(p.old, p.new) /\ o(v) = {p.old} /\ n(v) = {p.new}
  BY <1>3, <1>4 DEF Pair
<1>6. \A p \in r.pairs : p = Pair(p.old, p.new) /\ p.old \in DOMAIN old /\ p.new \in DOMAIN new
  BY <1>1, <1>5 DEF IsMatching
<1>7. \A p \in r.pairs : p \in m.pairs \/ Shares(old, new, p, f)
  BY <1>1, <1>3, <1>5 DEF Shares
<1>8. ASSUME NEW p \in r.pairs, NEW q \in r.pairs
      PROVE  p.old = q.old <=> p.new = q.new
  <2>1. CASE p \in m.pairs /\ q \in m.pairs
    BY <2>1 DEF IsMatching
  <2>2. CASE p \in m.pairs /\ q \notin m.pairs
    BY <2>2, <1>1, <1>5
  <2>3. CASE p \notin m.pairs /\ q \in m.pairs
    BY <2>3, <1>1, <1>5
  <2>4. CASE p \notin m.pairs /\ q \notin m.pairs
    <3>1. PICK v \in single : o(v) = {p.old} /\ n(v) = {p.new}
      BY <2>4, <1>5
    <3>2. PICK w \in single : o(w) = {q.old} /\ n(w) = {q.new}
      BY <2>4, <1>5
    <3>3. (p.old = q.old => v = w) /\ (p.new = q.new => v = w)
      BY <3>1, <3>2, <1>1
    <3>4. QED
      BY <3>1, <3>2, <3>3
  <2>5. QED
    BY <2>1, <2>2, <2>3, <2>4
<1>9. QED
  BY <1>6, <1>7, <1>8 DEF IsMatching, r
(* The mirror image of a matching.                                             *)
Mirrored(old, new, m, w) ==
  /\ IsMatching(old, new, m.pairs) /\ IsMatching(new, old, w.pairs)
  /\ \A i, j : Pair(i, j) \in m.pairs <=> Pair(j, i) \in w.pairs
  /\ m.oldNoted = w.newNoted /\ m.newNoted = w.oldNoted

\* A round started from mirrored matchings ends in mirrored ones.
LEMMA RoundIsMirrored ==
  ASSUME NEW old, NEW new, IsList(old), IsList(new), NEW m, NEW w, NEW f, Mirrored(old, new, m, w)
  PROVE  Mirrored(old, new, Releases!MatchRound(old, new, m, f), Releases!MatchRound(new, old, w, f))
<1> DEFINE r == Releases!MatchRound(old, new, m, f)
           s == Releases!MatchRound(new, old, w, f)
           box(v)  == [old : LeftOld(old, m, f, v), new : LeftNew(new, m, f, v)]
           boxW(v) == [old : LeftOld(new, w, f, v), new : LeftNew(old, w, f, v)]
           single == SingleValues(old, new, m, f)
           noted  == NotedValues(old, new, m, f)
<1>1. {p.new : p \in m.pairs} = {p.old : p \in w.pairs} /\ {p.old : p \in m.pairs} = {p.new : p \in w.pairs}
  <2>1. \A p \in m.pairs : p = Pair(p.old, p.new) /\ Pair(p.new, p.old) \in w.pairs
    BY DEF Mirrored, IsMatching
  <2>2. \A p \in w.pairs : p = Pair(p.old, p.new) /\ Pair(p.new, p.old) \in m.pairs
    BY DEF Mirrored, IsMatching
  <2>3. \A i, j : Pair(i, j).old = i /\ Pair(i, j).new = j
    BY DEF Pair
  <2>4. QED
    BY <2>1, <2>2, <2>3
<1>2. \A v : LeftOld(new, w, f, v) = LeftNew(new, m, f, v) /\ LeftNew(old, w, f, v) = LeftOld(old, m, f, v)
  BY <1>1 DEF LeftOld, LeftNew
<1>3. SharedValues(new, old, w, f) = SharedValues(old, new, m, f)
  <2>1. \A v, i : (i \in LeftOld(old, m, f, v) => i \in DOMAIN old /\ old[i][f] = v) /\ (i \in LeftNew(new, m, f, v) => i \in DOMAIN new /\ new[i][f] = v)
    BY DEF LeftOld, LeftNew, Releases!With
  <2>2. QED
    BY <1>2, <2>1 DEF SharedValues
<1>4. SingleValues(new, old, w, f) = single /\ NotedValues(new, old, w, f) = noted
  BY <1>2, <1>3 DEF SingleValues, NotedValues
<1>5. IsMatching(old, new, r.pairs) /\ IsMatching(new, old, s.pairs)
  BY RoundIsMatching DEF Mirrored
<1>6. r.pairs = m.pairs \cup UNION {box(v) : v \in single} /\ s.pairs = w.pairs \cup UNION {boxW(v) : v \in single}
  BY RoundParts, <1>4
<1>7. ASSUME NEW i, NEW j
      PROVE  Pair(i, j) \in r.pairs <=> Pair(j, i) \in s.pairs
  <2>1. \A v \in single : Pair(i, j) \in box(v) <=> Pair(j, i) \in boxW(v)
    BY <1>2 DEF Pair
  <2>2. Pair(i, j) \in m.pairs <=> Pair(j, i) \in w.pairs
    BY DEF Mirrored
  <2> HIDE DEF box, boxW, single, r, s
  <2>3. QED
    BY <1>6, <2>1, <2>2
<1>8. r.oldNoted = s.newNoted /\ r.newNoted = s.oldNoted
  <2>1. /\ r.oldNoted = m.oldNoted \cup UNION {LeftOld(old, m, f, v) : v \in noted}
        /\ r.newNoted = m.newNoted \cup UNION {LeftNew(new, m, f, v) : v \in noted}
        /\ s.oldNoted = w.oldNoted \cup UNION {LeftOld(new, w, f, v) : v \in noted}
        /\ s.newNoted = w.newNoted \cup UNION {LeftNew(old, w, f, v) : v \in noted}
    BY RoundParts, <1>4
  <2>2. /\ UNION {LeftOld(new, w, f, v) : v \in noted} = UNION {LeftNew(new, m, f, v) : v \in noted}
        /\ UNION {LeftNew(old, w, f, v) : v \in noted} = UNION {LeftOld(old, m, f, v) : v \in noted}
    BY <1>2, Zenon
  <2> HIDE DEF noted, r, s
  <2>3. QED
    BY <2>1, <2>2 DEF Mirrored
<1> HIDE DEF r, s
<1>9. QED
  BY <1>5, <1>7, <1>8 DEF Mirrored, r, s

(* The three rounds.                                                           *)
LEMMA RulesAreMatched ==
  ASSUME NEW old, NEW new, IsList(old), IsList(new), NEW a, NEW b, NEW c
  PROVE  LET m == Releases!MatchRules(<<a, b, c>>, old, new)
         IN  /\ IsMatching(old, new, m.pairs)
             /\ \A p \in m.pairs : Shares(old, new, p, a) \/ Shares(old, new, p, b) \/ Shares(old, new, p, c)
             /\ Mirrored(old, new, m, Releases!MatchRules(<<a, b, c>>, new, old))
<1> DEFINE nothing == [pairs |-> {}, oldNoted |-> {}, newNoted |-> {}]
           first  == Releases!MatchRound(old, new, nothing, a)
           second == Releases!MatchRound(old, new, first, b)
           third  == Releases!MatchRound(old, new, second, c)
           firstW  == Releases!MatchRound(new, old, nothing, a)
           secondW == Releases!MatchRound(new, old, firstW, b)
           thirdW  == Releases!MatchRound(new, old, secondW, c)
<1>1. third = Releases!MatchRules(<<a, b, c>>, old, new) /\ thirdW = Releases!MatchRules(<<a, b, c>>, new, old)
  BY DEF Releases!MatchRules
<1>2. nothing.pairs = {} /\ nothing.oldNoted = nothing.newNoted
  OBVIOUS
<1> HIDE DEF nothing
<1>3. Mirrored(old, new, nothing, nothing) /\ IsMatching(old, new, nothing.pairs)
  BY <1>2 DEF Mirrored, IsMatching
<1>4. /\ Mirrored(old, new, first, firstW) /\ IsMatching(old, new, first.pairs)
      /\ \A p \in first.pairs : Shares(old, new, p, a)
  BY <1>2, <1>3, RoundIsMirrored, RoundIsMatching
<1> HIDE DEF first, firstW
<1>5. /\ Mirrored(old, new, second, secondW) /\ IsMatching(old, new, second.pairs)
      /\ \A p \in second.pairs : Shares(old, new, p, a) \/ Shares(old, new, p, b)
  BY <1>4, RoundIsMirrored, RoundIsMatching
<1> HIDE DEF second, secondW
<1>6. /\ Mirrored(old, new, third, thirdW) /\ IsMatching(old, new, third.pairs)
      /\ \A p \in third.pairs : Shares(old, new, p, a) \/ Shares(old, new, p, b) \/ Shares(old, new, p, c)
  BY <1>5, RoundIsMirrored, RoundIsMatching
<1> HIDE DEF third, thirdW
<1>7. QED
  BY <1>1, <1>6
(* The changes: one for each pair, and one for each rule that is left.         *)
ChangeOf(what, i, j, fields, ambiguous) ==
  [change |-> what, old |-> i, new |-> j, fields |-> fields, ambiguous |-> ambiguous]
Matches(old, new) == Releases!MatchRules(<<"vuln", "rule", "stig">>, old, new)
Diffs(old, new, p) == Releases!FieldDiffs(Releases!FingerprintFields, old[p.old], new[p.new])
PairChange(old, new, p) ==
  ChangeOf(IF Diffs(old, new, p) = {} THEN "UNCHANGED" ELSE "CHANGED", p.old, p.new, Diffs(old, new, p), FALSE)
Removal(m, i)  == ChangeOf("REMOVED", i, 0, {}, i \in m.oldNoted)
Addition(m, j) == ChangeOf("ADDED", 0, j, {}, j \in m.newNoted)

\* A change comes of a pair, of a rule removed or of a rule added.
LEMMA ChangesAre ==
  ASSUME NEW old, NEW new
  PROVE  \A c : c \in Releases!Changes(old, new) <=>
           \/ \E p \in Matches(old, new).pairs : c = PairChange(old, new, p)
           \/ \E i \in DOMAIN old : (\A p \in Matches(old, new).pairs : p.old # i) /\ c = Removal(Matches(old, new), i)
           \/ \E j \in DOMAIN new : (\A p \in Matches(old, new).pairs : p.new # j) /\ c = Addition(Matches(old, new), j)
<1> DEFINE m == Releases!MatchRules(Releases!Identifiers, old, new)
           change(what, i, j, fields, ambiguous) ==
             [change |-> what, old |-> i, new |-> j, fields |-> fields, ambiguous |-> ambiguous]
           paired(p) == LET fields == Releases!FieldDiffs(Releases!FingerprintFields, old[p.old], new[p.new])
                        IN  change(IF fields = {} THEN "UNCHANGED" ELSE "CHANGED", p.old, p.new, fields, FALSE)
           kept == {paired(p) : p \in m.pairs}
           gone == {change("REMOVED", i, Releases!Absent, {}, i \in m.oldNoted) : i \in (DOMAIN old) \ {p.old : p \in m.pairs}}
           come == {change("ADDED", Releases!Absent, j, {}, j \in m.newNoted) : j \in (DOMAIN new) \ {p.new : p \in m.pairs}}
<1>1. Releases!Changes(old, new) = kept \cup gone \cup come
  BY Zenon DEF Releases!Changes
<1>2. m = Matches(old, new)
  BY DEF Matches, Releases!Identifiers
<1>3. \A c : c \in kept <=> \E p \in m.pairs : c = PairChange(old, new, p)
  <2>1. \A p : paired(p) = PairChange(old, new, p)
    BY DEF PairChange, ChangeOf, Diffs
  <2> HIDE DEF paired, m
  <2>2. QED
    BY <2>1
<1>4. \A c : c \in gone <=> \E i \in DOMAIN old : (\A p \in m.pairs : p.old # i) /\ c = Removal(m, i)
  <2>1. \A i : change("REMOVED", i, Releases!Absent, {}, i \in m.oldNoted) = Removal(m, i)
    BY Zenon DEF Removal, ChangeOf, Releases!Absent
  <2>2. gone = {Removal(m, i) : i \in (DOMAIN old) \ {p.old : p \in m.pairs}}
    BY <2>1, Zenon
  <2> HIDE DEF gone, m
  <2>3. QED
    BY <2>2
<1>5. \A c : c \in come <=> \E j \in DOMAIN new : (\A p \in m.pairs : p.new # j) /\ c = Addition(m, j)
  <2>1. \A j : change("ADDED", Releases!Absent, j, {}, j \in m.newNoted) = Addition(m, j)
    BY Zenon DEF Addition, ChangeOf, Releases!Absent
  <2>2. come = {Addition(m, j) : j \in (DOMAIN new) \ {p.new : p \in m.pairs}}
    BY <2>1, Zenon
  <2> HIDE DEF come, m
  <2>3. QED
    BY <2>2
<1> HIDE DEF kept, gone, come, m
<1>6. QED
  BY <1>1, <1>2, <1>3, <1>4, <1>5

(* Each change is of its rules, and each rule has one.                         *)
LEMMA RulesHaveOneChange ==
  ASSUME NEW old, NEW new, IsList(old), IsList(new)
  PROVE  LET cs == Releases!Changes(old, new)
         IN  /\ \A c \in cs : /\ c.change \in {"CHANGED", "UNCHANGED", "REMOVED", "ADDED"}
                              /\ c.old \in DOMAIN old \/ (c.old = 0 /\ c.change = "ADDED")
                              /\ c.new \in DOMAIN new \/ (c.new = 0 /\ c.change = "REMOVED")
                              /\ c.change = "ADDED" => c.old = 0
                              /\ c.change = "REMOVED" => c.new = 0
             /\ \A i \in DOMAIN old : \E c \in cs : c.old = i
             /\ \A j \in DOMAIN new : \E c \in cs : c.new = j
             /\ \A c, d \in cs : (c.old \in DOMAIN old /\ c.old = d.old) => c = d
             /\ \A c, d \in cs : (c.new \in DOMAIN new /\ c.new = d.new) => c = d
<1> DEFINE cs == Releases!Changes(old, new)
           m  == Matches(old, new)
<1>1. IsMatching(old, new, m.pairs)
  BY RulesAreMatched DEF Matches
<1>2. 0 \notin DOMAIN old /\ 0 \notin DOMAIN new
  BY DEF IsList
<1>3. \A c : c \in cs <=>
           \/ \E p \in m.pairs : c = PairChange(old, new, p)
           \/ \E i \in DOMAIN old : (\A p \in m.pairs : p.old # i) /\ c = Removal(m, i)
           \/ \E j \in DOMAIN new : (\A p \in m.pairs : p.new # j) /\ c = Addition(m, j)
  BY ChangesAre
<1>4. \A p : /\ PairChange(old, new, p).old = p.old /\ PairChange(old, new, p).new = p.new
             /\ PairChange(old, new, p).change \in {"CHANGED", "UNCHANGED"}
  BY DEF PairChange, ChangeOf
<1>5. \A i : /\ Removal(m, i).old = i /\ Removal(m, i).new = 0 /\ Removal(m, i).change = "REMOVED"
             /\ Addition(m, i).old = 0 /\ Addition(m, i).new = i /\ Addition(m, i).change = "ADDED"
  BY DEF Removal, Addition, ChangeOf
<1> HIDE DEF cs, m
<1>6. \A c \in cs : /\ c.change \in {"CHANGED", "UNCHANGED", "REMOVED", "ADDED"}
                    /\ c.old \in DOMAIN old \/ (c.old = 0 /\ c.change = "ADDED")
                    /\ c.new \in DOMAIN new \/ (c.new = 0 /\ c.change = "REMOVED")
                    /\ c.change = "ADDED" => c.old = 0
                    /\ c.change = "REMOVED" => c.new = 0
  BY <1>1, <1>3, <1>4, <1>5 DEF IsMatching
<1>7. ASSUME NEW i \in DOMAIN old
      PROVE  \E c \in cs : c.old = i
  <2>1. CASE \A p \in m.pairs : p.old # i
    BY <2>1, <1>3, <1>5
  <2>2. CASE \E p \in m.pairs : p.old = i
    BY <2>2, <1>3, <1>4
  <2>3. QED
    BY <2>1, <2>2
<1>8. ASSUME NEW j \in DOMAIN new
      PROVE  \E c \in cs : c.new = j
  <2>1. CASE \A p \in m.pairs : p.new # j
    BY <2>1, <1>3, <1>5
  <2>2. CASE \E p \in m.pairs : p.new = j
    BY <2>2, <1>3, <1>4
  <2>3. QED
    BY <2>1, <2>2
<1>9. \A p, q \in m.pairs : p.old = q.old \/ p.new = q.new => p = q
  BY <1>1 DEF IsMatching
<1>10. ASSUME NEW c \in cs, c.old \in DOMAIN old
       PROVE  \/ \E p \in m.pairs : c = PairChange(old, new, p) /\ c.old = p.old
              \/ (\A p \in m.pairs : p.old # c.old) /\ c = Removal(m, c.old)
  BY <1>10, <1>2, <1>3, <1>4, <1>5
<1>11. ASSUME NEW c \in cs, c.new \in DOMAIN new
       PROVE  \/ \E p \in m.pairs : c = PairChange(old, new, p) /\ c.new = p.new
              \/ (\A p \in m.pairs : p.new # c.new) /\ c = Addition(m, c.new)
  BY <1>11, <1>2, <1>3, <1>4, <1>5
<1>12. ASSUME NEW c \in cs, NEW d \in cs, c.old \in DOMAIN old, c.old = d.old
       PROVE  c = d
  BY <1>9, <1>10, <1>12
<1>13. ASSUME NEW c \in cs, NEW d \in cs, c.new \in DOMAIN new, c.new = d.new
       PROVE  c = d
  BY <1>9, <1>11, <1>13
<1>14. QED
  BY <1>6, <1>7, <1>8, <1>12, <1>13 DEF cs

(* Counting by the rules of one side: a change has a rule of it or none, each  *)
(* rule has one change, and the changes that have a rule are of three kinds.   *)
OneSide(rules, cs, rule, A, B, C) ==
  /\ IsList(rules)
  /\ rule \in [cs -> {0} \cup DOMAIN rules]
  /\ \A i \in DOMAIN rules : \E c \in cs : rule[c] = i
  /\ \A c, d \in cs : rule[c] \in DOMAIN rules /\ rule[c] = rule[d] => c = d
  /\ A \cup B \cup C = {c \in cs : rule[c] # 0}
  /\ A \cap B = {} /\ A \cap C = {} /\ B \cap C = {}

\* The three kinds of change that have a rule of a side make up its rules.
LEMMA CountsOfASide ==
  ASSUME NEW rules, NEW cs, NEW rule, NEW A, NEW B, NEW C, OneSide(rules, cs, rule, A, B, C)
  PROVE  /\ Cardinality(A) + Cardinality(B) + Cardinality(C) = Len(rules)
         /\ Cardinality(A) \in Nat /\ Cardinality(B) \in Nat /\ Cardinality(C) \in Nat
         /\ \A i \in DOMAIN rules : Cardinality({c \in cs : rule[c] = i}) = 1
<1>0. /\ IsList(rules)
      /\ rule \in [cs -> {0} \cup DOMAIN rules]
      /\ \A i \in DOMAIN rules : \E c \in cs : rule[c] = i
      /\ \A c, d \in cs : rule[c] \in DOMAIN rules /\ rule[c] = rule[d] => c = d
      /\ A \cup B \cup C = {c \in cs : rule[c] # 0}
      /\ A \cap B = {} /\ A \cap C = {} /\ B \cap C = {}
  BY DEF OneSide
<1> DEFINE S == {c \in cs : rule[c] # 0}
           D == 1 .. Len(rules)
           pick == [i \in D |-> CHOOSE c \in S : rule[c] = i]
<1>1. DOMAIN rules = D /\ 0 \notin D /\ Len(rules) \in Nat
  BY <1>0 DEF IsList
<1>2. IsFiniteSet(D) /\ Cardinality(D) = Len(rules)
  <2> DEFINE n == Len(rules)
  <2>1. n \in Nat
    BY <1>1
  <2> HIDE DEF n
  <2>2. IsFiniteSet(1 .. n) /\ Cardinality(1 .. n) = n
    BY <2>1, FS_Interval
  <2>3. QED
    BY <2>2 DEF n
<1>3. ASSUME NEW i \in D
      PROVE  \E c \in S : rule[c] = i
  <2>1. PICK c \in cs : rule[c] = i
    BY <1>0, <1>1
  <2>2. QED
    BY <2>1
<1>4. \A c \in S : rule[c] \in D
  BY <1>0, <1>1
<1>5. \A i \in D : pick[i] \in S /\ rule[pick[i]] = i
  BY <1>3
<1>6. pick \in [D -> S]
  BY <1>5
<1>7. pick \in Injection(D, S)
  BY <1>5, <1>6 DEF Injection, IsInjective
<1>8. \A c \in S : pick[rule[c]] = c
  BY <1>0, <1>4, <1>5, <1>1
<1>9. pick \in Surjection(D, S)
  BY <1>6, <1>4, <1>8 DEF Surjection
<1>10. IsFiniteSet(S) /\ Cardinality(S) = Cardinality(D)
  BY <1>2, <1>7, <1>9, FS_Surjection
<1> HIDE DEF S, D
<1>11. Cardinality(A) + Cardinality(B) + Cardinality(C) = Cardinality(S)
  BY <1>0, <1>10, ThreeParts DEF S
<1>12. Cardinality(A) \in Nat /\ Cardinality(B) \in Nat /\ Cardinality(C) \in Nat
  <2>1. A \subseteq S /\ B \subseteq S /\ C \subseteq S
    BY <1>0 DEF S
  <2>2. QED
    BY <1>10, <2>1, FS_Subset, FS_CardinalityType
<1>13. ASSUME NEW i \in DOMAIN rules
       PROVE  Cardinality({c \in cs : rule[c] = i}) = 1
  <2>1. PICK c \in cs : rule[c] = i
    BY <1>0
  <2>2. {d \in cs : rule[d] = i} = {c}
    BY <1>0, <2>1
  <2>3. QED
    BY <2>2, FS_Singleton
<1>14. QED
  BY <1>2, <1>10, <1>11, <1>12, <1>13
\* The changes in the other direction.
Mirror(c) ==
  [c EXCEPT !.old = c.new, !.new = c.old,
            !.change = CASE c.change = "ADDED" -> "REMOVED"
                         [] c.change = "REMOVED" -> "ADDED"
                         [] OTHER -> c.change]

LEMMA MirrorOfChange ==
  ASSUME NEW what, NEW i, NEW j, NEW fields, NEW b
  PROVE  Mirror(ChangeOf(what, i, j, fields, b))
           = ChangeOf(IF what = "ADDED" THEN "REMOVED" ELSE IF what = "REMOVED" THEN "ADDED" ELSE what, j, i, fields, b)
<1> DEFINE c == ChangeOf(what, i, j, fields, b)
           turned == CASE c.change = "ADDED" -> "REMOVED" [] c.change = "REMOVED" -> "ADDED" [] OTHER -> c.change
           t == IF what = "ADDED" THEN "REMOVED" ELSE IF what = "REMOVED" THEN "ADDED" ELSE what
           d == [c EXCEPT !.old = c.new, !.new = c.old, !.change = turned]
<1>1. /\ DOMAIN c = {"change", "old", "new", "fields", "ambiguous"}
      /\ c.change = what /\ c.old = i /\ c.new = j /\ c.fields = fields /\ c.ambiguous = b
  BY DEF ChangeOf
<1>2. Mirror(c) = d
  BY Zenon DEF Mirror
<1> HIDE DEF c
<1>3. turned = t
  BY <1>1
<1> HIDE DEF turned, t
<1>4. DOMAIN d = DOMAIN c /\ d = [k \in DOMAIN c |-> d[k]]
  BY <1>1
<1>5. d.old = j /\ d.new = i /\ d.change = t /\ d.fields = fields /\ d.ambiguous = b
  BY <1>1, <1>3
<1> HIDE DEF d
<1>6. d = ChangeOf(t, j, i, fields, b)
  BY <1>1, <1>4, <1>5 DEF ChangeOf
<1>7. QED
  BY <1>2, <1>6 DEF c, t

\* A change of a pair keeps its kind.
LEMMA MirrorOfPair ==
  ASSUME NEW what, what # "ADDED", what # "REMOVED", NEW i, NEW j, NEW fields, NEW b
  PROVE  Mirror(ChangeOf(what, i, j, fields, b)) = ChangeOf(what, j, i, fields, b)
<1>1. (IF what = "ADDED" THEN "REMOVED" ELSE IF what = "REMOVED" THEN "ADDED" ELSE what) = what
  OBVIOUS
<1>2. QED
  BY <1>1, MirrorOfChange

\* The comparison in the other direction has the same changes, mirrored.
LEMMA ChangesAreMirrored ==
  ASSUME NEW old, NEW new, IsList(old), IsList(new)
  PROVE  Releases!Changes(new, old) = {Mirror(c) : c \in Releases!Changes(old, new)}
<1> DEFINE m == Matches(old, new)
           w == Matches(new, old)
           cs == Releases!Changes(old, new)
           ds == Releases!Changes(new, old)
           turned(p) == Pair(p.new, p.old)
<1>1. Mirrored(old, new, m, w)
  BY RulesAreMatched DEF Matches
<1>2. \A p : turned(p).old = p.new /\ turned(p).new = p.old
  BY DEF Pair
<1>3. \A p \in m.pairs : turned(p) \in w.pairs
  BY <1>1 DEF Mirrored, IsMatching
<1>4. \A p \in w.pairs : turned(p) \in m.pairs
  BY <1>1 DEF Mirrored, IsMatching
<1>5. ASSUME NEW p
      PROVE  Mirror(PairChange(old, new, p)) = PairChange(new, old, turned(p))
  <2>1. Diffs(old, new, p) = Diffs(new, old, turned(p))
    BY <1>2 DEF Diffs, Releases!FieldDiffs
  <2>2. PairChange(new, old, turned(p))
          = ChangeOf(IF Diffs(old, new, p) = {} THEN "UNCHANGED" ELSE "CHANGED", p.new, p.old, Diffs(old, new, p), FALSE)
    BY <1>2, <2>1, Zenon DEF PairChange
  <2> DEFINE what == IF Diffs(old, new, p) = {} THEN "UNCHANGED" ELSE "CHANGED"
  <2>4. what # "ADDED" /\ what # "REMOVED"
    OBVIOUS
  <2>5. PairChange(old, new, p) = ChangeOf(what, p.old, p.new, Diffs(old, new, p), FALSE)
    BY Zenon DEF PairChange
  <2>6. PairChange(new, old, turned(p)) = ChangeOf(what, p.new, p.old, Diffs(old, new, p), FALSE)
    BY <2>2, Zenon
  <2> HIDE DEF what, turned
  <2>8. Mirror(ChangeOf(what, p.old, p.new, Diffs(old, new, p), FALSE)) = ChangeOf(what, p.new, p.old, Diffs(old, new, p), FALSE)
    <3> DEFINE fs == Diffs(old, new, p)
    <3> HIDE DEF fs
    <3>1. \A b : Mirror(ChangeOf(what, p.old, p.new, fs, b)) = ChangeOf(what, p.new, p.old, fs, b)
      BY <2>4, MirrorOfPair
    <3>2. QED
      BY <3>1, Zenon DEF fs
  <2>9. QED
    BY <2>5, <2>6, <2>8, Zenon
<1>6. ASSUME NEW i
      PROVE  /\ Mirror(Removal(m, i)) = Addition(w, i)
             /\ Mirror(Addition(m, i)) = Removal(w, i)
  <2>1. m.oldNoted = w.newNoted /\ m.newNoted = w.oldNoted
    BY <1>1 DEF Mirrored
  <2>2. Addition(w, i) = ChangeOf("ADDED", 0, i, {}, i \in m.oldNoted) /\ Removal(w, i) = ChangeOf("REMOVED", i, 0, {}, i \in m.newNoted)
    BY <2>1, Zenon DEF Addition, Removal
  <2>3. \A b : /\ Mirror(ChangeOf("REMOVED", i, 0, {}, b)) = ChangeOf("ADDED", 0, i, {}, b)
               /\ Mirror(ChangeOf("ADDED", 0, i, {}, b)) = ChangeOf("REMOVED", i, 0, {}, b)
    BY MirrorOfChange
  <2>4. QED
    BY <2>2, <2>3, Zenon DEF Addition, Removal
<1>7. /\ \A c : c \in cs <=>
           \/ \E p \in m.pairs : c = PairChange(old, new, p)
           \/ \E i \in DOMAIN old : (\A p \in m.pairs : p.old # i) /\ c = Removal(m, i)
           \/ \E j \in DOMAIN new : (\A p \in m.pairs : p.new # j) /\ c = Addition(m, j)
      /\ \A c : c \in ds <=>
           \/ \E p \in w.pairs : c = PairChange(new, old, p)
           \/ \E i \in DOMAIN new : (\A p \in w.pairs : p.old # i) /\ c = Removal(w, i)
           \/ \E j \in DOMAIN old : (\A p \in w.pairs : p.new # j) /\ c = Addition(w, j)
  BY ChangesAre
<1>8. /\ \A i : (\A p \in m.pairs : p.old # i) <=> (\A p \in w.pairs : p.new # i)
      /\ \A i : (\A p \in m.pairs : p.new # i) <=> (\A p \in w.pairs : p.old # i)
  BY <1>2, <1>3, <1>4
<1>9. \A p \in w.pairs : turned(turned(p)) = p
  BY <1>1, <1>2 DEF Mirrored, IsMatching
<1> HIDE DEF m, w, cs, ds, turned
<1>10. ASSUME NEW c \in cs
       PROVE  Mirror(c) \in ds
  <2>1. CASE \E p \in m.pairs : c = PairChange(old, new, p)
    BY <2>1, <1>3, <1>5, <1>7
  <2>2. CASE \E i \in DOMAIN old : (\A p \in m.pairs : p.old # i) /\ c = Removal(m, i)
    BY <2>2, <1>6, <1>7, <1>8
  <2>3. CASE \E j \in DOMAIN new : (\A p \in m.pairs : p.new # j) /\ c = Addition(m, j)
    BY <2>3, <1>6, <1>7, <1>8
  <2>4. QED
    BY <1>7, <2>1, <2>2, <2>3
<1>11. ASSUME NEW d \in ds
       PROVE  \E c \in cs : d = Mirror(c)
  <2>1. ASSUME NEW q \in w.pairs, d = PairChange(new, old, q)
        PROVE  \E c \in cs : d = Mirror(c)
    <3>1. turned(q) \in m.pairs /\ d = Mirror(PairChange(old, new, turned(q)))
      BY <2>1, <1>4, <1>5, <1>9
    <3>2. QED
      BY <3>1, <1>7
  <2>2. CASE \E i \in DOMAIN new : (\A p \in w.pairs : p.old # i) /\ d = Removal(w, i)
    BY <2>2, <1>6, <1>7, <1>8
  <2>3. CASE \E j \in DOMAIN old : (\A p \in w.pairs : p.new # j) /\ d = Addition(w, j)
    BY <2>3, <1>6, <1>7, <1>8
  <2>4. QED
    BY <1>7, <2>1, <2>2, <2>3
<1>12. QED
  BY <1>10, <1>11 DEF cs, ds

\* Every rule is in exactly one change, the counts add up, both ways.
LEMMA RulesAccounted ==
  ASSUME NEW old, NEW new, IsList(old), IsList(new)
  PROVE  Releases!RulesAreAccountedFor(old, new)
<1> DEFINE cs == Releases!Changes(old, new)
           byOld == [c \in cs |-> c.old]
           byNew == [c \in cs |-> c.new]
           of(what) == {c \in cs : c.change = what}
<1>1. /\ \A c \in cs : /\ c.change \in {"CHANGED", "UNCHANGED", "REMOVED", "ADDED"}
                       /\ c.old \in DOMAIN old \/ (c.old = 0 /\ c.change = "ADDED")
                       /\ c.new \in DOMAIN new \/ (c.new = 0 /\ c.change = "REMOVED")
                       /\ c.change = "ADDED" => c.old = 0
                       /\ c.change = "REMOVED" => c.new = 0
      /\ \A i \in DOMAIN old : \E c \in cs : c.old = i
      /\ \A j \in DOMAIN new : \E c \in cs : c.new = j
      /\ \A c, d \in cs : (c.old \in DOMAIN old /\ c.old = d.old) => c = d
      /\ \A c, d \in cs : (c.new \in DOMAIN new /\ c.new = d.new) => c = d
  BY RulesHaveOneChange
<1> HIDE DEF cs
<1>2. 0 \notin DOMAIN old /\ 0 \notin DOMAIN new
  BY DEF IsList
<1>3. /\ byOld \in [cs -> {0} \cup DOMAIN old]
      /\ \A i \in DOMAIN old : \E c \in cs : byOld[c] = i
      /\ \A c, d \in cs : byOld[c] \in DOMAIN old /\ byOld[c] = byOld[d] => c = d
      /\ of("CHANGED") \cup of("UNCHANGED") \cup of("REMOVED") = {c \in cs : byOld[c] # 0}
  BY <1>1, <1>2
<1>4. /\ byNew \in [cs -> {0} \cup DOMAIN new]
      /\ \A i \in DOMAIN new : \E c \in cs : byNew[c] = i
      /\ \A c, d \in cs : byNew[c] \in DOMAIN new /\ byNew[c] = byNew[d] => c = d
      /\ of("CHANGED") \cup of("UNCHANGED") \cup of("ADDED") = {c \in cs : byNew[c] # 0}
  BY <1>1, <1>2
<1>5. /\ of("CHANGED") \cap of("UNCHANGED") = {} /\ of("CHANGED") \cap of("REMOVED") = {} /\ of("UNCHANGED") \cap of("REMOVED") = {}
      /\ of("CHANGED") \cap of("ADDED") = {} /\ of("UNCHANGED") \cap of("ADDED") = {}
  OBVIOUS
<1>6. /\ \A i : {c \in cs : byOld[c] = i} = {c \in cs : c.old = i}
      /\ \A i : {c \in cs : byNew[c] = i} = {c \in cs : c.new = i}
  OBVIOUS
<1> HIDE DEF byOld, byNew, of
<1>7. /\ Cardinality(of("CHANGED")) + Cardinality(of("UNCHANGED")) + Cardinality(of("REMOVED")) = Len(old)
      /\ \A i \in DOMAIN old : Cardinality({c \in cs : c.old = i}) = 1
  <2> DEFINE A == of("CHANGED")  B == of("UNCHANGED")  C == of("REMOVED")
  <2>a. byOld \in [cs -> {0} \cup DOMAIN old]
    BY <1>3
  <2>b. \A i \in DOMAIN old : \E c \in cs : byOld[c] = i
    BY <1>3
  <2>c. \A c, d \in cs : byOld[c] \in DOMAIN old /\ byOld[c] = byOld[d] => c = d
    BY <1>3, Zenon
  <2>d. A \cup B \cup C = {c \in cs : byOld[c] # 0}
    BY <1>3
  <2>e. A \cap B = {} /\ A \cap C = {} /\ B \cap C = {}
    BY <1>5
  <2> HIDE DEF A, B, C
  <2>1. /\ Cardinality(A) + Cardinality(B) + Cardinality(C) = Len(old)
        /\ Cardinality(A) \in Nat /\ Cardinality(B) \in Nat /\ Cardinality(C) \in Nat
        /\ \A i \in DOMAIN old : Cardinality({c \in cs : byOld[c] = i}) = 1
    <3>1. OneSide(old, cs, byOld, A, B, C)
      BY <2>a, <2>b, <2>c, <2>d, <2>e, Zenon DEF OneSide
    <3>2. QED
      BY <3>1, CountsOfASide
  <2>2. QED
    BY <1>6, <2>1 DEF A, B, C
<1>8. /\ Cardinality(of("CHANGED")) + Cardinality(of("UNCHANGED")) + Cardinality(of("ADDED")) = Len(new)
      /\ \A i \in DOMAIN new : Cardinality({c \in cs : c.new = i}) = 1
  <2> DEFINE A == of("CHANGED")  B == of("UNCHANGED")  C == of("ADDED")
  <2>a. byNew \in [cs -> {0} \cup DOMAIN new]
    BY <1>4
  <2>b. \A i \in DOMAIN new : \E c \in cs : byNew[c] = i
    BY <1>4
  <2>c. \A c, d \in cs : byNew[c] \in DOMAIN new /\ byNew[c] = byNew[d] => c = d
    BY <1>4, Zenon
  <2>d. A \cup B \cup C = {c \in cs : byNew[c] # 0}
    BY <1>4
  <2>e. A \cap B = {} /\ A \cap C = {} /\ B \cap C = {}
    BY <1>5
  <2> HIDE DEF A, B, C
  <2>1. /\ Cardinality(A) + Cardinality(B) + Cardinality(C) = Len(new)
        /\ Cardinality(A) \in Nat /\ Cardinality(B) \in Nat /\ Cardinality(C) \in Nat
        /\ \A i \in DOMAIN new : Cardinality({c \in cs : byNew[c] = i}) = 1
    <3>1. OneSide(new, cs, byNew, A, B, C)
      BY <2>a, <2>b, <2>c, <2>d, <2>e, Zenon DEF OneSide
    <3>2. QED
      BY <3>1, CountsOfASide
  <2>2. QED
    BY <1>6, <2>1 DEF A, B, C
<1>9. \A what : Releases!Count(cs, what) = Cardinality(of(what))
  BY ReleaseCount DEF Releases!Count, of
<1>10. /\ \A i \in DOMAIN old : Releases!Cardinality({c \in cs : c.old = i}) = 1
       /\ \A i \in DOMAIN new : Releases!Cardinality({c \in cs : c.new = i}) = 1
  BY <1>7, <1>8, ReleaseCount
<1>11. Releases!Changes(new, old) = {Mirror(c) : c \in cs}
  BY ChangesAreMirrored DEF cs
<1> DEFINE mirrored(c) == [c EXCEPT !.old = c.new, !.new = c.old,
                             !.change = CASE c.change = "ADDED" -> "REMOVED"
                                          [] c.change = "REMOVED" -> "ADDED"
                                          [] OTHER -> c.change]
<1>12. Releases!RulesAreAccountedFor(old, new) =
         (/\ \A i \in DOMAIN old : Releases!Cardinality({c \in cs : c.old = i}) = 1
          /\ \A j \in DOMAIN new : Releases!Cardinality({c \in cs : c.new = j}) = 1
          /\ Releases!Count(cs, "CHANGED") + Releases!Count(cs, "UNCHANGED") + Releases!Count(cs, "REMOVED") = Len(old)
          /\ Releases!Count(cs, "CHANGED") + Releases!Count(cs, "UNCHANGED") + Releases!Count(cs, "ADDED") = Len(new)
          /\ Releases!Changes(new, old) = {mirrored(c) : c \in cs})
  BY Zenon DEF Releases!RulesAreAccountedFor, cs
<1>13. \A c : mirrored(c) = Mirror(c)
  BY Zenon DEF Mirror
<1>14. {mirrored(c) : c \in cs} = {Mirror(c) : c \in cs}
  BY <1>13, Zenon
<1> HIDE DEF mirrored
<1>15. /\ Releases!Count(cs, "CHANGED") + Releases!Count(cs, "UNCHANGED") + Releases!Count(cs, "REMOVED") = Len(old)
       /\ Releases!Count(cs, "CHANGED") + Releases!Count(cs, "UNCHANGED") + Releases!Count(cs, "ADDED") = Len(new)
  BY <1>7, <1>8, <1>9
<1>16. QED
  BY <1>10, <1>11, <1>12, <1>14, <1>15
\* A check that covers one of the rules makes a mapping.
LEMMA CheckIsFound ==
  ASSUME NEW rules, NEW checks
  PROVE  /\ Releases!MatchMappings(rules, checks) \subseteq DOMAIN checks
         /\ \A k \in DOMAIN checks, r \in rules :
              Releases!Covers(checks[k], r) => Releases!MatchMappings(rules, checks) # {}
<1> DEFINE by(f)  == {k \in DOMAIN checks : checks[k][f] # None /\ \E r \in rules : r[f] = checks[k][f]}
           ids    == Releases!Identifiers
           finds  == {n \in DOMAIN ids : by(ids[n]) # {}}
           least  == CHOOSE n \in finds : \A m \in finds : n <= m
           found  == Releases!MatchMappings(rules, checks)
<1>1. found = IF finds = {} THEN {} ELSE by(ids[least])
  BY Zenon DEF Releases!MatchMappings
<1>2. DOMAIN ids = {1, 2, 3} /\ ids[1] = "vuln" /\ ids[2] = "rule" /\ ids[3] = "stig"
  BY DEF Releases!Identifiers
<1>3. \A f : by(f) \subseteq DOMAIN checks
  OBVIOUS
<1>4. ASSUME NEW k \in DOMAIN checks, NEW r \in rules, Releases!Covers(checks[k], r)
      PROVE  finds # {}
  <2>1. PICK f \in {"vuln", "rule", "stig"} : checks[k][f] # None /\ checks[k][f] = r[f]
    BY <1>4 DEF Releases!Covers
  <2>2. k \in by(f)
    BY <2>1
  <2> HIDE DEF by, ids
  <2>3. PICK n \in {1, 2, 3} : ids[n] = f
    BY <1>2
  <2>4. n \in finds
    BY <1>2, <2>2, <2>3
  <2>5. QED
    BY <2>4
<1> HIDE DEF by, ids
<1>5. finds \in SUBSET Nat /\ \A n \in finds : by(ids[n]) # {}
  BY <1>2
<1>6. finds # {} => least \in finds
  <2> HIDE DEF finds
  <2>1. SUFFICES ASSUME finds # {} PROVE least \in finds
    OBVIOUS
  <2>2. \E n \in finds : \A m \in finds : n <= m
    BY <1>5, <2>1, FirstOne
  <2>3. QED
    BY <2>2
<1> HIDE DEF finds, least, found
<1>7. QED
  BY <1>1, <1>3, <1>4, <1>5, <1>6 DEF found

\* What a change of a pair says of the two rules.
LEMMA PairedChanges ==
  ASSUME NEW old, NEW new, IsList(old), IsList(new), NEW c \in Releases!Changes(old, new),
         c.change \in {"CHANGED", "UNCHANGED"}
  PROVE  /\ c.old \in DOMAIN old /\ c.new \in DOMAIN new
         /\ c.fields = Releases!FieldDiffs(Releases!FingerprintFields, old[c.old], new[c.new])
         /\ c.change = "UNCHANGED" => c.fields = {}
         /\ \E f \in {"vuln", "rule", "stig"} : old[c.old][f] # None /\ old[c.old][f] = new[c.new][f]
<1> DEFINE m == Matches(old, new)
<1>1. /\ IsMatching(old, new, m.pairs)
      /\ \A p \in m.pairs : Shares(old, new, p, "vuln") \/ Shares(old, new, p, "rule") \/ Shares(old, new, p, "stig")
  BY RulesAreMatched DEF Matches
<1>2. \/ \E p \in m.pairs : c = PairChange(old, new, p)
      \/ \E i \in DOMAIN old : (\A p \in m.pairs : p.old # i) /\ c = Removal(m, i)
      \/ \E j \in DOMAIN new : (\A p \in m.pairs : p.new # j) /\ c = Addition(m, j)
  BY ChangesAre
<1>3. \A i : Removal(m, i).change = "REMOVED" /\ Addition(m, i).change = "ADDED"
  BY DEF Removal, Addition, ChangeOf
<1>4. PICK p \in m.pairs : c = PairChange(old, new, p)
  BY <1>2, <1>3
<1>5. /\ c.old = p.old /\ c.new = p.new /\ c.fields = Diffs(old, new, p)
      /\ c.change = IF Diffs(old, new, p) = {} THEN "UNCHANGED" ELSE "CHANGED"
  BY <1>4 DEF PairChange, ChangeOf
<1>6. p.old \in DOMAIN old /\ p.new \in DOMAIN new
  BY <1>1 DEF IsMatching
<1>7. \E f \in {"vuln", "rule", "stig"} : old[p.old][f] # None /\ old[p.old][f] = new[p.new][f]
  BY <1>1 DEF Shares
<1> HIDE DEF m
<1>8. QED
  BY <1>5, <1>6, <1>7 DEF Diffs

\* What a change asks for where a check is found.
Mapped(c, old, new, checks) == Releases!MatchMappings(Releases!RulesOf(c, old, new), checks)
Impact(c, old, new, checks) == Releases!ImpactType(c, Mapped(c, old, new, checks), checks)

LEMMA ImpactMeans ==
  ASSUME NEW c, c.change \in {"CHANGED", "UNCHANGED", "REMOVED", "ADDED"}, NEW found, NEW checks
  PROVE  LET impact == Releases!ImpactType(c, found, checks)
         IN  /\ impact \in Releases!Quiet =>
                  c.change \notin {"ADDED", "REMOVED"} /\ (c.change = "UNCHANGED" \/ "check" \notin c.fields)
             /\ impact = "NO_ACTION_REQUIRED" => c.change = "UNCHANGED"
             /\ impact = "NO_LOCAL_CHECK" => found = {}
<1> DEFINE many  == c.ambiguous \/ Releases!Cardinality(found) > 1
           check == checks[CHOOSE k \in found : TRUE]
           impact == Releases!ImpactType(c, found, checks)
           means == CASE c.change = "ADDED"     -> Releases!Review(check)
                      [] c.change = "REMOVED"   -> "RETIRE_CHECK_REVIEW"
                      [] c.change = "UNCHANGED" -> "NO_ACTION_REQUIRED"
                      [] c.change = "CHANGED" /\ "check" \in c.fields -> Releases!Review(check)
                      [] c.change = "CHANGED" /\ "check" \notin c.fields /\ "fix" \in c.fields -> "FIX_GUIDANCE_CHANGED"
                      [] OTHER                  -> "METADATA_UPDATE"
<1>1. /\ many => impact = "AMBIGUOUS_MAPPING"
      /\ ~ many /\ found = {} => impact = IF c.change = "ADDED" THEN "NEW_CHECK_REQUIRED" ELSE "NO_LOCAL_CHECK"
      /\ ~ many /\ found # {} => impact = means
  <2>1. CASE many
    BY <2>1 DEF Releases!ImpactType
  <2>2. CASE ~ many /\ found = {}
    BY <2>2 DEF Releases!ImpactType
  <2>3. CASE ~ many /\ found # {}
    BY <2>3 DEF Releases!ImpactType
  <2>4. QED
    BY <2>1, <2>2, <2>3, Zenon
<1>2. Releases!Review(check) \in {"AUTOMATION_REVIEW_REQUIRED", "MANUAL_RULE_REVIEW"}
  BY DEF Releases!Review
<1> HIDE DEF many, check, impact
<1>3. /\ means \in Releases!Quiet => c.change \notin {"ADDED", "REMOVED"} /\ (c.change = "UNCHANGED" \/ "check" \notin c.fields)
      /\ means = "NO_ACTION_REQUIRED" => c.change = "UNCHANGED"
      /\ means # "NO_LOCAL_CHECK"
  BY <1>2 DEF Releases!Quiet
<1> HIDE DEF means
<1>4. impact \in Releases!Quiet \/ impact \in {"NO_ACTION_REQUIRED", "NO_LOCAL_CHECK"} => ~ many
  BY <1>1 DEF Releases!Quiet
<1>5. QED
  BY <1>1, <1>3 DEF Releases!Quiet, impact

Entry(old, new, checks, c, k) == [change |-> c, check |-> k, impact |-> Impact(c, old, new, checks)]
EntriesOf(old, new, checks, c) == IF Mapped(c, old, new, checks) = {} THEN {0} ELSE Mapped(c, old, new, checks)

\* The impacts are those of the changes, and no others.
LEMMA ImpactsAre ==
  ASSUME NEW old, old # None, NEW new, NEW checks
  PROVE  \A e : e \in Releases!YamlImpacts(old, new, checks) <=>
           \E c \in Releases!Changes(old, new) : \E k \in EntriesOf(old, new, checks, c) : e = Entry(old, new, checks, c, k)
<1> DEFINE cs == Releases!Changes(old, new)
           impacts == Releases!YamlImpacts(old, new, checks)
           box(c) == LET matched == Releases!MatchMappings(Releases!RulesOf(c, old, new), checks)
                         an(k) == [change |-> c, check |-> k, impact |-> Releases!ImpactType(c, matched, checks)]
                     IN  IF matched = {} THEN {an(Releases!Absent)} ELSE {an(k) : k \in matched}
           entries(c) == {Entry(old, new, checks, c, k) : k \in EntriesOf(old, new, checks, c)}
<1>1. Releases!Compare(old, new) = cs
  BY DEF Releases!Compare
<1>2. impacts = UNION {box(c) : c \in Releases!Compare(old, new)}
  BY Zenon DEF Releases!YamlImpacts
<1>3. ASSUME NEW c
      PROVE  box(c) = entries(c)
  <2> DEFINE matched == Mapped(c, old, new, checks)
             an(k) == [change |-> c, check |-> k, impact |-> Releases!ImpactType(c, matched, checks)]
  <2>1. box(c) = IF matched = {} THEN {an(0)} ELSE {an(k) : k \in matched}
    BY Zenon DEF Mapped, Releases!Absent
  <2>2. \A k : an(k) = Entry(old, new, checks, c, k)
    BY Zenon DEF Entry, Impact
  <2> HIDE DEF an, box
  <2>3. QED
    BY <2>1, <2>2 DEF EntriesOf
<1> HIDE DEF box, cs, impacts
<1>4. \A e : e \in impacts <=> \E c \in cs : e \in box(c)
  BY <1>1, <1>2
<1>5. QED
  BY <1>3, <1>4 DEF impacts, cs

LEMMA EntryParts ==
  ASSUME NEW old, NEW new, NEW checks, NEW c, NEW k
  PROVE  /\ Entry(old, new, checks, c, k).change = c /\ Entry(old, new, checks, c, k).check = k
         /\ Entry(old, new, checks, c, k).impact = Impact(c, old, new, checks)
BY DEF Entry

\* A check is passed over quietly only when a related old rule has the same text.
LEMMA NewProcedures ==
  ASSUME NEW old, NEW new, old # None, IsList(old), IsList(new), NEW checks
  PROVE  Releases!NewProceduresAreReviewed(old, new, checks)
<1> DEFINE cs == Releases!Changes(old, new)
           impacts == Releases!YamlImpacts(old, new, checks)
<1>0. ASSUME NEW e \in impacts
      PROVE  e.change \in cs /\ e.impact = Impact(e.change, old, new, checks)
  <2>1. PICK c \in cs : \E k : e = Entry(old, new, checks, c, k)
    BY ImpactsAre
  <2>2. QED
    BY <2>1, EntryParts
<1>1. ASSUME NEW c \in cs, NEW k \in Mapped(c, old, new, checks)
      PROVE  \E e \in impacts : e.change = c /\ e.check = k /\ e.impact = Impact(c, old, new, checks)
  <2>1. k \in EntriesOf(old, new, checks, c)
    BY DEF EntriesOf
  <2>2. Entry(old, new, checks, c, k) \in impacts
    BY <2>1, ImpactsAre
  <2>3. QED
    BY <2>2, EntryParts
<1>2. /\ \A c \in cs : c.change \in {"CHANGED", "UNCHANGED", "REMOVED", "ADDED"}
      /\ \A j \in DOMAIN new : \E c \in cs : c.new = j
  BY RulesHaveOneChange
<1> HIDE DEF cs, impacts
<1>3. ASSUME NEW c \in cs, Impact(c, old, new, checks) \in Releases!Quiet
      PROVE  /\ old[c.old].check = new[c.new].check /\ c.old \in DOMAIN old
             /\ Releases!Related(old[c.old], new[c.new])
  <2>1. c.change \in {"CHANGED", "UNCHANGED"} /\ (c.change = "UNCHANGED" \/ "check" \notin c.fields)
    BY <1>2, <1>3, ImpactMeans DEF Impact
  <2>2. /\ c.old \in DOMAIN old /\ c.new \in DOMAIN new
        /\ c.fields = Releases!FieldDiffs(Releases!FingerprintFields, old[c.old], new[c.new])
        /\ c.change = "UNCHANGED" => c.fields = {}
        /\ \E f \in {"vuln", "rule", "stig"} : old[c.old][f] # None /\ old[c.old][f] = new[c.new][f]
    BY <2>1, PairedChanges DEF cs
  <2>3. "check" \notin c.fields
    BY <2>1, <2>2
  <2>4. old[c.old].check = new[c.new].check
    BY <2>2, <2>3 DEF Releases!FieldDiffs, Releases!FingerprintFields
  <2>5. QED
    BY <2>2, <2>4 DEF Releases!Related
<1>4. \A e \in impacts : e.impact \in Releases!Quiet => old[e.change.old].check = new[e.change.new].check
  BY <1>0, <1>3
<1>5. ASSUME NEW j \in DOMAIN new, NEW k \in DOMAIN checks, Releases!Covers(checks[k], new[j])
      PROVE  \/ \E e \in impacts : e.change.new = j /\ e.impact \notin Releases!Quiet
             \/ \E i \in DOMAIN old : Releases!Related(old[i], new[j]) /\ old[i].check = new[j].check
  <2>1. PICK c \in cs : c.new = j
    BY <1>2
  <2>2. new[j] \in Releases!RulesOf(c, old, new)
    BY <2>1 DEF Releases!RulesOf, Releases!Absent, IsList
  <2>3. Mapped(c, old, new, checks) # {}
    BY <1>5, <2>2, CheckIsFound DEF Mapped
  <2>4. PICK e \in impacts : e.change = c /\ e.impact = Impact(c, old, new, checks)
    BY <1>1, <2>3
  <2>5. QED
    BY <1>3, <2>1, <2>4
<1>6. QED
  BY <1>4, <1>5 DEF Releases!NewProceduresAreReviewed, impacts

\* A check on a rule that is lost is reported.
LEMMA LostRules ==
  ASSUME NEW old, NEW new, old # None, IsList(old), IsList(new), NEW checks, IsList(checks)
  PROVE  Releases!LostRulesAreReported(old, new, checks)
<1> DEFINE cs == Releases!Changes(old, new)
           impacts == Releases!YamlImpacts(old, new, checks)
<1>1. ASSUME NEW c \in cs, NEW k \in Mapped(c, old, new, checks)
      PROVE  \E e \in impacts : e.change = c /\ e.check = k /\ e.impact = Impact(c, old, new, checks)
  <2>1. k \in EntriesOf(old, new, checks, c)
    BY DEF EntriesOf
  <2>2. Entry(old, new, checks, c, k) \in impacts
    BY <2>1, ImpactsAre
  <2>3. QED
    BY <2>2, EntryParts
<1>2. /\ \A c \in cs : c.change \in {"CHANGED", "UNCHANGED", "REMOVED", "ADDED"}
      /\ \A i \in DOMAIN old : \E c \in cs : c.old = i
  BY RulesHaveOneChange
<1> HIDE DEF cs, impacts
<1>3. SUFFICES ASSUME NEW k \in DOMAIN checks, NEW i \in DOMAIN old, Releases!Covers(checks[k], old[i]),
                      ~ (\E j \in DOMAIN new : Releases!Covers(checks[k], new[j]))
               PROVE  \E e \in impacts : /\ e.change.old = i /\ e.impact \notin {"NO_ACTION_REQUIRED", "NO_LOCAL_CHECK"}
                                         /\ e.check # Releases!Absent
  BY DEF Releases!LostRulesAreReported, impacts
<1>4. PICK c \in cs : c.old = i
  BY <1>2
<1>5. old[i] \in Releases!RulesOf(c, old, new)
  BY <1>4 DEF Releases!RulesOf, Releases!Absent, IsList
<1>6. Mapped(c, old, new, checks) # {} /\ Mapped(c, old, new, checks) \subseteq DOMAIN checks
  BY <1>3, <1>5, CheckIsFound DEF Mapped
<1>7. PICK e \in impacts : e.change = c /\ e.check \in DOMAIN checks /\ e.impact = Impact(c, old, new, checks)
  BY <1>1, <1>6
<1>8. e.check # Releases!Absent
  BY <1>7 DEF Releases!Absent, IsList
<1>9. ASSUME c.change = "UNCHANGED"
      PROVE  FALSE
  <2>1. /\ c.new \in DOMAIN new /\ c.fields = {}
        /\ c.fields = Releases!FieldDiffs(Releases!FingerprintFields, old[i], new[c.new])
    BY <1>4, <1>9, PairedChanges DEF cs
  <2>2. \A f \in {"vuln", "rule", "stig"} : old[i][f] = new[c.new][f]
    BY <2>1 DEF Releases!FieldDiffs, Releases!FingerprintFields
  <2>3. Releases!Covers(checks[k], new[c.new])
    BY <1>3, <2>2 DEF Releases!Covers
  <2>4. QED
    BY <1>3, <2>1, <2>3
<1>10. Impact(c, old, new, checks) \notin {"NO_ACTION_REQUIRED", "NO_LOCAL_CHECK"}
  BY <1>2, <1>6, <1>9, ImpactMeans DEF Impact
<1>11. QED
  BY <1>4, <1>7, <1>8, <1>10
\* The changes of the comparison of two sources.
SourceMatches(old, new) == Releases!MatchRules(<<"stig", "vuln", "title">>, old, new)
SourceDiffs(old, new, p) == Releases!FieldDiffs(Releases!FingerprintFields, old[p.old], new[p.new])
SourceChange(kind, i, j) == [kind |-> kind, old |-> i, new |-> j]

\* A change of two sources comes of a pair, a removal or an addition.
LEMMA SourceChangesAre ==
  ASSUME NEW old, NEW new
  PROVE  Releases!SourceChanges(old, new) =
           {SourceChange("Changed", p.old, p.new) : p \in {q \in SourceMatches(old, new).pairs : SourceDiffs(old, new, q) # {}}}
           \cup {SourceChange("Removed", i, 0) : i \in (DOMAIN old) \ {p.old : p \in SourceMatches(old, new).pairs}}
           \cup {SourceChange("Added", 0, j) : j \in (DOMAIN new) \ {p.new : p \in SourceMatches(old, new).pairs}}
<1>1. Releases!MatchRules(Releases!ComparedBy, old, new) = SourceMatches(old, new)
  BY DEF SourceMatches, Releases!ComparedBy
<1> DEFINE m == Releases!MatchRules(Releases!ComparedBy, old, new)
           kept == {[kind |-> "Changed", old |-> p.old, new |-> p.new] :
                      p \in {q \in m.pairs : Releases!FieldDiffs(Releases!FingerprintFields, old[q.old], new[q.new]) # {}}}
           gone == {[kind |-> "Removed", old |-> i, new |-> Releases!Absent] : i \in (DOMAIN old) \ {p.old : p \in m.pairs}}
           come == {[kind |-> "Added", old |-> Releases!Absent, new |-> j] : j \in (DOMAIN new) \ {p.new : p \in m.pairs}}
<1>2. Releases!SourceChanges(old, new) = kept \cup gone \cup come
  BY Zenon DEF Releases!SourceChanges
<1> DEFINE w == SourceMatches(old, new)
<1> HIDE DEF w
<1>3. m = w
  BY <1>1 DEF w
<1>4. kept = {SourceChange("Changed", p.old, p.new) : p \in {q \in w.pairs : SourceDiffs(old, new, q) # {}}}
  BY <1>3, Zenon DEF SourceChange, SourceDiffs
<1>5. gone = {SourceChange("Removed", i, 0) : i \in (DOMAIN old) \ {p.old : p \in w.pairs}}
  BY <1>3, Zenon DEF SourceChange, Releases!Absent
<1>6. come = {SourceChange("Added", 0, j) : j \in (DOMAIN new) \ {p.new : p \in w.pairs}}
  BY <1>3, Zenon DEF SourceChange, Releases!Absent
<1> HIDE DEF kept, gone, come
<1>7. QED
  BY <1>2, <1>4, <1>5, <1>6, Zenon DEF w

\* The pairs of two sources are a matching.
LEMMA SourceMatching ==
  ASSUME NEW old, NEW new, IsList(old), IsList(new)
  PROVE  /\ IsMatching(old, new, SourceMatches(old, new).pairs)
         /\ IsFiniteSet(SourceMatches(old, new).pairs)
<1> DEFINE pairs == SourceMatches(old, new).pairs
           olds == [p \in pairs |-> p.old]
<1>1. IsMatching(old, new, pairs)
  BY RulesAreMatched DEF SourceMatches
<1> HIDE DEF pairs
<1>2. IsFiniteSet(DOMAIN old)
  <2> DEFINE n == Len(old)
  <2>1. n \in Nat /\ DOMAIN old = 1 .. n
    BY DEF IsList
  <2> HIDE DEF n
  <2>2. QED
    BY <2>1, FS_Interval
<1>3. olds \in [pairs -> DOMAIN old]
  BY <1>1 DEF IsMatching
<1>4. \A p, q \in pairs : p.old = q.old => p = q
  BY <1>1 DEF IsMatching
<1>5. \A p, q \in pairs : olds[p] = olds[q] => p = q
  BY <1>4
<1> HIDE DEF olds
<1>6. olds \in Injection(pairs, DOMAIN old)
  BY <1>3, <1>5 DEF Injection, IsInjective
<1>7. IsFiniteSet(pairs)
  BY <1>2, <1>6, FS_Injection
<1>8. QED
  BY <1>1, <1>7 DEF pairs

\* The image of a finite set under a function.
LEMMA FiniteImage ==
  ASSUME NEW S, IsFiniteSet(S), NEW f, NEW T, T = {f[x] : x \in S}
  PROVE  IsFiniteSet(T)
<1> DEFINE g == [x \in S |-> f[x]]
<1>1. g \in [S -> T] /\ \A y \in T : \E x \in S : g[x] = y
  OBVIOUS
<1>2. g \in Surjection(S, T)
  BY <1>1 DEF Surjection
<1>3. QED
  BY <1>2, FS_Surjection

LEMMA SourceChangesAreFinite ==
  ASSUME NEW old, NEW new, IsList(old), IsList(new)
  PROVE  IsFiniteSet(Releases!SourceChanges(old, new))
<1> DEFINE pairs == SourceMatches(old, new).pairs
           some  == {q \in pairs : SourceDiffs(old, new, q) # {}}
           left  == (DOMAIN old) \ {p.old : p \in pairs}
           right == (DOMAIN new) \ {p.new : p \in pairs}
           f == [p \in some |-> SourceChange("Changed", p.old, p.new)]
           g == [i \in left |-> SourceChange("Removed", i, 0)]
           h == [j \in right |-> SourceChange("Added", 0, j)]
<1>1. IsFiniteSet(pairs)
  BY SourceMatching
<1>2. IsFiniteSet(DOMAIN old) /\ IsFiniteSet(DOMAIN new)
  <2> DEFINE n == Len(old)  k == Len(new)
  <2>1. n \in Nat /\ DOMAIN old = 1 .. n /\ k \in Nat /\ DOMAIN new = 1 .. k
    BY DEF IsList
  <2> HIDE DEF n, k
  <2>2. QED
    BY <2>1, FS_Interval
<1>3. some \subseteq pairs /\ left \subseteq DOMAIN old /\ right \subseteq DOMAIN new
  OBVIOUS
<1>4. Releases!SourceChanges(old, new) = {f[p] : p \in some} \cup {g[i] : i \in left} \cup {h[j] : j \in right}
  <2>1. /\ {f[p] : p \in some} = {SourceChange("Changed", p.old, p.new) : p \in some}
        /\ {g[i] : i \in left} = {SourceChange("Removed", i, 0) : i \in left}
        /\ {h[j] : j \in right} = {SourceChange("Added", 0, j) : j \in right}
    <3> HIDE DEF some, left, right
    <3>1. QED
      BY Zenon
  <2> HIDE DEF f, g, h
  <2>2. QED
    BY <2>1, SourceChangesAre, Zenon
<1> HIDE DEF some, left, right, pairs
<1>5. IsFiniteSet(some) /\ IsFiniteSet(left) /\ IsFiniteSet(right)
  BY <1>1, <1>2, <1>3, FS_Subset
<1>6. IsFiniteSet({f[p] : p \in some}) /\ IsFiniteSet({g[i] : i \in left}) /\ IsFiniteSet({h[j] : j \in right})
  <2> HIDE DEF f, g, h
  <2>1. QED
    BY <1>5, FiniteImage
<1> DEFINE F == {f[p] : p \in some}  G == {g[i] : i \in left}  H == {h[j] : j \in right}
<1> HIDE DEF F, G, H
<1>7. IsFiniteSet(F \cup G)
  BY <1>6, FS_Union DEF F, G
<1>8. IsFiniteSet((F \cup G) \cup H)
  BY <1>6, <1>7, FS_Union DEF H
<1>9. QED
  BY <1>4, <1>8 DEF F, G, H
\* Every rule is in a change or in an unchanged pair.
Unchanged(old, new) == {p \in SourceMatches(old, new).pairs : old[p.old] = new[p.new]}

LEMMA RulesAreListed ==
  ASSUME NEW old, NEW new, IsRelease(old), IsRelease(new)
  PROVE  LET all == Releases!SourceChanges(old, new) \cup Unchanged(old, new)
         IN  /\ \A i \in DOMAIN old : \E x \in all : x.old = i
             /\ \A j \in DOMAIN new : \E x \in all : x.new = j
<1> DEFINE pairs == SourceMatches(old, new).pairs
           changes == Releases!SourceChanges(old, new)
           all == changes \cup Unchanged(old, new)
<1>1. /\ \A p \in pairs : SourceDiffs(old, new, p) # {} => SourceChange("Changed", p.old, p.new) \in changes
      /\ \A i \in (DOMAIN old) \ {p.old : p \in pairs} : SourceChange("Removed", i, 0) \in changes
      /\ \A j \in (DOMAIN new) \ {p.new : p \in pairs} : SourceChange("Added", 0, j) \in changes
  <2> HIDE DEF pairs, changes
  <2>1. changes = {SourceChange("Changed", p.old, p.new) : p \in {q \in pairs : SourceDiffs(old, new, q) # {}}}
                  \cup {SourceChange("Removed", i, 0) : i \in (DOMAIN old) \ {p.old : p \in pairs}}
                  \cup {SourceChange("Added", 0, j) : j \in (DOMAIN new) \ {p.new : p \in pairs}}
    BY SourceChangesAre DEF pairs, changes
  <2>2. QED
    BY <2>1
<1>2. \A k, i, j : SourceChange(k, i, j).old = i /\ SourceChange(k, i, j).new = j
  BY DEF SourceChange
<1>3. IsMatching(old, new, pairs)
  BY SourceMatching DEF IsRelease
<1> HIDE DEF pairs, changes
<1>4. ASSUME NEW p \in pairs
      PROVE  \E x \in all : x.old = p.old /\ x.new = p.new
  <2>1. CASE SourceDiffs(old, new, p) # {}
    BY <1>1, <1>2, <2>1
  <2>2. CASE SourceDiffs(old, new, p) = {}
    <3>1. p.old \in DOMAIN old /\ p.new \in DOMAIN new
      BY <1>3 DEF IsMatching
    <3>2. \A f \in Releases!FingerprintFields : old[p.old][f] = new[p.new][f]
      BY <2>2 DEF SourceDiffs, Releases!FieldDiffs
    <3>3. /\ old[p.old] = [f \in Releases!FingerprintFields |-> old[p.old][f]]
          /\ new[p.new] = [f \in Releases!FingerprintFields |-> new[p.new][f]]
      BY <3>1 DEF IsRelease
    <3>4. [f \in Releases!FingerprintFields |-> old[p.old][f]] = [f \in Releases!FingerprintFields |-> new[p.new][f]]
      BY <3>2, Zenon
    <3>5. old[p.old] = new[p.new]
      BY <3>3, <3>4, Zenon
    <3>6. p \in all
      BY <3>5 DEF Unchanged, pairs
    <3>7. QED
      BY <3>6
  <2>3. QED
    BY <2>1, <2>2
<1>5. ASSUME NEW i \in DOMAIN old
      PROVE  \E x \in all : x.old = i
  <2>1. CASE \E p \in pairs : p.old = i
    BY <1>4, <2>1
  <2>2. CASE i \notin {p.old : p \in pairs}
    BY <1>1, <1>2, <2>2
  <2>3. QED
    BY <2>1, <2>2
<1>6. ASSUME NEW j \in DOMAIN new
      PROVE  \E x \in all : x.new = j
  <2>1. CASE \E p \in pairs : p.new = j
    BY <1>4, <2>1
  <2>2. CASE j \notin {p.new : p \in pairs}
    BY <1>1, <1>2, <2>2
  <2>3. QED
    BY <2>1, <2>2
<1>7. QED
  BY <1>5, <1>6 DEF changes

\* As many as there are numbers below, each with one of its own.
LEMMA AtLeastAsMany ==
  ASSUME NEW S, IsFiniteSet(S), NEW n \in Nat, NEW name, \A i \in 1 .. n : \E x \in S : name[x] = i
  PROVE  n <= Cardinality(S)
<1> DEFINE D == 1 .. n
           pick == [i \in D |-> CHOOSE x \in S : name[x] = i]
<1>1. \A i \in D : pick[i] \in S /\ name[pick[i]] = i
  OBVIOUS
<1>2. pick \in [D -> S] /\ \A i, j \in D : pick[i] = pick[j] => i = j
  BY <1>1
<1> HIDE DEF pick
<1>3. pick \in Injection(D, S)
  BY <1>2 DEF Injection, IsInjective
<1>4. Cardinality(D) <= Cardinality(S) /\ IsFiniteSet(D)
  BY <1>3, FS_Injection
<1>5. Cardinality(D) = n
  BY FS_Interval
<1>6. QED
  BY <1>4, <1>5

\* A rule with a text new to the release is listed with work to do, and the counts
\* of listed and unchanged rules cover both releases.
LEMMA NewTexts ==
  ASSUME NEW old, NEW new, IsRelease(old), IsRelease(new), NEW checks
  PROVE  Releases!NewTextsAreListed(old, new, checks)
<1> DEFINE changes == Releases!SourceChanges(old, new)
           same == Unchanged(old, new)
           all == changes \cup same
           pairs == SourceMatches(old, new).pairs
<1>1. IsList(old) /\ IsList(new)
  BY DEF IsRelease
<1>2. IsFiniteSet(changes) /\ IsFiniteSet(same)
  <2>1. same \subseteq pairs
    BY DEF Unchanged
  <2>2. QED
    BY <1>1, <2>1, SourceChangesAreFinite, SourceMatching, FS_Subset
<1>3. Releases!UnchangedCount(old, new) = Cardinality(same)
  <2>1. Releases!MatchRules(Releases!ComparedBy, old, new).pairs = pairs
    BY DEF SourceMatches, Releases!ComparedBy
  <2>2. Releases!UnchangedCount(old, new) = Releases!Cardinality({p \in pairs : old[p.old] = new[p.new]})
    BY <2>1, Zenon DEF Releases!UnchangedCount
  <2>3. QED
    BY <2>2, ReleaseCount DEF Unchanged
<1>4. Cardinality(all) <= Cardinality(changes) + Cardinality(same) /\ IsFiniteSet(all)
  <2> HIDE DEF changes, same
  <2>1. IsFiniteSet(all) /\ Cardinality(all) = Cardinality(changes) + Cardinality(same) - Cardinality(changes \cap same)
    BY <1>2, FS_Union
  <2>2. IsFiniteSet(changes \cap same)
    BY <1>2, FS_Subset
  <2>3. /\ Cardinality(changes) \in Nat /\ Cardinality(same) \in Nat
        /\ Cardinality(changes \cap same) \in Nat
    BY <1>2, <2>2, FS_CardinalityType
  <2>4. QED
    BY <2>1, <2>3
<1>5. /\ \A i \in DOMAIN old : \E x \in all : x.old = i
      /\ \A j \in DOMAIN new : \E x \in all : x.new = j
  BY RulesAreListed
<1> DEFINE olds == [x \in all |-> x.old]
           news == [x \in all |-> x.new]
<1> HIDE DEF all
<1>6. Len(old) <= Cardinality(all)
  <2> DEFINE n == Len(old)
  <2>1. n \in Nat /\ \A i \in 1 .. n : \E x \in all : olds[x] = i
    BY <1>1, <1>5 DEF IsList
  <2> HIDE DEF n, olds
  <2>2. n <= Cardinality(all)
    BY <1>4, <2>1, AtLeastAsMany
  <2>3. QED
    BY <2>2 DEF n
<1>7. Len(new) <= Cardinality(all)
  <2> DEFINE n == Len(new)
  <2>1. n \in Nat /\ \A i \in 1 .. n : \E x \in all : news[x] = i
    BY <1>1, <1>5 DEF IsList
  <2> HIDE DEF n, news
  <2>2. n <= Cardinality(all)
    BY <1>4, <2>1, AtLeastAsMany
  <2>3. QED
    BY <2>2 DEF n
<1>8. Cardinality(all) \in Nat /\ Cardinality(changes) \in Nat /\ Cardinality(same) \in Nat /\ Len(old) \in Nat /\ Len(new) \in Nat
  BY <1>1, <1>2, <1>4, FS_CardinalityType DEF IsList
<1>9. Releases!Cardinality(changes) + Releases!UnchangedCount(old, new) >= IF Len(old) > Len(new) THEN Len(old) ELSE Len(new)
  <2>1. Releases!Cardinality(changes) = Cardinality(changes)
    BY ReleaseCount
  <2> HIDE DEF changes, same
  <2>2. QED
    BY <1>3, <1>4, <1>6, <1>7, <1>8, <2>1
<1>10. ASSUME NEW j \in DOMAIN new, \A i \in DOMAIN old : old[i].check # new[j].check
       PROVE  \E c \in changes : /\ c.new = j
                                 /\ LET g == Releases!GuidanceOf(c, old, new, checks) IN g.add \/ g.revalidate \/ g.remap
  <2>1. changes = {SourceChange("Changed", p.old, p.new) : p \in {q \in pairs : SourceDiffs(old, new, q) # {}}}
                  \cup {SourceChange("Removed", i, 0) : i \in (DOMAIN old) \ {p.old : p \in pairs}}
                  \cup {SourceChange("Added", 0, i) : i \in (DOMAIN new) \ {p.new : p \in pairs}}
    BY SourceChangesAre
  <2>2. IsMatching(old, new, pairs)
    BY <1>1, SourceMatching
  <2>3. \A c : /\ Releases!GuidanceOf(c, old, new, checks).add = (c.kind = "Added")
               /\ Releases!GuidanceOf(c, old, new, checks).remap
                    = (c.kind = "Changed" /\ Releases!FindMatchingCheck(Releases!RulesOf(c, old, new), checks) = Releases!Absent)
               /\ Releases!GuidanceOf(c, old, new, checks).revalidate
                    = (c.kind = "Changed" /\ Releases!FindMatchingCheck(Releases!RulesOf(c, old, new), checks) # Releases!Absent
                       /\ Releases!FieldDiffs(Releases!Guidance, old[c.old], new[c.new]) # {})
    BY DEF Releases!GuidanceOf
  <2>4. \A k, i, n : SourceChange(k, i, n).kind = k /\ SourceChange(k, i, n).old = i /\ SourceChange(k, i, n).new = n
    BY DEF SourceChange
  <2> HIDE DEF changes, pairs
  <2>5. CASE j \notin {p.new : p \in pairs}
    <3>1. SourceChange("Added", 0, j) \in changes
      BY <2>1, <2>5
    <3> DEFINE c == SourceChange("Added", 0, j)
    <3>2. c.kind = "Added" /\ c.new = j
      BY <2>4
    <3> HIDE DEF c
    <3>3. Releases!GuidanceOf(c, old, new, checks).add
      BY <2>3, <3>2
    <3>4. c \in changes
      BY <3>1 DEF c
    <3>5. QED
      BY <3>2, <3>3, <3>4
  <2>6. ASSUME NEW p \in pairs, p.new = j
        PROVE  \E c \in changes : /\ c.new = j
                                  /\ LET g == Releases!GuidanceOf(c, old, new, checks) IN g.add \/ g.revalidate \/ g.remap
    <3>1. old[p.old].check # new[p.new].check
      BY <1>10, <2>2, <2>6 DEF IsMatching
    <3>2. "check" \in SourceDiffs(old, new, p) /\ "check" \in Releases!FieldDiffs(Releases!Guidance, old[p.old], new[p.new])
      BY <3>1 DEF SourceDiffs, Releases!FieldDiffs, Releases!FingerprintFields, Releases!Guidance
    <3>3. SourceChange("Changed", p.old, p.new) \in changes
      BY <2>1, <3>2
    <3> DEFINE c == SourceChange("Changed", p.old, p.new)
    <3>4. c.kind = "Changed" /\ c.old = p.old /\ c.new = j
      BY <2>4, <2>6
    <3> HIDE DEF c
    <3>5. Releases!GuidanceOf(c, old, new, checks).revalidate \/ Releases!GuidanceOf(c, old, new, checks).remap
      BY <2>3, <2>6, <3>2, <3>4
    <3>6. c \in changes
      BY <3>3 DEF c
    <3>7. QED
      BY <3>4, <3>5, <3>6
  <2>7. QED
    BY <2>5, <2>6
<1>11. QED
  BY <1>9, <1>10 DEF Releases!NewTextsAreListed, changes

\* The four promises together.
LEMMA ReleaseIsReviewed ==
  ASSUME IsCase(case)
  PROVE  ReleaseReviewIsComplete
<1>1. SUFFICES ASSUME Answered("releases")
               PROVE  /\ Releases!RulesAreAccountedFor(case.old, case.new)
                      /\ Releases!NewProceduresAreReviewed(case.old, case.new, case.checks)
                      /\ Releases!LostRulesAreReported(case.old, case.new, case.checks)
                      /\ Releases!NewTextsAreListed(case.old, case.new, case.checks)
  BY DEF ReleaseReviewIsComplete
<1>2. case.old # None /\ IsRelease(case.old) /\ IsRelease(case.new) /\ IsList(case.checks)
  BY <1>1 DEF Answered, IsCase
<1>3. IsList(case.old) /\ IsList(case.new)
  BY <1>2 DEF IsRelease
<1>4. QED
  BY <1>2, <1>3, RulesAccounted, NewProcedures, LostRules, NewTexts
--------------------------------------------------------------------------------
(* PLANS.  What the policy approves is approved unchanged again.               *)
LEMMA Approval ==
  ASSUME PolicyAssumption, NEW text
  PROVE  /\ Readiness!Validate(text) \in Registry \/ Readiness!Validate(text) = <<>>
         /\ Readiness!Validate(text) \in Registry =>
              /\ Readiness!Folded(Readiness!Validate(text)) = Readiness!Folded(Readiness!Spaced(Readiness!Words(text)))
              /\ Readiness!Validate(Readiness!Validate(text)) = Readiness!Validate(text)
         /\ Readiness!IsAllowed(text) <=> Readiness!Validate(text) \in Registry
         /\ \A c \in Registry : Readiness!Validate(c) = c
<1> DEFINE normal(t) == Readiness!Spaced(Readiness!Words(t))
           known(t)  == {c \in Registry : Readiness!Folded(c) = Readiness!Folded(normal(t))}
           refused(t) == \/ Readiness!ToSet(t) \cap Controls # {} \/ normal(t) = <<>>
                         \/ Readiness!Chained(normal(t)) \/ known(t) = {}
<1>1. ASSUME NEW t
      PROVE  Readiness!Validate(t) = IF refused(t) THEN <<>> ELSE CHOOSE c \in known(t) : TRUE
  BY DEF Readiness!Validate, Readiness!Rejected
<1>2. \A t : ~ refused(t) => (CHOOSE c \in known(t) : TRUE) \in known(t)
  <2> HIDE DEF known
  <2>1. QED
    OBVIOUS
<1>3. \A c \in Registry : Readiness!Validate(c) = c
  <2> SUFFICES ASSUME NEW c \in Registry
               PROVE  Readiness!Validate(c) = c
    OBVIOUS
  <2>1. normal(c) = c /\ c # <<>> /\ Readiness!ToSet(c) \cap Controls = {} /\ ~ Readiness!Chained(c)
    BY DEF PolicyAssumption
  <2> HIDE DEF normal
  <2>2. known(c) = {c}
    BY <2>1, Zenon DEF PolicyAssumption
  <2> HIDE DEF known
  <2>3. ~ refused(c)
    BY <2>1, <2>2
  <2>4. QED
    BY <1>1, <1>2, <2>2, <2>3
<1>4. <<>> \notin Registry
  BY Zenon DEF PolicyAssumption
<1> HIDE DEF refused, normal
<1>5. CASE refused(text)
  BY <1>1, <1>3, <1>4, <1>5 DEF Readiness!IsAllowed, Readiness!Rejected
<1>6. CASE ~ refused(text)
  <2>1. Readiness!Validate(text) \in known(text)
    BY <1>1, <1>2, <1>6
  <2>2. /\ Readiness!Validate(text) \in Registry
        /\ Readiness!Folded(Readiness!Validate(text)) = Readiness!Folded(normal(text))
    BY <2>1
  <2>3. QED
    BY <1>3, <1>4, <2>2 DEF Readiness!IsAllowed, Readiness!Rejected, normal
<1>7. QED
  BY <1>5, <1>6

\* A value carried from step to step.
Stepping(n, P, init, step) == n \in Nat /\ init \in P /\ step \in [(1 .. n) \X P -> P]
Carried(n, P, init, step, f) == f \in [0 .. n -> P] /\ f[0] = init /\ \A k \in 1 .. n : f[k] = step[<<k, f[k - 1]>>]

LEMMA Iterated ==
  ASSUME NEW n, NEW P, NEW init, NEW step, Stepping(n, P, init, step)
  PROVE  \E f : Carried(n, P, init, step, f)
<1>0. n \in Nat /\ init \in P /\ step \in [(1 .. n) \X P -> P]
  BY DEF Stepping
<1> DEFINE Runs(f, m) == f \in [0 .. m -> P] /\ f[0] = init /\ \A k \in 1 .. m : f[k] = step[<<k, f[k - 1]>>]
           bad == {m \in 0 .. n : ~ \E f : Runs(f, m)}
<1>1. SUFFICES ASSUME bad # {}
               PROVE  FALSE
  <2>1. n \notin bad /\ n \in 0 .. n
    BY <1>0, <1>1
  <2>2. QED
    BY <2>1 DEF Carried
<1>2. PICK m \in bad : \A j \in bad : m <= j
  <2>1. bad \in SUBSET Nat
    BY <1>0
  <2> HIDE DEF bad
  <2>2. QED
    BY <1>1, <2>1, FirstOne
<1>3. m \in 0 .. n /\ ~ \E f : Runs(f, m)
  OBVIOUS
<1>4. m # 0
  <2>1. Runs([k \in 0 .. 0 |-> init], 0)
    BY <1>0
  <2>2. QED
    BY <1>3, <2>1
<1>5. m - 1 \in 0 .. n /\ m - 1 \notin bad
  <2> HIDE DEF bad
  <2>1. QED
    BY <1>0, <1>2, <1>3, <1>4
<1>6. PICK f : Runs(f, m - 1)
  BY <1>5
<1> HIDE DEF bad
<1> DEFINE g == [k \in 0 .. m |-> IF k = m THEN step[<<m, f[m - 1]>>] ELSE f[k]]
<1>7. f[m - 1] \in P /\ step[<<m, f[m - 1]>>] \in P
  <2>1. f[m - 1] \in P /\ m \in 1 .. n
    BY <1>0, <1>3, <1>4, <1>6
  <2>2. <<m, f[m - 1]>> \in (1 .. n) \X P
    BY <2>1
  <2>3. QED
    BY <1>0, <2>1, <2>2
<1>8. g \in [0 .. m -> P] /\ g[0] = init
  BY <1>0, <1>3, <1>4, <1>6, <1>7
<1>9. ASSUME NEW k \in 1 .. m
      PROVE  g[k] = step[<<k, g[k - 1]>>]
  <2>0. k - 1 \in 0 .. m /\ k - 1 # m
    BY <1>0, <1>3
  <2>1. g[k - 1] = f[k - 1]
    BY <2>0, Zenon
  <2>2. CASE k = m
    <3>1. g[k] = step[<<m, f[m - 1]>>]
      BY <1>0, <1>3, <2>2
    <3>2. QED
      BY <2>1, <2>2, <3>1, Zenon
  <2>3. CASE k # m
    BY <1>0, <1>3, <1>6, <2>1, <2>3
  <2>4. QED
    BY <2>2, <2>3
<1> HIDE DEF g
<1>10. QED
  BY <1>3, <1>8, <1>9
\* The commands of one check, added one after the other.
Added(plan, text) == IF Readiness!Contains(plan, text) THEN plan ELSE Append(plan, text)

LEMMA AddingEach ==
  ASSUME NEW X, NEW plan \in Seq(X), NEW commands, IsList(commands), \A k \in DOMAIN commands : commands[k] \in X
  PROVE  \E f \in [0 .. Len(commands) -> Seq(X)] :
           /\ f[0] = plan /\ \A k \in 1 .. Len(commands) : f[k] = Added(f[k - 1], commands[k])
           /\ Readiness!AddEach(plan, commands) = f[Len(commands)]
<1> DEFINE n == Len(commands)
           step == [x \in (1 .. n) \X Seq(X) |-> Added(x[2], commands[x[1]])]
           Means(f) == f = [k \in 0 .. n |-> IF k = 0 THEN plan
                                             ELSE IF Readiness!Contains(f[k - 1], commands[k]) THEN f[k - 1]
                                             ELSE Append(f[k - 1], commands[k])]
           after == CHOOSE f : Means(f)
<1>1. n \in Nat /\ DOMAIN commands = 1 .. n
  BY DEF IsList
<1> HIDE DEF n
<1>2. ASSUME NEW x \in (1 .. n) \X Seq(X)
      PROVE  Added(x[2], commands[x[1]]) \in Seq(X)
  <2>1. x[2] \in Seq(X) /\ commands[x[1]] \in X
    BY <1>1
  <2>2. Append(x[2], commands[x[1]]) \in Seq(X)
    BY <2>1
  <2>3. QED
    BY <2>1, <2>2 DEF Added
<1>3. step \in [(1 .. n) \X Seq(X) -> Seq(X)]
  BY <1>2
<1>4. PICK g \in [0 .. n -> Seq(X)] : g[0] = plan /\ \A k \in 1 .. n : g[k] = step[<<k, g[k - 1]>>]
  <2>1. Stepping(n, Seq(X), plan, step)
    BY <1>1, <1>3, Zenon DEF Stepping
  <2> HIDE DEF step
  <2>2. PICK g : Carried(n, Seq(X), plan, step, g)
    BY <2>1, Iterated
  <2>3. QED
    BY <2>2, Zenon DEF Carried
<1>5. Means(g)
  <2>1. ASSUME NEW k \in 0 .. n, k # 0
        PROVE  g[k] = Added(g[k - 1], commands[k])
    <3>1. k \in 1 .. n /\ k - 1 \in 0 .. n
      BY <1>1, <2>1
    <3>2. g[k - 1] \in Seq(X)
      BY <1>4, <3>1
    <3>3. step[<<k, g[k - 1]>>] = Added(g[k - 1], commands[k])
      BY <3>1, <3>2
    <3>4. QED
      BY <1>4, <3>1, <3>3, Zenon
  <2>2. \A k \in 0 .. n : g[k] = IF k = 0 THEN plan
                                 ELSE IF Readiness!Contains(g[k - 1], commands[k]) THEN g[k - 1]
                                 ELSE Append(g[k - 1], commands[k])
    BY <1>4, <2>1, Zenon DEF Added
  <2>3. g = [k \in 0 .. n |-> g[k]]
    BY <1>4
  <2>4. QED
    BY <2>2, <2>3, Zenon
<1>6. Means(after)
  <2> HIDE DEF Means
  <2>1. QED
    BY <1>5
<1>7. DOMAIN after = 0 .. n /\ after[0] = plan /\ \A k \in 1 .. n : after[k] = Added(after[k - 1], commands[k])
  <2> DEFINE body(k) == IF k = 0 THEN plan
                        ELSE IF Readiness!Contains(after[k - 1], commands[k]) THEN after[k - 1]
                        ELSE Append(after[k - 1], commands[k])
  <2>1. after = [k \in 0 .. n |-> body(k)]
    BY <1>6, Zenon
  <2> HIDE DEF after, body
  <2>2. DOMAIN after = 0 .. n /\ \A k \in 0 .. n : after[k] = body(k)
    BY <2>1
  <2>3. body(0) = plan
    BY DEF body
  <2>4. ASSUME NEW k \in 1 .. n
        PROVE  body(k) = Added(after[k - 1], commands[k])
    <3>1. k # 0
      BY <1>1
    <3>2. QED
      BY <3>1, Zenon DEF body, Added
  <2>5. 0 \in 0 .. n /\ \A k \in 1 .. n : k \in 0 .. n
    BY <1>1
  <2>6. QED
    BY <2>2, <2>3, <2>4, <2>5
<1>8. Readiness!AddEach(plan, commands) = after[n]
  BY Zenon DEF Readiness!AddEach, n
<1> HIDE DEF after
<1>9. after \in [0 .. n -> Seq(X)]
  <2>1. ASSUME NEW bad, bad = {k \in 0 .. n : after[k] \notin Seq(X)}, bad # {}
        PROVE  FALSE
    <3>1. bad \in SUBSET Nat
      BY <2>1
    <3>2. PICK k \in bad : \A j \in bad : k <= j
      BY <2>1, <3>1, FirstOne
    <3>3. k \in 0 .. n /\ after[k] \notin Seq(X)
      BY <2>1
    <3>4. k \in 1 .. n
      BY <1>1, <1>7, <3>3
    <3>5. k - 1 \in 0 .. n /\ k - 1 \notin bad
      BY <1>1, <3>2, <3>4
    <3>6. after[k - 1] \in Seq(X)
      BY <2>1, <3>5
    <3>7. Append(after[k - 1], commands[k]) \in Seq(X)
      <4>1. commands[k] \in X
        BY <1>1, <3>4
      <4>2. QED
        BY <3>6, <4>1, AppendProperties
    <3>8. after[k] \in Seq(X)
      BY <1>7, <3>4, <3>6, <3>7 DEF Added
    <3>9. QED
      BY <3>3, <3>8
  <2>2. \A k \in 0 .. n : after[k] \in Seq(X)
    BY <2>1
  <2>3. after = [k \in 0 .. n |-> after[k]]
    <3>1. Means(after)
      BY <1>6
    <3>2. QED
      BY <3>1, <1>7
  <2>4. QED
    BY <2>2, <2>3
<1>10. QED
  BY <1>7, <1>8, <1>9 DEF n
\* A plan: some commands, each once, a given one first.
IsPlanOf(X, plan, first) ==
  plan \in Seq(X) /\ Len(plan) > 0 /\ plan[1] = first /\ Readiness!IsInjective(plan)

\* Adding a command keeps a plan a plan, with the command in it.
LEMMA AddedMeans ==
  ASSUME NEW X, NEW plan, NEW first, IsPlanOf(X, plan, first), NEW c \in X
  PROVE  /\ IsPlanOf(X, Added(plan, c), first)
         /\ c \in Readiness!ToSet(Added(plan, c)) /\ Readiness!ToSet(plan) \subseteq Readiness!ToSet(Added(plan, c))
<1>1. /\ plan \in Seq(X) /\ Len(plan) > 0 /\ plan[1] = first
      /\ \A a, b \in DOMAIN plan : plan[a] = plan[b] => a = b
  BY DEF IsPlanOf, Readiness!IsInjective
<1>2. Len(plan) \in Nat /\ DOMAIN plan = 1 .. Len(plan)
  BY <1>1, LenProperties
<1>3. CASE Readiness!Contains(plan, c)
  <2>1. Added(plan, c) = plan
    BY <1>3 DEF Added
  <2>2. c \in Readiness!ToSet(plan)
    BY <1>2, <1>3 DEF Readiness!Contains, Readiness!ToSet
  <2>3. QED
    BY <2>1, <2>2
<1>4. CASE ~ Readiness!Contains(plan, c)
  <2> DEFINE q == Append(plan, c)
             n == Len(plan)
  <2>1. Added(plan, c) = q
    BY <1>4 DEF Added
  <2>2. /\ q \in Seq(X) /\ Len(q) = n + 1 /\ DOMAIN q = 1 .. n + 1
        /\ \A i \in 1 .. n : q[i] = plan[i]
        /\ q[n + 1] = c
    BY <1>1, <1>2, AppendProperties, LenProperties
  <2>3. \A i \in 1 .. n : plan[i] # c
    BY <1>4 DEF Readiness!Contains
  <2> HIDE DEF q, n
  <2>4. n \in Nat /\ n > 0 /\ DOMAIN plan = 1 .. n
    BY <1>1, <1>2 DEF n
  <2>5. ASSUME NEW a \in DOMAIN q, NEW b \in DOMAIN q, q[a] = q[b]
        PROVE  a = b
    <3>1. CASE a \in 1 .. n /\ b \in 1 .. n
      BY <1>1, <2>2, <2>4, <2>5, <3>1
    <3>2. CASE a = n + 1 \/ b = n + 1
      BY <2>2, <2>3, <2>4, <2>5, <3>2
    <3>3. QED
      BY <2>2, <2>4, <3>1, <3>2
  <2>6. q[1] = first /\ Len(q) > 0
    BY <1>1, <2>2, <2>4
  <2>7. IsPlanOf(X, q, first)
    BY <2>2, <2>5, <2>6 DEF IsPlanOf, Readiness!IsInjective
  <2>8. c \in Readiness!ToSet(q) /\ Readiness!ToSet(plan) \subseteq Readiness!ToSet(q)
    <3>1. n + 1 \in DOMAIN q /\ \A i \in DOMAIN plan : i \in DOMAIN q /\ q[i] = plan[i]
      BY <2>2, <2>4
    <3>2. QED
      BY <2>2, <3>1 DEF Readiness!ToSet
  <2>9. QED
    BY <2>1, <2>7, <2>8
<1>5. QED
  BY <1>3, <1>4

\* So does adding those of a check, one after the other.
LEMMA AddEachMeans ==
  ASSUME NEW X, NEW plan, NEW first, IsPlanOf(X, plan, first), NEW commands, IsList(commands),
         \A k \in DOMAIN commands : commands[k] \in X
  PROVE  /\ IsPlanOf(X, Readiness!AddEach(plan, commands), first)
         /\ Readiness!ToSet(plan) \subseteq Readiness!ToSet(Readiness!AddEach(plan, commands))
         /\ \A k \in DOMAIN commands : commands[k] \in Readiness!ToSet(Readiness!AddEach(plan, commands))
<1> DEFINE n == Len(commands)
<1>1. n \in Nat /\ DOMAIN commands = 1 .. n
  BY DEF IsList
<1>2. PICK f : /\ f[0] = plan /\ \A k \in 1 .. n : f[k] = Added(f[k - 1], commands[k])
               /\ Readiness!AddEach(plan, commands) = f[n]
  <2>1. plan \in Seq(X)
    BY DEF IsPlanOf
  <2>2. QED
    BY <2>1, AddingEach
<1> HIDE DEF n
<1> DEFINE Holds(k) == /\ IsPlanOf(X, f[k], first) /\ Readiness!ToSet(plan) \subseteq Readiness!ToSet(f[k])
                       /\ \A l \in 1 .. k : commands[l] \in Readiness!ToSet(f[k])
           bad == {k \in 0 .. n : ~ Holds(k)}
<1>3. ASSUME bad # {}
      PROVE  FALSE
  <2>1. bad \in SUBSET Nat
    BY <1>1
  <2>2. PICK k \in bad : \A j \in bad : k <= j
    <3> HIDE DEF bad
    <3>1. QED
      BY <1>3, <2>1, FirstOne
  <2>3. k \in 0 .. n /\ ~ Holds(k)
    OBVIOUS
  <2>4. Holds(0)
    BY <1>2
  <2>5. k \in 1 .. n
    <3> HIDE DEF Holds
    <3>1. QED
      BY <1>1, <2>3, <2>4
  <2>6. k - 1 \in 0 .. n /\ k - 1 \notin bad
    <3> HIDE DEF bad
    <3>1. QED
      BY <1>1, <2>2, <2>5
  <2>7. Holds(k - 1)
    BY <2>6
  <2> HIDE DEF bad
  <2>8. f[k] = Added(f[k - 1], commands[k]) /\ commands[k] \in X
    BY <1>1, <1>2, <2>5
  <2> DEFINE p == f[k - 1]
  <2>9. IsPlanOf(X, p, first)
    BY <2>7
  <2> HIDE DEF p
  <2>10. /\ IsPlanOf(X, Added(p, commands[k]), first)
         /\ commands[k] \in Readiness!ToSet(Added(p, commands[k]))
         /\ Readiness!ToSet(p) \subseteq Readiness!ToSet(Added(p, commands[k]))
    BY <2>8, <2>9, AddedMeans
  <2>11. \A l \in 1 .. k : l = k \/ l \in 1 .. k - 1
    BY <1>1, <2>5
  <2>12. Holds(k)
    BY <2>7, <2>8, <2>10, <2>11 DEF p
  <2>13. QED
    BY <2>3, <2>12
<1>4. Holds(n)
  <2>1. n \in 0 .. n /\ n \notin bad
    BY <1>1, <1>3
  <2> HIDE DEF Holds
  <2>2. QED
    BY <2>1
<1>5. QED
  BY <1>1, <1>2, <1>4

\* The checks of a library, one after the other.
LEMMA PlanningEach ==
  ASSUME NEW X, Readiness!Validate(Pagination) \in X, NEW asked, IsList(asked),
         \A i \in DOMAIN asked : IsList(asked[i]) /\ \A k \in DOMAIN asked[i] : asked[i][k] \in X
  PROVE  \E f : /\ f[0] = <<Readiness!Validate(Pagination)>>
                /\ \A i \in 1 .. Len(asked) : f[i] = Readiness!AddEach(f[i - 1], asked[i])
                /\ Readiness!PlanOf(asked) = f[Len(asked)]
<1> DEFINE n == Len(asked)
           start == <<Readiness!Validate(Pagination)>>
           step == [x \in (1 .. n) \X Seq(X) |-> Readiness!AddEach(x[2], asked[x[1]])]
           Means(f) == f = [i \in 0 .. n |-> IF i = 0 THEN <<Readiness!Validate(Pagination)>>
                                             ELSE Readiness!AddEach(f[i - 1], asked[i])]
           after == CHOOSE f : Means(f)
<1>1. n \in Nat /\ DOMAIN asked = 1 .. n /\ start \in Seq(X)
  BY DEF IsList
<1> HIDE DEF n
<1>2. ASSUME NEW x \in (1 .. n) \X Seq(X)
      PROVE  Readiness!AddEach(x[2], asked[x[1]]) \in Seq(X)
  <2> DEFINE p == x[2]  commands == asked[x[1]]
  <2>1. p \in Seq(X) /\ IsList(commands) /\ \A k \in DOMAIN commands : commands[k] \in X
    BY <1>1
  <2> HIDE DEF p, commands
  <2>2. PICK f \in [0 .. Len(commands) -> Seq(X)] : Readiness!AddEach(p, commands) = f[Len(commands)]
    BY <2>1, AddingEach
  <2>3. Len(commands) \in 0 .. Len(commands)
    BY <2>1 DEF IsList
  <2>4. QED
    BY <2>2, <2>3 DEF p, commands
<1>3. step \in [(1 .. n) \X Seq(X) -> Seq(X)]
  BY <1>2
<1>4. PICK g \in [0 .. n -> Seq(X)] : g[0] = start /\ \A i \in 1 .. n : g[i] = step[<<i, g[i - 1]>>]
  <2>1. Stepping(n, Seq(X), start, step)
    BY <1>1, <1>3, Zenon DEF Stepping
  <2> HIDE DEF step
  <2>2. PICK g : Carried(n, Seq(X), start, step, g)
    BY <2>1, Iterated
  <2>3. QED
    BY <2>2, Zenon DEF Carried
<1>5. Means(g)
  <2>1. ASSUME NEW i \in 0 .. n, i # 0
        PROVE  g[i] = Readiness!AddEach(g[i - 1], asked[i])
    <3>1. i \in 1 .. n /\ i - 1 \in 0 .. n
      BY <1>1, <2>1
    <3>2. g[i - 1] \in Seq(X)
      BY <1>4, <3>1
    <3>3. step[<<i, g[i - 1]>>] = Readiness!AddEach(g[i - 1], asked[i])
      BY <3>1, <3>2
    <3>4. QED
      BY <1>4, <3>1, <3>3, Zenon
  <2>2. \A i \in 0 .. n : g[i] = IF i = 0 THEN start ELSE Readiness!AddEach(g[i - 1], asked[i])
    BY <1>4, <2>1, Zenon
  <2>3. g = [i \in 0 .. n |-> g[i]]
    BY <1>4
  <2>4. QED
    BY <2>2, <2>3, Zenon
<1>6. Means(after)
  <2> HIDE DEF Means
  <2>1. QED
    BY <1>5
<1>7. after[0] = start /\ \A i \in 1 .. n : after[i] = Readiness!AddEach(after[i - 1], asked[i])
  <2> DEFINE body(i) == IF i = 0 THEN start ELSE Readiness!AddEach(after[i - 1], asked[i])
  <2>1. after = [i \in 0 .. n |-> body(i)]
    BY <1>6, Zenon
  <2> HIDE DEF after, body
  <2>2. \A i \in 0 .. n : after[i] = body(i)
    BY <2>1
  <2>3. body(0) = start
    BY DEF body
  <2>4. ASSUME NEW i \in 1 .. n
        PROVE  body(i) = Readiness!AddEach(after[i - 1], asked[i])
    <3>1. i # 0
      BY <1>1
    <3>2. QED
      BY <3>1, Zenon DEF body
  <2>5. 0 \in 0 .. n /\ \A i \in 1 .. n : i \in 0 .. n
    BY <1>1
  <2> HIDE DEF start
  <2>6. QED
    BY <2>2, <2>3, <2>4, <2>5
<1>8. Readiness!PlanOf(asked) = after[n]
  BY Zenon DEF Readiness!PlanOf, n
<1> HIDE DEF after
<1>9. QED
  BY <1>7, <1>8 DEF n

\* The plan of a library is a plan and has all the library asks for.
LEMMA PlanMeans ==
  ASSUME PolicyAssumption, NEW X, Registry \subseteq X, NEW asked, IsList(asked),
         \A i \in DOMAIN asked : IsList(asked[i]) /\ \A k \in DOMAIN asked[i] : asked[i][k] \in X
  PROVE  /\ IsPlanOf(X, Readiness!PlanOf(asked), Pagination)
         /\ \A i \in DOMAIN asked : \A k \in DOMAIN asked[i] : asked[i][k] \in Readiness!ToSet(Readiness!PlanOf(asked))
<1> DEFINE n == Len(asked)
<1>1. n \in Nat /\ DOMAIN asked = 1 .. n
  BY DEF IsList
<1>2. Readiness!Validate(Pagination) = Pagination /\ Pagination \in X
  <2>1. Pagination \in Registry
    BY DEF PolicyAssumption
  <2>2. QED
    BY <2>1, Approval
<1>3. PICK f : /\ f[0] = <<Pagination>> /\ \A i \in 1 .. n : f[i] = Readiness!AddEach(f[i - 1], asked[i])
               /\ Readiness!PlanOf(asked) = f[n]
  BY <1>2, PlanningEach
<1> HIDE DEF n
<1> DEFINE Holds(i) == /\ IsPlanOf(X, f[i], Pagination)
                       /\ \A l \in 1 .. i : \A k \in DOMAIN asked[l] : asked[l][k] \in Readiness!ToSet(f[i])
           bad == {i \in 0 .. n : ~ Holds(i)}
<1>4. ASSUME bad # {}
      PROVE  FALSE
  <2>1. bad \in SUBSET Nat
    BY <1>1
  <2>2. PICK i \in bad : \A j \in bad : i <= j
    <3> HIDE DEF bad
    <3>1. QED
      BY <1>4, <2>1, FirstOne
  <2>3. i \in 0 .. n /\ ~ Holds(i)
    OBVIOUS
  <2>4. Holds(0)
    <3>1. IsPlanOf(X, <<Pagination>>, Pagination)
      BY <1>2 DEF IsPlanOf, Readiness!IsInjective
    <3>2. QED
      BY <1>3, <3>1
  <2>5. i \in 1 .. n
    <3> HIDE DEF Holds
    <3>1. QED
      BY <1>1, <2>3, <2>4
  <2>6. i - 1 \in 0 .. n /\ i - 1 \notin bad
    <3> HIDE DEF bad
    <3>1. QED
      BY <1>1, <2>2, <2>5
  <2>7. Holds(i - 1)
    BY <2>6
  <2> HIDE DEF bad
  <2>8. f[i] = Readiness!AddEach(f[i - 1], asked[i]) /\ IsList(asked[i]) /\ \A k \in DOMAIN asked[i] : asked[i][k] \in X
    BY <1>1, <1>3, <2>5
  <2> DEFINE p == f[i - 1]  commands == asked[i]  q == Readiness!AddEach(p, commands)
  <2>9. IsPlanOf(X, p, Pagination) /\ IsList(commands) /\ \A k \in DOMAIN commands : commands[k] \in X
    BY <2>7, <2>8
  <2> HIDE DEF p, commands
  <2>10. /\ IsPlanOf(X, q, Pagination) /\ Readiness!ToSet(p) \subseteq Readiness!ToSet(q)
         /\ \A k \in DOMAIN commands : commands[k] \in Readiness!ToSet(q)
    BY <2>9, AddEachMeans
  <2> HIDE DEF q
  <2>11. f[i] = q
    BY <2>8 DEF p, commands, q
  <2>12. \A l \in 1 .. i : l = i \/ l \in 1 .. i - 1
    BY <1>1, <2>5
  <2>13. ASSUME NEW l \in 1 .. i, NEW k \in DOMAIN asked[l]
         PROVE  asked[l][k] \in Readiness!ToSet(q)
    <3>1. CASE l = i
      BY <2>10, <3>1 DEF commands
    <3>2. CASE l \in 1 .. i - 1
      BY <2>7, <2>10, <3>2 DEF p
    <3>3. QED
      BY <2>12, <3>1, <3>2
  <2>14. Holds(i)
    BY <2>10, <2>11, <2>13
  <2>15. QED
    BY <2>3, <2>14
<1>5. Holds(n)
  <2>1. n \in 0 .. n /\ n \notin bad
    BY <1>1, <1>4
  <2> HIDE DEF Holds
  <2>2. QED
    BY <2>1
<1>6. QED
  BY <1>1, <1>3, <1>5

\* What the checks of a library ask for.
LEMMA AskedAre ==
  ASSUME NEW checks, IsLibrary(checks)
  PROVE  /\ IsList(Readiness!Asked(checks)) /\ DOMAIN Readiness!Asked(checks) = DOMAIN checks
         /\ \A i \in DOMAIN checks :
              /\ IsList(Readiness!Asked(checks)[i])
              /\ DOMAIN Readiness!Asked(checks)[i] = DOMAIN checks[i].commands
              /\ \A k \in DOMAIN checks[i].commands :
                   Readiness!Asked(checks)[i][k] = Readiness!Validate(checks[i].commands[k])
<1> DEFINE asked == Readiness!Asked(checks)
           texts(i) == [k \in DOMAIN checks[i].commands |-> Readiness!Validate(checks[i].commands[k])]
<1>1. asked = [i \in DOMAIN checks |-> texts(i)]
  BY Zenon DEF Readiness!Asked
<1>2. ASSUME NEW s, NEW n \in Nat, DOMAIN s = 1 .. n, s = [i \in DOMAIN s |-> s[i]]
      PROVE  IsList(s)
  <2>1. s \in Seq({s[i] : i \in 1 .. n})
    BY <1>2
  <2>2. QED
    BY <2>1, LenProperties DEF IsList
<1>3. PICK n \in Nat : DOMAIN checks = 1 .. n
  BY DEF IsLibrary, IsList
<1>4. IsList(asked)
  <2> HIDE DEF texts
  <2>1. DOMAIN asked = 1 .. n /\ asked = [i \in DOMAIN asked |-> asked[i]]
    BY <1>1, <1>3
  <2> HIDE DEF asked
  <2>2. QED
    BY <1>2, <2>1
<1>5. ASSUME NEW i \in DOMAIN checks
      PROVE  IsList(texts(i))
  <2>1. PICK m \in Nat : DOMAIN checks[i].commands = 1 .. m
    <3>1. checks[i].commands \in Seq(Readiness!ToSet(checks[i].commands))
      BY DEF IsLibrary
    <3>2. QED
      BY <3>1, LenProperties
  <2> DEFINE t == texts(i)
  <2>2. DOMAIN t = 1 .. m /\ t = [k \in DOMAIN t |-> t[k]]
    BY <2>1
  <2> HIDE DEF t
  <2>3. QED
    BY <1>2, <2>2 DEF t
<1>6. \A i \in DOMAIN checks : asked[i] = texts(i)
  <2> HIDE DEF texts
  <2>1. QED
    BY <1>1
<1>7. DOMAIN asked = DOMAIN checks
  <2> HIDE DEF texts
  <2>1. QED
    BY <1>1
<1> HIDE DEF asked
<1>8. QED
  BY <1>4, <1>5, <1>6, <1>7 DEF asked

\* A library that loads is approved, and asks for the same when it is loaded.
LEMMA LoadedLibrary ==
  ASSUME PolicyAssumption, NEW checks, IsLibrary(checks), NEW i \in DOMAIN checks, Readiness!CheckLoads(checks[i])
  PROVE  LET c == checks[i]
             l == Readiness!Loaded(c)
         IN  /\ DOMAIN l.commands = DOMAIN c.commands
             /\ \A k \in DOMAIN c.commands : /\ l.commands[k] = Readiness!Validate(c.commands[k])
                                             /\ l.commands[k] \in Registry
             /\ Readiness!CheckLoads(l) /\ Readiness!Loaded(l) = l
<1> DEFINE c == checks[i]
           texts == [k \in DOMAIN c.commands |-> Readiness!Validate(c.commands[k])]
           deep  == {Readiness!Validate(t) : t \in c.nested}
           l == Readiness!Loaded(c)
<1>1. /\ {"commands", "nested", "automated", "manual"} \subseteq DOMAIN c
      /\ c.commands \in Seq(Readiness!ToSet(c.commands))
  BY DEF IsLibrary
<1>2. /\ \A k \in DOMAIN c.commands : Readiness!Validate(c.commands[k]) \in Registry
      /\ \A t \in c.nested : Readiness!Validate(t) \in Registry
      /\ Readiness!Automated(c) => c.commands # <<>>
  BY Approval DEF Readiness!CheckLoads
<1> HIDE DEF c
<1>3. /\ DOMAIN l = DOMAIN c /\ l = [f \in DOMAIN l |-> l[f]]
      /\ l.commands = texts /\ l.nested = deep /\ l.automated = c.automated /\ l.manual = c.manual
  <2>1. l = [c EXCEPT !.commands = texts, !.nested = deep]
    BY DEF Readiness!Loaded
  <2> HIDE DEF texts, deep, l
  <2>2. QED
    BY <1>1, <2>1
<1>4. /\ DOMAIN texts = DOMAIN c.commands
      /\ \A k \in DOMAIN texts : texts[k] = Readiness!Validate(c.commands[k]) /\ texts[k] \in Registry
      /\ \A t \in deep : t \in Registry
      /\ texts = [k \in DOMAIN texts |-> texts[k]]
  BY <1>2
<1>5. texts = <<>> => c.commands = <<>>
  <2>1. PICK n \in Nat : DOMAIN c.commands = 1 .. n /\ Len(c.commands) = n
    BY <1>1, LenProperties
  <2>2. texts = <<>> => n = 0
    BY <1>4, <2>1
  <2>3. n = 0 => c.commands = <<>>
    BY <1>1, <2>1, EmptySeq
  <2>4. QED
    BY <2>2, <2>3
<1> HIDE DEF texts, deep, l
<1>6. Readiness!CheckLoads(l)
  <2>1. \A k \in DOMAIN l.commands : Readiness!IsAllowed(l.commands[k])
    BY <1>3, <1>4, Approval
  <2>2. \A t \in l.nested : Readiness!IsAllowed(t)
    BY <1>3, <1>4, Approval
  <2>3. Readiness!Automated(l) => l.commands # <<>>
    BY <1>2, <1>3, <1>5 DEF Readiness!Automated
  <2>4. QED
    BY <2>1, <2>2, <2>3 DEF Readiness!CheckLoads
<1>7. Readiness!Loaded(l) = l
  <2> DEFINE again == [k \in DOMAIN l.commands |-> Readiness!Validate(l.commands[k])]
             deepAgain == {Readiness!Validate(t) : t \in l.nested}
  <2>1. Readiness!Loaded(l) = [l EXCEPT !.commands = again, !.nested = deepAgain]
    BY DEF Readiness!Loaded
  <2>2. again = l.commands
    <3>1. \A k \in DOMAIN texts : Readiness!Validate(texts[k]) = texts[k]
      BY <1>4, Approval
    <3>2. [k \in DOMAIN texts |-> Readiness!Validate(texts[k])] = [k \in DOMAIN texts |-> texts[k]]
      BY <3>1, Zenon
    <3>3. QED
      BY <1>3, <1>4, <3>2, Zenon
  <2>3. deepAgain = l.nested
    <3>1. \A t \in deep : Readiness!Validate(t) = t
      BY <1>4, Approval
    <3>2. {Readiness!Validate(t) : t \in deep} = deep
      BY <3>1
    <3>3. QED
      BY <1>3, <3>2, Zenon
  <2> HIDE DEF again, deepAgain
  <2>4. QED
    BY <1>1, <1>3, <2>1, <2>2, <2>3
<1>8. QED
  BY <1>3, <1>4, <1>6, <1>7 DEF c, l

\* Every command of a plan is approved, each once, and none is left out.
LEMMA PlanApproved ==
  ASSUME PolicyAssumption, NEW checks, IsLibrary(checks)
  PROVE  Readiness!PlanIsApproved(checks)
<1> DEFINE loaded == [i \in DOMAIN checks |-> Readiness!Loaded(checks[i])]
           plan == Readiness!PlanCommands(loaded)
<1> SUFFICES ASSUME Readiness!LibraryLoads(checks)
             PROVE  /\ Readiness!ToSet(plan) \subseteq Registry /\ Readiness!IsInjective(plan) /\ plan[1] = Pagination
                    /\ \A i \in DOMAIN checks : \A k \in DOMAIN checks[i].commands :
                         \E c \in Readiness!ToSet(plan) :
                           Readiness!Folded(c) = Readiness!Folded(Readiness!Spaced(Readiness!Words(checks[i].commands[k])))
                    /\ plan = Readiness!PlanCommands(checks)
                    /\ \A i \in DOMAIN checks : /\ Readiness!CheckLoads(Readiness!Loaded(checks[i]))
                                                /\ Readiness!Loaded(Readiness!Loaded(checks[i])) = Readiness!Loaded(checks[i])
  BY Zenon DEF Readiness!PlanIsApproved
<1>1. \A i \in DOMAIN checks : Readiness!CheckLoads(checks[i])
  BY DEF Readiness!LibraryLoads
<1> DEFINE asked == Readiness!Asked(checks)
<1>2. /\ IsList(asked) /\ DOMAIN asked = DOMAIN checks
      /\ \A i \in DOMAIN checks :
           /\ IsList(asked[i]) /\ DOMAIN asked[i] = DOMAIN checks[i].commands
           /\ \A k \in DOMAIN checks[i].commands : asked[i][k] = Readiness!Validate(checks[i].commands[k])
  BY AskedAre
<1>3. \A i \in DOMAIN checks : \A k \in DOMAIN checks[i].commands : Readiness!Validate(checks[i].commands[k]) \in Registry
  BY <1>1, Approval DEF Readiness!CheckLoads
<1>4. Readiness!Asked(loaded) = asked
  <2> DEFINE texts(s, i) == [k \in DOMAIN s[i].commands |-> Readiness!Validate(s[i].commands[k])]
  <2>1. /\ Readiness!Asked(loaded) = [i \in DOMAIN loaded |-> texts(loaded, i)]
        /\ asked = [i \in DOMAIN checks |-> texts(checks, i)]
    BY Zenon DEF Readiness!Asked
  <2>2. DOMAIN loaded = DOMAIN checks /\ \A i \in DOMAIN checks : loaded[i] = Readiness!Loaded(checks[i])
    OBVIOUS
  <2> HIDE DEF loaded
  <2>3. ASSUME NEW i \in DOMAIN checks
        PROVE  texts(loaded, i) = texts(checks, i)
    <3> DEFINE s == loaded[i].commands  t == checks[i].commands
    <3>1. DOMAIN s = DOMAIN t /\ \A k \in DOMAIN t : s[k] = Readiness!Validate(t[k]) /\ s[k] \in Registry
      BY <1>1, <2>2, LoadedLibrary
    <3> HIDE DEF s, t
    <3>2. \A k \in DOMAIN t : Readiness!Validate(s[k]) = Readiness!Validate(t[k])
      BY <3>1, Approval
    <3>3. [k \in DOMAIN s |-> Readiness!Validate(s[k])] = [k \in DOMAIN t |-> Readiness!Validate(t[k])]
      BY <3>1, <3>2
    <3>4. QED
      BY <3>3 DEF s, t
  <2> HIDE DEF texts, asked
  <2>4. [i \in DOMAIN loaded |-> texts(loaded, i)] = [i \in DOMAIN checks |-> texts(checks, i)]
    BY <2>2, <2>3
  <2>5. QED
    BY <2>1, <2>4, Zenon
<1>5. plan = Readiness!PlanOf(asked) /\ plan = Readiness!PlanCommands(checks)
  <2> HIDE DEF loaded, asked
  <2>1. plan = Readiness!PlanOf(asked)
    BY <1>4, Zenon DEF Readiness!PlanCommands
  <2>2. Readiness!PlanCommands(checks) = Readiness!PlanOf(asked)
    BY Zenon DEF Readiness!PlanCommands, asked
  <2>3. QED
    BY <2>1, <2>2
<1> HIDE DEF loaded, plan, asked
<1>6. /\ IsPlanOf(Registry, plan, Pagination)
      /\ \A i \in DOMAIN asked : \A k \in DOMAIN asked[i] : asked[i][k] \in Readiness!ToSet(plan)
  <2>1. \A i \in DOMAIN asked : IsList(asked[i]) /\ \A k \in DOMAIN asked[i] : asked[i][k] \in Registry
    BY <1>2, <1>3
  <2>2. QED
    BY <1>2, <1>5, <2>1, PlanMeans
<1>7. Readiness!ToSet(plan) \subseteq Registry /\ Readiness!IsInjective(plan) /\ plan[1] = Pagination
  <2>1. plan \in Seq(Registry) /\ Readiness!IsInjective(plan) /\ plan[1] = Pagination
    BY <1>6 DEF IsPlanOf
  <2>2. \A k \in DOMAIN plan : plan[k] \in Registry
    BY <2>1, LenProperties, ElementOfSeq
  <2>3. QED
    BY <2>1, <2>2 DEF Readiness!ToSet
<1>8. ASSUME NEW i \in DOMAIN checks, NEW k \in DOMAIN checks[i].commands
      PROVE  \E c \in Readiness!ToSet(plan) :
               Readiness!Folded(c) = Readiness!Folded(Readiness!Spaced(Readiness!Words(checks[i].commands[k])))
  <2> DEFINE text == checks[i].commands[k]
  <2>1. Readiness!Validate(text) \in Registry /\ Readiness!Validate(text) \in Readiness!ToSet(plan)
    BY <1>2, <1>3, <1>6
  <2> HIDE DEF text
  <2>2. Readiness!Folded(Readiness!Validate(text)) = Readiness!Folded(Readiness!Spaced(Readiness!Words(text)))
    BY <2>1, Approval
  <2>3. QED
    BY <2>1, <2>2 DEF text
<1>9. ASSUME NEW i \in DOMAIN checks
      PROVE  /\ Readiness!CheckLoads(Readiness!Loaded(checks[i]))
             /\ Readiness!Loaded(Readiness!Loaded(checks[i])) = Readiness!Loaded(checks[i])
  BY <1>1, LoadedLibrary
<1>10. QED
  BY <1>5, <1>7, <1>8, <1>9
--------------------------------------------------------------------------------
(* READINESS.  Keys that are counted as often as there are devices differ.     *)
LEMMA KeysDiffer ==
  ASSUME NEW s, IsList(s)
  PROVE  Cardinality({s[i].key : i \in DOMAIN s}) = Len(s)
           <=> \A i, j \in DOMAIN s : s[i].key = s[j].key => i = j
<1> DEFINE n == Len(s)
           D == 1 .. n
           K == {s[i].key : i \in D}
           f == [i \in D |-> s[i].key]
<1>1. n \in Nat /\ DOMAIN s = D
  BY DEF IsList
<1> HIDE DEF n
<1>2. IsFiniteSet(D) /\ Cardinality(D) = n
  BY <1>1, FS_Interval
<1>3. f \in [D -> K] /\ \A k \in K : \E i \in D : f[i] = k
  OBVIOUS
<1>4. f \in Injection(D, K) <=> \A i, j \in D : s[i].key = s[j].key => i = j
  <2>1. \A i \in D : f[i] = s[i].key
    OBVIOUS
  <2> HIDE DEF f, D, K
  <2>2. f \in Injection(D, K) <=> \A i, j \in D : f[i] = f[j] => i = j
    BY <1>3 DEF Injection, IsInjective
  <2>3. QED
    BY <2>1, <2>2
<1> HIDE DEF f, K
<1>5. f \in Surjection(D, K)
  BY <1>3 DEF Surjection
<1>6. Cardinality(K) = Cardinality(D) <=> f \in Injection(D, K)
  BY <1>2, <1>5, FS_Surjection
<1>7. QED
  BY <1>1, <1>2, <1>4, <1>6 DEF K, n

\* The plan of any library sends what its checks spell as the policy reads it.
LEMMA PlanAllowed ==
  ASSUME PolicyAssumption, NEW checks, IsLibrary(checks)
  PROVE  Readiness!ToSet(Readiness!PlanCommands(checks)) \subseteq Registry
           <=> \A i \in DOMAIN checks : \A k \in DOMAIN checks[i].commands : Readiness!IsAllowed(checks[i].commands[k])
<1> DEFINE asked == Readiness!Asked(checks)
           plan == Readiness!PlanOf(asked)
           X == Registry \cup {<<>>}
<1>1. Readiness!PlanCommands(checks) = plan
  BY Zenon DEF Readiness!PlanCommands
<1>2. /\ IsList(asked) /\ DOMAIN asked = DOMAIN checks
      /\ \A i \in DOMAIN checks :
           /\ IsList(asked[i]) /\ DOMAIN asked[i] = DOMAIN checks[i].commands
           /\ \A k \in DOMAIN checks[i].commands : asked[i][k] = Readiness!Validate(checks[i].commands[k])
  BY AskedAre
<1> HIDE DEF asked
<1>3. \A i \in DOMAIN asked : \A k \in DOMAIN asked[i] : asked[i][k] \in X
  BY <1>2, Approval
<1>4. \A i \in DOMAIN asked : \A k \in DOMAIN asked[i] : asked[i][k] \in Readiness!ToSet(plan)
  <2>1. Registry \subseteq X
    OBVIOUS
  <2> HIDE DEF X, plan
  <2>2. QED
    BY <1>2, <1>3, <2>1, PlanMeans DEF plan
<1>5. ASSUME \A i \in DOMAIN asked : \A k \in DOMAIN asked[i] : asked[i][k] \in Registry
      PROVE  Readiness!ToSet(plan) \subseteq Registry
  <2>1. IsPlanOf(Registry, plan, Pagination)
    BY <1>2, <1>5, PlanMeans
  <2> HIDE DEF plan
  <2>2. plan \in Seq(Registry)
    BY <2>1 DEF IsPlanOf
  <2>3. \A k \in DOMAIN plan : plan[k] \in Registry
    BY <2>2, LenProperties, ElementOfSeq
  <2>4. QED
    BY <2>3 DEF Readiness!ToSet
<1> HIDE DEF plan, X
<1>6. \A i \in DOMAIN checks : \A k \in DOMAIN checks[i].commands :
        Readiness!IsAllowed(checks[i].commands[k]) <=> asked[i][k] \in Registry
  BY <1>2, Approval
<1>7. QED
  BY <1>1, <1>2, <1>4, <1>5, <1>6

\* No blocking issue means a runnable audit, and nothing else does.
LEMMA ReadyIsRunnable ==
  ASSUME PolicyAssumption, NEW a, IsList(a.targets), IsLibrary(a.checks)
  PROVE  Readiness!ReadyMeansRunnable(a)
<1> DEFINE missing == Readiness!MissingProfileValues(a.checks, a.profile)
           stores == {a.store.evidence, a.store.reports}
           told == Readiness!Cardinality({a.targets[i].key : i \in DOMAIN a.targets}) = Len(a.targets)
           approved == Readiness!ToSet(Readiness!PlanCommands(a.checks)) \subseteq Registry
           runnable == /\ a.targets # <<>> /\ \A i \in DOMAIN a.targets : a.targets[i].valid
                       /\ told
                       /\ a.families # {} /\ a.checks # <<>> /\ a.profile \notin {None, Invalid}
                       /\ approved
                       /\ a.store.database # "down"
                       /\ \A folder \in stores : folder = None \/ folder.writable
           ready == Readiness!Ready(a)
<1>1. told <=> ~ \E i, j \in DOMAIN a.targets : i < j /\ a.targets[i].key = a.targets[j].key
  <2> DEFINE s == a.targets
  <2>1. Readiness!Cardinality({s[i].key : i \in DOMAIN s}) = Cardinality({s[i].key : i \in DOMAIN s})
    BY DEF Readiness!Cardinality, Cardinality
  <2>2. \A i \in DOMAIN s : i \in Int
    BY DEF IsList
  <2> HIDE DEF s
  <2>3. told <=> \A i, j \in DOMAIN s : s[i].key = s[j].key => i = j
    BY <2>1, KeysDiffer DEF s
  <2>4. (\A i, j \in DOMAIN s : s[i].key = s[j].key => i = j) <=> ~ \E i, j \in DOMAIN s : i < j /\ s[i].key = s[j].key
    BY <2>2
  <2> HIDE DEF told
  <2>5. QED
    BY <2>3, <2>4 DEF s
<1>2. approved <=> ~ \E i \in DOMAIN a.checks : \E k \in DOMAIN a.checks[i].commands : ~ Readiness!IsAllowed(a.checks[i].commands[k])
  BY PlanAllowed
<1> HIDE DEF told, approved
<1>3. ready <=> /\ a.targets # <<>>
                /\ ~ \E i \in DOMAIN a.targets : ~ a.targets[i].valid
                /\ told
                /\ a.families # {} /\ a.checks # <<>> /\ approved
                /\ Readiness!ProfileIssues(a.checks, a.profile) = {}
                /\ a.store.database # "down"
                /\ ~ Readiness!Refuses(a.store.evidence) /\ ~ Readiness!Refuses(a.store.reports)
  <2>1. ready <=> /\ Readiness!DeviceIssues(a.targets) = {} /\ Readiness!CheckIssues(a.families, a.checks) = {}
                  /\ Readiness!ProfileIssues(a.checks, a.profile) = {} /\ Readiness!StoreIssues(a.store) = {}
    BY DEF Readiness!Ready, Readiness!Blocking
  <2>2. Readiness!DeviceIssues(a.targets) = {} <=>
          a.targets # <<>> /\ (~ \E i \in DOMAIN a.targets : ~ a.targets[i].valid) /\ told
    BY <1>1 DEF Readiness!DeviceIssues
  <2>3. Readiness!CheckIssues(a.families, a.checks) = {} <=> a.families # {} /\ a.checks # <<>> /\ approved
    BY <1>2 DEF Readiness!CheckIssues
  <2>4. Readiness!StoreIssues(a.store) = {} <=>
          /\ a.store.database # "down" /\ ~ Readiness!Refuses(a.store.evidence) /\ ~ Readiness!Refuses(a.store.reports)
    BY DEF Readiness!StoreIssues
  <2> HIDE DEF ready
  <2>5. QED
    BY <2>1, <2>2, <2>3, <2>4
<1>4. Readiness!ProfileIssues(a.checks, a.profile) = {} <=> a.profile \notin {None, Invalid} /\ missing = {}
  BY DEF Readiness!ProfileIssues
<1>5. \A folder : Readiness!Refuses(folder) <=> folder # None /\ (~ folder.writable \/ folder.probe)
  BY DEF Readiness!Refuses
<1> HIDE DEF missing, ready
<1>6. ready => runnable /\ missing = {}
  BY <1>3, <1>4, <1>5
<1>7. runnable /\ ~ ready => missing # {} \/ \E folder \in stores : folder # None /\ folder.probe
  BY <1>3, <1>4, <1>5
<1>8. Readiness!ReadyMeansRunnable(a) =
        (/\ ready => runnable /\ missing = {}
         /\ runnable /\ ~ ready => missing # {} \/ \E folder \in stores : folder # None /\ folder.probe)
  BY Zenon DEF Readiness!ReadyMeansRunnable, told, approved, missing, ready
<1>9. QED
  BY <1>6, <1>7, <1>8
--------------------------------------------------------------------------------
(* CHECKLISTS.  The jobs of a run: each has a template that was chosen and that *)
(* holds its families, no two have a family or a label in common, and together *)
(* they have every family that was selected.                                   *)
Keys == {"COMBINED", "IOSXE_L2", "IOSXE_NDM"}
AreJobs(jobs, selected, paths, ids) ==
  /\ Len(jobs) \in Nat /\ DOMAIN jobs = 1 .. Len(jobs)
  /\ \A j \in DOMAIN jobs : /\ jobs[j].label \in Keys /\ jobs[j].template = paths[jobs[j].label]
                            /\ jobs[j].template # None /\ Filling!FitsFamilies(jobs[j].template, jobs[j].families, ids)
  /\ \A i, j \in DOMAIN jobs : i # j => jobs[i].label # jobs[j].label /\ jobs[i].families \cap jobs[j].families = {}
  /\ jobs # <<>> => \A f \in selected \cap Filling!Supported : \E j \in DOMAIN jobs : f \in jobs[j].families

\* A template that does not fit gives no job.
LEMMA JobOrNone ==
  ASSUME NEW key, NEW families, NEW paths, NEW ids
  PROVE  LET job == Filling!TemplateJob(key, families, paths, ids)
         IN  \/ job = <<>>
             \/ /\ job = <<[families |-> families, template |-> paths[key], label |-> key]>>
                /\ paths[key] # None /\ Filling!FitsFamilies(paths[key], families, ids)
BY DEF Filling!TemplateJob

\* One job, and two jobs with a template of their own.
LEMMA OneJob ==
  ASSUME NEW key \in Keys, NEW families, NEW selected, NEW paths, NEW ids,
         selected \cap Filling!Supported \subseteq families
  PROVE  AreJobs(Filling!TemplateJob(key, families, paths, ids), selected, paths, ids)
<1> DEFINE jobs == Filling!TemplateJob(key, families, paths, ids)
           job == [families |-> families, template |-> paths[key], label |-> key]
<1>1. CASE jobs = <<>>
  BY <1>1 DEF AreJobs
<1>2. CASE jobs = <<job>> /\ paths[key] # None /\ Filling!FitsFamilies(paths[key], families, ids)
  <2>1. Len(jobs) = 1 /\ DOMAIN jobs = {1} /\ jobs[1] = job
    BY <1>2
  <2>2. job.families = families /\ job.template = paths[key] /\ job.label = key
    OBVIOUS
  <2> HIDE DEF jobs, job
  <2>3. /\ \A j \in DOMAIN jobs : /\ jobs[j].label \in Keys /\ jobs[j].template = paths[jobs[j].label]
                                  /\ jobs[j].template # None /\ Filling!FitsFamilies(jobs[j].template, jobs[j].families, ids)
        /\ \A f \in selected \cap Filling!Supported : \E j \in DOMAIN jobs : f \in jobs[j].families
    BY <1>2, <2>1, <2>2
  <2>4. /\ Len(jobs) \in Nat /\ DOMAIN jobs = 1 .. Len(jobs)
        /\ \A i, j \in DOMAIN jobs :
             i # j => jobs[i].label # jobs[j].label /\ jobs[i].families \cap jobs[j].families = {}
    BY <2>1
  <2>5. QED
    <3>1. AreJobs(jobs, selected, paths, ids)
      BY <2>3, <2>4, Zenon DEF AreJobs
    <3>2. QED
      BY <3>1 DEF jobs
<1>3. QED
  BY <1>1, <1>2, JobOrNone, Zenon

\* Two sequences of one element.
LEMMA OneAfterOne ==
  ASSUME NEW a, NEW b
  PROVE  LET s == <<a>> \o <<b>> IN Len(s) = 2 /\ DOMAIN s = {1, 2} /\ s[1] = a /\ s[2] = b
<1>1. <<a>> \in Seq({a, b}) /\ <<b>> \in Seq({a, b}) /\ Len(<<a>>) = 1 /\ Len(<<b>>) = 1
  OBVIOUS
<1> DEFINE x == <<a>>  y == <<b>>  s == x \o y
<1>2. x[1] = a /\ y[1] = b
  OBVIOUS
<1> HIDE DEF x, y
<1>3. /\ s \in Seq({a, b}) /\ Len(s) = Len(x) + Len(y)
      /\ \A i \in 1 .. Len(x) + Len(y) : s[i] = IF i <= Len(x) THEN x[i] ELSE y[i - Len(x)]
  BY <1>1, ConcatProperties, Zenon DEF x, y
<1> HIDE DEF s
<1>4. Len(x) = 1 /\ Len(y) = 1
  BY <1>1 DEF x, y
<1>5. Len(s) = 2 /\ DOMAIN s = 1 .. 2 /\ s[1] = a /\ s[2] = b
  BY <1>2, <1>3, <1>4
<1>6. QED
  BY <1>5 DEF s, x, y

LEMMA TwoJobs ==
  ASSUME NEW selected, NEW paths, NEW ids,
         Filling!TemplateJob("IOSXE_L2", {"IOSXE_L2"}, paths, ids) # <<>>,
         Filling!TemplateJob("IOSXE_NDM", {"IOSXE_NDM"}, paths, ids) # <<>>
  PROVE  AreJobs(Filling!TemplateJob("IOSXE_L2", {"IOSXE_L2"}, paths, ids)
                   \o Filling!TemplateJob("IOSXE_NDM", {"IOSXE_NDM"}, paths, ids), selected, paths, ids)
<1> DEFINE a == [families |-> {"IOSXE_L2"}, template |-> paths["IOSXE_L2"], label |-> "IOSXE_L2"]
           b == [families |-> {"IOSXE_NDM"}, template |-> paths["IOSXE_NDM"], label |-> "IOSXE_NDM"]
           jobs == Filling!TemplateJob("IOSXE_L2", {"IOSXE_L2"}, paths, ids)
                     \o Filling!TemplateJob("IOSXE_NDM", {"IOSXE_NDM"}, paths, ids)
<1>1. /\ Filling!TemplateJob("IOSXE_L2", {"IOSXE_L2"}, paths, ids) = <<a>>
      /\ paths["IOSXE_L2"] # None /\ Filling!FitsFamilies(paths["IOSXE_L2"], {"IOSXE_L2"}, ids)
  BY JobOrNone
<1>2. /\ Filling!TemplateJob("IOSXE_NDM", {"IOSXE_NDM"}, paths, ids) = <<b>>
      /\ paths["IOSXE_NDM"] # None /\ Filling!FitsFamilies(paths["IOSXE_NDM"], {"IOSXE_NDM"}, ids)
  BY JobOrNone
<1>3. /\ a.families = {"IOSXE_L2"} /\ a.template = paths["IOSXE_L2"] /\ a.label = "IOSXE_L2"
      /\ b.families = {"IOSXE_NDM"} /\ b.template = paths["IOSXE_NDM"] /\ b.label = "IOSXE_NDM"
  OBVIOUS
<1> HIDE DEF a, b
<1>4. jobs = <<a>> \o <<b>>
  BY <1>1, <1>2
<1>5. Len(<<a>> \o <<b>>) = 2 /\ DOMAIN (<<a>> \o <<b>>) = {1, 2} /\ (<<a>> \o <<b>>)[1] = a /\ (<<a>> \o <<b>>)[2] = b
  BY OneAfterOne
<1>6. Len(jobs) = 2 /\ DOMAIN jobs = {1, 2} /\ jobs[1] = a /\ jobs[2] = b
  BY <1>4, <1>5
<1>61. Len(jobs) \in Nat /\ DOMAIN jobs = 1 .. Len(jobs)
  BY <1>6
<1> HIDE DEF jobs
<1>7. \A j \in DOMAIN jobs : /\ jobs[j].label \in Keys /\ jobs[j].template = paths[jobs[j].label]
                             /\ jobs[j].template # None /\ Filling!FitsFamilies(jobs[j].template, jobs[j].families, ids)
  BY <1>1, <1>2, <1>3, <1>6 DEF Keys
<1>8. \A i, j \in DOMAIN jobs : i # j => jobs[i].label # jobs[j].label /\ jobs[i].families \cap jobs[j].families = {}
  BY <1>3, <1>6
<1>9. \A f \in selected \cap Filling!Supported : \E j \in DOMAIN jobs : f \in jobs[j].families
  BY <1>3, <1>6 DEF Filling!Supported
<1>10. AreJobs(jobs, selected, paths, ids)
  BY <1>61, <1>7, <1>8, <1>9 DEF AreJobs
<1>11. QED
  BY <1>10 DEF jobs

\* The jobs of every selection, with any templates chosen.
LEMMA JobsAreSound ==
  ASSUME NEW selected, NEW paths, NEW ids
  PROVE  AreJobs(Filling!TemplateJobs(selected, paths, ids), selected, paths, ids)
<1> DEFINE known    == selected \cap Filling!Supported
           own(f)   == Filling!TemplateJob(f, {f}, paths, ids)
           both     == Filling!TemplateJob("COMBINED", Filling!Supported, paths, ids)
           separate == own("IOSXE_L2") \o own("IOSXE_NDM")
           jobs == Filling!TemplateJobs(selected, paths, ids)
<1>1. jobs = CASE known = {}                                       -> <<>>
               [] known = Filling!Supported /\ both # <<>>         -> both
               [] known = Filling!Supported /\ both = <<>>         -> IF Len(separate) = 2 THEN separate ELSE <<>>
               [] known = {"IOSXE_L2"}                             -> own("IOSXE_L2")
               [] known = {"IOSXE_NDM"}                            -> own("IOSXE_NDM")
  BY DEF Filling!TemplateJobs
<1>2. known = {} \/ known = Filling!Supported \/ known = {"IOSXE_L2"} \/ known = {"IOSXE_NDM"}
  BY DEF Filling!Supported
<1>3. AreJobs(<<>>, selected, paths, ids)
  BY DEF AreJobs
<1>4. known = Filling!Supported => AreJobs(both, selected, paths, ids)
  BY OneJob DEF Keys
<1>5. Len(separate) = 2 => AreJobs(separate, selected, paths, ids)
  <2> DEFINE a == [families |-> {"IOSXE_L2"}, template |-> paths["IOSXE_L2"], label |-> "IOSXE_L2"]
             b == [families |-> {"IOSXE_NDM"}, template |-> paths["IOSXE_NDM"], label |-> "IOSXE_NDM"]
  <2>1. own("IOSXE_L2") \in {<<>>, <<a>>} /\ own("IOSXE_NDM") \in {<<>>, <<b>>}
    BY JobOrNone
  <2>0. <<>> \in Seq({a, b}) /\ <<a>> \in Seq({a, b}) /\ <<b>> \in Seq({a, b})
    <3> HIDE DEF a, b
    <3>1. QED
      OBVIOUS
  <2> HIDE DEF a, b, own
  <2>2. own("IOSXE_L2") \in Seq({a, b}) /\ own("IOSXE_NDM") \in Seq({a, b})
    BY <2>0, <2>1
  <2>4. Len(separate) = Len(own("IOSXE_L2")) + Len(own("IOSXE_NDM"))
    BY <2>2, ConcatProperties DEF separate
  <2>5. \A f \in {"IOSXE_L2", "IOSXE_NDM"} : own(f) = <<>> => Len(own(f)) = 0
    OBVIOUS
  <2>6. Len(own("IOSXE_L2")) \in {0, 1} /\ Len(own("IOSXE_NDM")) \in {0, 1}
    BY <2>1
  <2>3. QED
    <3>1. SUFFICES ASSUME Len(separate) = 2
                   PROVE  AreJobs(separate, selected, paths, ids)
      OBVIOUS
    <3>2. own("IOSXE_L2") # <<>> /\ own("IOSXE_NDM") # <<>>
      <4> HIDE DEF separate
      <4>1. QED
        BY <2>4, <2>5, <2>6, <3>1
    <3>3. QED
      BY <3>2, TwoJobs DEF own
<1>6. \A f \in {"IOSXE_L2", "IOSXE_NDM"} : known = {f} => AreJobs(own(f), selected, paths, ids)
  BY OneJob DEF Keys
<1> HIDE DEF own, both, separate, jobs
<1>7. Filling!Supported = {"IOSXE_L2", "IOSXE_NDM"}
  BY DEF Filling!Supported
<1>8. AreJobs(jobs, selected, paths, ids)
  <2>1. CASE known = {}
    BY <1>1, <1>3, <1>7, <2>1
  <2>2. CASE known = Filling!Supported
    BY <1>1, <1>3, <1>4, <1>5, <1>7, <2>2
  <2>3. CASE known = {"IOSXE_L2"}
    BY <1>1, <1>6, <1>7, <2>3
  <2>4. CASE known = {"IOSXE_NDM"}
    BY <1>1, <1>6, <1>7, <2>4
  <2>5. QED
    BY <1>2, <2>1, <2>2, <2>3, <2>4
<1>9. QED
  BY <1>8 DEF jobs

\* Each selected family has one job, with a template that holds it.
LEMMA FamiliesServed ==
  ASSUME NEW selected, NEW paths, NEW ids, NEW jobs, AreJobs(jobs, selected, paths, ids)
  PROVE  Filling!FamiliesAreServed(selected, jobs, ids)
<1>1. SUFFICES ASSUME jobs # <<>>, NEW f \in selected \cap Filling!Supported
               PROVE  \E j \in DOMAIN jobs :
                        /\ f \in jobs[j].families /\ Filling!VulnIds(jobs[j].template) \cap ids[f] # {}
                        /\ \A other \in DOMAIN jobs \ {j} : f \notin jobs[other].families
  BY DEF Filling!FamiliesAreServed
<1>2. PICK j \in DOMAIN jobs : f \in jobs[j].families
  BY <1>1 DEF AreJobs
<1>3. Filling!VulnIds(jobs[j].template) \cap ids[f] # {}
  BY <1>2 DEF AreJobs, Filling!FitsFamilies
<1>4. \A other \in (DOMAIN jobs) \ {j} : f \notin jobs[other].families
  BY <1>2 DEF AreJobs
<1>5. QED
  BY <1>2, <1>3, <1>4

--------------------------------------------------------------------------------
(* The last result with an identifier is the one an entry takes.               *)
Named(results, v) == {i \in DOMAIN results : results[i].vuln = v}
IsLastOf(results, v, k) == k \in Named(results, v) /\ \A l \in Named(results, v) : l <= k
AreResults(results, n) ==
  n \in Nat /\ DOMAIN results \subseteq 1 .. n /\ \A k \in DOMAIN results : results[k].status \in Filling!Statuses

\* There is a last result with an identifier that occurs.
LEMMA LastOfName ==
  ASSUME NEW results, NEW n, AreResults(results, n), NEW v, Named(results, v) # {}
  PROVE  \E k : IsLastOf(results, v, k)
<1>1. Named(results, v) \in SUBSET (1 .. n) /\ n \in Nat
  BY DEF AreResults, Named
<1> HIDE DEF Named
<1>2. QED
  BY <1>1, FinalOne DEF IsLastOf

\* It is the one kept for the identifier.
LEMMA TakenResult ==
  ASSUME NEW results, NEW n, AreResults(results, n), NEW v, NEW ids, v \in ids, NEW k, IsLastOf(results, v, k)
  PROVE  v \in DOMAIN Filling!ResultsByVuln(results, ids) /\ Filling!ResultsByVuln(results, ids)[v] = results[k]
<1> DEFINE named == {i \in DOMAIN results : results[i].vuln = v}
           c == CHOOSE i \in named : \A j \in named : j <= i
<1>1. named = Named(results, v) /\ named \subseteq Nat
  BY DEF Named, AreResults
<1>2. k \in named /\ \A l \in named : l <= k
  BY <1>1 DEF IsLastOf
<1>3. c \in named /\ \A j \in named : j <= c
  <2> HIDE DEF named
  <2>1. QED
    BY <1>2
<1>4. c = k
  <2> HIDE DEF named, c
  <2>1. QED
    BY <1>1, <1>2, <1>3
<1>5. v \in {results[i].vuln : i \in DOMAIN results} \cap ids
  BY <1>2
<1>6. v \in DOMAIN Filling!ResultsByVuln(results, ids) /\ Filling!ResultsByVuln(results, ids)[v] = results[c]
  BY <1>5 DEF Filling!ResultsByVuln
<1>7. QED
  BY <1>4, <1>6

LEMMA TakenNames ==
  ASSUME NEW results, NEW ids
  PROVE  DOMAIN Filling!ResultsByVuln(results, ids) = {results[i].vuln : i \in DOMAIN results} \cap ids
BY DEF Filling!ResultsByVuln

(* An entry with a result takes the status and the comment of the last one,    *)
(* and every other entry stays as it is.                                       *)
Kept(entry, append) == IF append THEN entry.comments ELSE <<>>

\* In either format.
LEMMA PopulatedEntry ==
  ASSUME NEW template, IsTemplate(template), NEW results, NEW n, AreResults(results, n), NEW ids, NEW written,
         NEW append, NEW i \in DOMAIN template
  PROVE  LET entry   == template[i]
             entries == Filling!Populate(template, Filling!ResultsByVuln(results, ids), written, append)
         IN  /\ DOMAIN entries = DOMAIN template
             /\ Named(results, entry.vuln) = {} \/ entry.vuln \notin ids => entries[i] = entry
             /\ \A k : IsLastOf(results, entry.vuln, k) /\ entry.vuln \in ids =>
                  entries[i] = [vuln |-> entry.vuln, status |-> written[results[k].status],
                                comments |-> Kept(entry, append) \o <<results[k].status>>]
<1> DEFINE entry == template[i]
           by == Filling!ResultsByVuln(results, ids)
           entries == Filling!Populate(template, by, written, append)
           s == by[entry.vuln].status
<1>1. DOMAIN entries = DOMAIN template
  BY DEF Filling!Populate
<1>2. entries[i] = IF entry.vuln \notin DOMAIN by THEN entry
                   ELSE [entry EXCEPT !.status = written[s], !.comments = (IF append THEN @ ELSE <<>>) \o <<s>>]
  BY DEF Filling!Populate
<1>3. entry = [vuln |-> entry.vuln, status |-> entry.status, comments |-> entry.comments]
  BY DEF IsTemplate
<1>4. Named(results, entry.vuln) = {} \/ entry.vuln \notin ids => entry.vuln \notin DOMAIN by
  <2>1. DOMAIN by = {results[k].vuln : k \in DOMAIN results} \cap ids
    BY TakenNames, Zenon
  <2> HIDE DEF by, entry
  <2>2. QED
    BY <2>1 DEF Named
<1>5. ASSUME NEW k, IsLastOf(results, entry.vuln, k), entry.vuln \in ids
      PROVE  entries[i] = [vuln |-> entry.vuln, status |-> written[results[k].status],
                           comments |-> Kept(entry, append) \o <<results[k].status>>]
  <2>1. entry.vuln \in DOMAIN by /\ s = results[k].status
    BY <1>5, TakenResult
  <2> HIDE DEF entry, by, entries, s
  <2>2. entries[i] = [entry EXCEPT !.status = written[s], !.comments = (IF append THEN entry.comments ELSE <<>>) \o <<s>>]
    BY <1>2, <2>1
  <2>3. entries[i] = [vuln |-> entry.vuln, status |-> written[s],
                      comments |-> (IF append THEN entry.comments ELSE <<>>) \o <<s>>]
    BY <1>3, <2>2
  <2>4. QED
    BY <2>1, <2>3 DEF Kept
<1> HIDE DEF by, entries
<1>6. QED
  BY <1>1, <1>2, <1>4, <1>5 DEF entries, by

--------------------------------------------------------------------------------
(* What an entry of a completed checklist says, in either format.              *)
LEMMA StatusThere ==
  ASSUME NEW s \in Filling!Statuses
  PROVE  /\ Filling!CklStatus(s) = "NotAFinding" => s = "NotAFinding"
         /\ s = "Open" => Filling!CklStatus(s) = "Open"
         /\ Filling!Internal(Filling!CklbStatus(s)) = Filling!CklStatus(s)
<1>1. Filling!CklStatus(s) \in {"NotAFinding", "Open", "Not_Applicable", "Not_Reviewed"}
  BY DEF Filling!CklStatus, Filling!Statuses
<1>2. /\ Filling!CklStatus(s) = "NotAFinding" => s = "NotAFinding"
      /\ s = "Open" => Filling!CklStatus(s) = "Open"
  BY DEF Filling!CklStatus, Filling!Statuses
<1>3. ASSUME NEW c \in {"NotAFinding", "Open", "Not_Applicable", "Not_Reviewed"}
      PROVE  Filling!Internal(Filling!CklbNames[c]) = c
  <2> DEFINE names == Filling!CklbNames
             name == names[c]
  <2>1. DOMAIN names = {"NotAFinding", "Open", "Not_Applicable", "Not_Reviewed"}
    BY DEF Filling!CklbNames
  <2>2. \A t \in DOMAIN names : names[t] = name => t = c
    BY DEF Filling!CklbNames
  <2>3. Filling!Internal(name) = IF \E t \in DOMAIN names : names[t] = name
                                 THEN CHOOSE t \in DOMAIN names : names[t] = name
                                 ELSE "Not_Reviewed"
    BY DEF Filling!Internal
  <2>4. name = names[c]
    OBVIOUS
  <2> HIDE DEF names, name
  <2>5. Filling!Internal(name) = c
    BY <2>1, <2>2, <2>3, <2>4
  <2>6. QED
    BY <2>5 DEF name, names
<1>4. QED
  BY <1>1, <1>2, <1>3 DEF Filling!CklbStatus

\* The XML form.
LEMMA XmlEntries ==
  ASSUME NEW template, NEW results, NEW append
  PROVE  /\ Filling!CompletedCkl(template, results, append).entries
              = Filling!Populate(template, Filling!ResultsByVuln(results, StigIds),
                                 [s \in Filling!Statuses |-> Filling!CklStatus(s)], append)
         /\ Filling!CompletedCkl(template, results, append).unmatched
              = ({results[i].vuln : i \in DOMAIN results} \cap StigIds) \ Filling!VulnIds(template)
BY TakenNames DEF Filling!CompletedCkl, Filling!Filled

LEMMA XmlUnmatched ==
  ASSUME NEW template, NEW results, NEW append, NEW k \in DOMAIN results, results[k].vuln \in StigIds,
         results[k].vuln \notin Filling!VulnIds(template)
  PROVE  results[k].vuln \in Filling!CompletedCkl(template, results, append).unmatched
<1> DEFINE v == results[k].vuln  vulns == {results[i].vuln : i \in DOMAIN results}
           c == Filling!CompletedCkl(template, results, append)
<1>1. v \in vulns
  OBVIOUS
<1>2. c.unmatched = (vulns \cap StigIds) \ Filling!VulnIds(template)
  BY XmlEntries
<1> HIDE DEF v, vulns, c
<1>3. v \in c.unmatched
  BY <1>1, <1>2 DEF v
<1>4. QED
  BY <1>3 DEF v, c

\* The JSON form.
LEMMA JsonEntries ==
  ASSUME NEW template, NEW results, NEW append
  PROVE  Filling!CompletedCklb(template, results, append).entries
           = Filling!Populate(template, Filling!ResultsByVuln(results, {results[i].vuln : i \in DOMAIN results} \ {None}),
                              [s \in Filling!Statuses |-> Filling!CklbStatus(s)], append)
BY DEF Filling!CompletedCklb, Filling!Filled

LEMMA XmlEntryKept ==
  ASSUME NEW template, IsTemplate(template), NEW results, NEW n, AreResults(results, n), NEW append,
         NEW i \in DOMAIN template, Named(results, template[i].vuln) = {} \/ template[i].vuln \notin StigIds
  PROVE  Filling!CompletedCkl(template, results, append).entries[i] = template[i]
<1> DEFINE ids == StigIds
           written == [s \in Filling!Statuses |-> Filling!CklStatus(s)]
           entries == Filling!Populate(template, Filling!ResultsByVuln(results, ids), written, append)
<1>1. entries[i] = template[i]
  <2> HIDE DEF written, ids
  <2>1. Named(results, template[i].vuln) = {} \/ template[i].vuln \notin ids
    BY DEF ids
  <2>2. QED
    BY <2>1, PopulatedEntry
<1>2. QED
  BY <1>1, XmlEntries

LEMMA XmlEntryTaken ==
  ASSUME NEW template, IsTemplate(template), NEW results, NEW n, AreResults(results, n), NEW append,
         NEW i \in DOMAIN template, NEW k, IsLastOf(results, template[i].vuln, k), template[i].vuln \in StigIds
  PROVE  Filling!CompletedCkl(template, results, append).entries[i]
           = [vuln |-> template[i].vuln, status |-> Filling!CklStatus(results[k].status),
              comments |-> Kept(template[i], append) \o <<results[k].status>>]
<1> DEFINE ids == StigIds
           written == [s \in Filling!Statuses |-> Filling!CklStatus(s)]
           entries == Filling!Populate(template, Filling!ResultsByVuln(results, ids), written, append)
<1>1. entries[i] = [vuln |-> template[i].vuln, status |-> written[results[k].status],
                    comments |-> Kept(template[i], append) \o <<results[k].status>>]
  <2>1. template[i].vuln \in ids
    OBVIOUS
  <2> HIDE DEF written, ids
  <2>2. QED
    BY <2>1, PopulatedEntry
<1>2. written[results[k].status] = Filling!CklStatus(results[k].status)
  BY DEF IsLastOf, Named, AreResults
<1>3. Filling!CompletedCkl(template, results, append).entries = entries
  BY XmlEntries
<1> HIDE DEF entries, written
<1>4. QED
  BY <1>1, <1>2, <1>3

LEMMA XmlDomain ==
  ASSUME NEW template, NEW results, NEW append
  PROVE  DOMAIN Filling!CompletedCkl(template, results, append).entries = DOMAIN template
<1> DEFINE by == Filling!ResultsByVuln(results, StigIds)
           written == [s \in Filling!Statuses |-> Filling!CklStatus(s)]
<1>1. Filling!CompletedCkl(template, results, append).entries = Filling!Populate(template, by, written, append)
  BY XmlEntries
<1> HIDE DEF by, written
<1>2. QED
  BY <1>1 DEF Filling!Populate

LEMMA JsonEntry ==
  ASSUME NEW template, IsTemplate(template), NEW results, NEW n, AreResults(results, n), NEW append,
         NEW i \in DOMAIN template, NEW k, IsLastOf(results, template[i].vuln, k), template[i].vuln # None
  PROVE  LET entries == Filling!CompletedCklb(template, results, append).entries
         IN  /\ DOMAIN entries = DOMAIN template
             /\ entries[i].vuln = template[i].vuln /\ entries[i].status = Filling!CklbStatus(results[k].status)
<1> DEFINE entry   == template[i]
           ids == {results[l].vuln : l \in DOMAIN results} \ {None}
           written == [s \in Filling!Statuses |-> Filling!CklbStatus(s)]
           entries == Filling!Populate(template, Filling!ResultsByVuln(results, ids), written, append)
<1>1. entry.vuln \in ids
  BY DEF IsLastOf, Named
<1>2. /\ DOMAIN entries = DOMAIN template
      /\ entries[i] = [vuln |-> entry.vuln, status |-> written[results[k].status],
                       comments |-> Kept(entry, append) \o <<results[k].status>>]
  <2> HIDE DEF written, ids
  <2>1. QED
    BY <1>1, PopulatedEntry
<1>3. written[results[k].status] = Filling!CklbStatus(results[k].status)
  BY DEF IsLastOf, Named, AreResults
<1>4. Filling!CompletedCklb(template, results, append).entries = entries
  BY JsonEntries
<1> HIDE DEF entries, written
<1>5. QED
  BY <1>2, <1>3, <1>4

--------------------------------------------------------------------------------
(* What a completed checklist is promised to say.                              *)
LEMMA MarksBacked ==
  ASSUME NEW template, IsTemplate(template), NEW results, NEW n, AreResults(results, n), NEW append
  PROVE  Filling!MarksAreBacked(template, results, Filling!CompletedCkl(template, results, append).entries)
<1> DEFINE entries == Filling!CompletedCkl(template, results, append).entries
           said(i) == {results[k].status : k \in {k \in DOMAIN results : results[k].vuln = template[i].vuln}}
<1>1. ASSUME NEW i \in DOMAIN template, said(i) = {} \/ template[i].vuln \notin StigIds
      PROVE  entries[i] = template[i]
  <2>1. Named(results, template[i].vuln) = {} \/ template[i].vuln \notin StigIds
    BY <1>1 DEF Named
  <2>2. QED
    BY <2>1, XmlEntryKept
<1>2. ASSUME NEW i \in DOMAIN template, said(i) # {}, template[i].vuln \in StigIds
      PROVE  /\ entries[i].vuln = template[i].vuln
             /\ entries[i].status = "NotAFinding" => "NotAFinding" \in said(i)
             /\ said(i) = {"Open"} => entries[i].status = "Open"
  <2>1. Named(results, template[i].vuln) # {}
    BY <1>2 DEF Named
  <2>2. PICK k : IsLastOf(results, template[i].vuln, k)
    BY <2>1, LastOfName
  <2>21. template[i].vuln \in StigIds
    BY <1>2
  <2>3. entries[i] = [vuln |-> template[i].vuln, status |-> Filling!CklStatus(results[k].status),
                      comments |-> Kept(template[i], append) \o <<results[k].status>>]
    BY <2>2, <2>21, XmlEntryTaken
  <2>4. entries[i].vuln = template[i].vuln /\ entries[i].status = Filling!CklStatus(results[k].status)
    <3> HIDE DEF entries
    <3>1. QED
      BY <2>3
  <2>5. results[k].status \in said(i) /\ results[k].status \in Filling!Statuses
    BY <2>2 DEF IsLastOf, Named, AreResults
  <2> HIDE DEF entries, said
  <2>6. QED
    BY <2>4, <2>5, StatusThere
<1> HIDE DEF entries
<1>3. Filling!MarksAreBacked(template, results, entries)
  BY <1>1, <1>2 DEF Filling!MarksAreBacked
<1>4. QED
  BY <1>3 DEF entries

\* A list is the beginning of itself and of itself with one more.
LEMMA PrefixOfMore ==
  ASSUME NEW S, NEW s \in Seq(S), NEW x
  PROVE  Filling!IsPrefix(s, s) /\ Filling!IsPrefix(s, s \o <<x>>)
<1> DEFINE T == S \cup {x}  y == <<x>>  t == s \o y
<1>1. s \in Seq(T) /\ y \in Seq(T) /\ Len(y) = 1
  OBVIOUS
<1> HIDE DEF T, y
<1>2. /\ t \in Seq(T) /\ Len(t) = Len(s) + Len(y)
      /\ \A i \in 1 .. Len(s) + Len(y) : t[i] = IF i <= Len(s) THEN s[i] ELSE y[i - Len(s)]
  BY <1>1, ConcatProperties, Zenon
<1> HIDE DEF t
<1>3. Len(s) \in Nat /\ Len(s) <= Len(t) /\ \A i \in 1 .. Len(s) : s[i] = t[i]
  BY <1>1, <1>2
<1>4. SubSeq(s, 1, Len(s)) = SubSeq(t, 1, Len(s))
  BY <1>1, <1>2, <1>3
<1>5. Filling!IsPrefix(s, s) /\ Filling!IsPrefix(s, t)
  BY <1>3, <1>4 DEF Filling!IsPrefix
<1>6. QED
  BY <1>5 DEF t, y

\* Appended comments come after what was there.
LEMMA NotesKept ==
  ASSUME NEW template, IsTemplate(template), NEW results, NEW n, AreResults(results, n), NEW append
  PROVE  append => Filling!NotesAreKept(template, Filling!CompletedCkl(template, results, append).entries)
<1> DEFINE entries == Filling!CompletedCkl(template, results, append).entries
<1>1. ASSUME NEW i \in DOMAIN template
      PROVE  \/ entries[i].comments = template[i].comments
             \/ \E x : entries[i].comments = Kept(template[i], append) \o <<x>>
  <2>1. CASE Named(results, template[i].vuln) = {} \/ template[i].vuln \notin StigIds
    BY <2>1, XmlEntryKept
  <2>2. CASE Named(results, template[i].vuln) # {} /\ template[i].vuln \in StigIds
    <3>1. PICK k : IsLastOf(results, template[i].vuln, k)
      BY <2>2, LastOfName
    <3>2. entries[i] = [vuln |-> template[i].vuln, status |-> Filling!CklStatus(results[k].status),
                        comments |-> Kept(template[i], append) \o <<results[k].status>>]
      BY <2>2, <3>1, XmlEntryTaken
    <3> HIDE DEF entries
    <3>3. entries[i].comments = Kept(template[i], append) \o <<results[k].status>>
      BY <3>2
    <3>4. QED
      BY <3>3, Zenon
  <2>3. QED
    BY <2>1, <2>2
<1> HIDE DEF entries
<1>2. \A i \in DOMAIN template : append => Kept(template[i], append) = template[i].comments
  BY Zenon DEF Kept
<1>3. ASSUME NEW i \in DOMAIN template
      PROVE  /\ Filling!IsPrefix(template[i].comments, template[i].comments)
             /\ \A x : Filling!IsPrefix(template[i].comments, template[i].comments \o <<x>>)
  <2> DEFINE notes == template[i].comments
  <2>1. notes \in Seq(Filling!ToSet(notes))
    BY DEF IsTemplate
  <2> HIDE DEF notes
  <2>2. Filling!IsPrefix(notes, notes) /\ \A x : Filling!IsPrefix(notes, notes \o <<x>>)
    BY <2>1, PrefixOfMore
  <2>3. QED
    BY <2>2 DEF notes
<1>4. \A i \in DOMAIN template : append => Filling!IsPrefix(template[i].comments, entries[i].comments)
  BY <1>1, <1>2, <1>3, Zenon
<1>5. append => Filling!NotesAreKept(template, entries)
  BY <1>4, Zenon DEF Filling!NotesAreKept
<1>6. QED
  BY <1>5 DEF entries

\* The JSON form read back has the statuses of the XML form.
LEMMA FormatsSame ==
  ASSUME IdsAssumption, NEW template, IsTemplate(template), NEW results, NEW n, AreResults(results, n), NEW append
  PROVE  Filling!FormatsAgree(template, results, Filling!CompletedCkl(template, results, append).entries)
<1> DEFINE entries == Filling!CompletedCkl(template, results, append).entries
           json == Filling!CompletedCklb(template, results, TRUE).entries
           read == Filling!ImportedCklb(json)
<1>1. ASSUME NEW i \in DOMAIN template, template[i].vuln \in StigIds \cap {results[k].vuln : k \in DOMAIN results}
      PROVE  read[i] = [vuln |-> template[i].vuln, status |-> entries[i].status]
  <2>1. Named(results, template[i].vuln) # {} /\ template[i].vuln # None
    BY <1>1 DEF Named, IdsAssumption
  <2>2. PICK k : IsLastOf(results, template[i].vuln, k)
    BY <2>1, LastOfName
  <2>3. results[k].status \in Filling!Statuses
    BY <2>2 DEF IsLastOf, Named, AreResults
  <2>4. entries[i] = [vuln |-> template[i].vuln, status |-> Filling!CklStatus(results[k].status),
                      comments |-> Kept(template[i], append) \o <<results[k].status>>]
    BY <1>1, <2>2, XmlEntryTaken
  <2>5. DOMAIN json = DOMAIN template /\ json[i].vuln = template[i].vuln
          /\ json[i].status = Filling!CklbStatus(results[k].status)
    <3>1. \A b : LET j == Filling!CompletedCklb(template, results, b).entries
                 IN  DOMAIN j = DOMAIN template /\ j[i].vuln = template[i].vuln
                       /\ j[i].status = Filling!CklbStatus(results[k].status)
      BY <2>1, <2>2, JsonEntry
    <3>2. QED
      BY <3>1, Zenon
  <2> HIDE DEF entries, json
  <2>6. read[i] = [vuln |-> json[i].vuln, status |-> Filling!Internal(json[i].status)]
    BY <2>5 DEF Filling!ImportedCklb
  <2>7. Filling!Internal(json[i].status) = entries[i].status
    BY <2>3, <2>4, <2>5, StatusThere
  <2>8. QED
    BY <2>5, <2>6, <2>7
<1> HIDE DEF entries
<1>2. Filling!FormatsAgree(template, results, entries)
  BY <1>1 DEF Filling!FormatsAgree
<1>3. QED
  BY <1>2 DEF entries

--------------------------------------------------------------------------------
(* The files of a run.  Of those with one name the last one written is left.   *)
LEMMA LastPair ==
  ASSUME NEW a \in Nat, NEW b \in Nat, NEW S \in SUBSET ((1 .. a) \X (1 .. b)), S # {}
  PROVE  \E m \in S : \A n \in S : Filling!NoLater(n, m)
<1> DEFINE T == {n[1] : n \in S}
<1>1. \A n \in S : n[1] \in 1 .. a /\ n[2] \in 1 .. b /\ n = <<n[1], n[2]>>
  OBVIOUS
<1>2. T \in SUBSET (1 .. a) /\ T # {}
  BY <1>1
<1>3. PICK t \in T : \A u \in T : u <= t
  <2> HIDE DEF T
  <2>1. QED
    BY <1>2, FinalOne
<1> DEFINE J == {n[2] : n \in {n \in S : n[1] = t}}
<1>4. J \in SUBSET (1 .. b) /\ J # {}
  BY <1>1, <1>3
<1>5. PICK j \in J : \A k \in J : k <= j
  <2> HIDE DEF J
  <2>1. QED
    BY <1>4, FinalOne
<1>6. PICK m \in S : m[1] = t /\ m[2] = j
  BY <1>5
<1>7. ASSUME NEW n \in S
      PROVE  Filling!NoLater(n, m)
  <2>1. n[1] \in T /\ n[1] <= t
    BY <1>3
  <2>2. n[1] = t => n[2] <= j
    BY <1>5
  <2>3. n[1] \in Nat /\ t \in Nat
    BY <1>1, <1>2
  <2> HIDE DEF T, J
  <2>4. QED
    BY <1>6, <2>1, <2>2, <2>3 DEF Filling!NoLater
<1>8. QED
  BY <1>7

\* Of the files with one name, one that was written is left.
LEMMA FileLeft ==
  ASSUME NEW a \in Nat, NEW b \in Nat, NEW writes, DOMAIN writes \in SUBSET ((1 .. a) \X (1 .. b)),
         NEW n \in DOMAIN writes
  PROVE  \E m \in DOMAIN writes :
           /\ writes[m].file = writes[n].file
           /\ writes[n].file \in DOMAIN Filling!Folder(writes)
           /\ Filling!Folder(writes)[writes[n].file] = writes[m]
<1> DEFINE f == writes[n].file
           named == {m \in DOMAIN writes : writes[m].file = f}
           m == CHOOSE m \in named : \A l \in named : Filling!NoLater(l, m)
<1>1. named \in SUBSET ((1 .. a) \X (1 .. b)) /\ named # {}
  OBVIOUS
<1>2. \E k \in named : \A l \in named : Filling!NoLater(l, k)
  <2> HIDE DEF named
  <2>1. QED
    BY <1>1, LastPair
<1>3. m \in named
  <2> HIDE DEF named
  <2>1. QED
    BY <1>2, Zenon
<1>4. f \in DOMAIN Filling!Folder(writes) /\ Filling!Folder(writes)[f] = writes[m]
  BY DEF Filling!Folder
<1>5. QED
  BY <1>3, <1>4

(* The checklists of a run, and where each one comes from.                     *)
LEMMA WrittenFrom ==
  ASSUME NEW targets, NEW assets, NEW jobs, NEW results, NEW append,
         NEW n \in DOMAIN Filling!Writes(targets, assets, jobs, results, append)
  PROVE  LET w   == Filling!Writes(targets, assets, jobs, results, append)[n]
             ip  == targets[n[1]]
             job == jobs[n[2]]
             share == Filling!Share(results, ip, job)
         IN  /\ n \in (DOMAIN targets) \X (DOMAIN jobs) /\ ip \in DOMAIN assets
             /\ w.file = <<Filling!SafeName(assets[ip]), Filling!SafeName(ip), job.label>>
             /\ w.ip = ip /\ w.job = job /\ w.results = share
             /\ w.checklist = Filling!CompletedCkl(job.template, share, append)
<1>1. n \in (DOMAIN targets) \X (DOMAIN jobs) /\ targets[n[1]] \in DOMAIN assets
        /\ n \in Filling!Due(targets, assets, jobs, results)
  BY DEF Filling!Writes, Filling!Due
<1> DEFINE ip == targets[n[1]]
           job == jobs[n[2]]
<1>2. Filling!Writes(targets, assets, jobs, results, append)[n]
        = Filling!Write(ip, assets[ip], job, Filling!Share(results, ip, job), append)
  BY <1>1 DEF Filling!Writes
<1>3. LET w == Filling!Write(ip, assets[ip], job, Filling!Share(results, ip, job), append)
      IN  /\ w.file = <<Filling!SafeName(assets[ip]), Filling!SafeName(ip), job.label>>
          /\ w.ip = ip /\ w.job = job /\ w.results = Filling!Share(results, ip, job)
          /\ w.checklist = Filling!CompletedCkl(job.template, Filling!Share(results, ip, job), append)
  BY DEF Filling!Write
<1> HIDE DEF ip, job
<1>4. QED
  BY <1>1, <1>2, <1>3 DEF ip, job

--------------------------------------------------------------------------------
(* A result is in the checklist of its device that is left in the folder.      *)
LEMMA SharedResults ==
  ASSUME NEW results, NEW n, AreResults(results, n), NEW ip, NEW job
  PROVE  LET share == Filling!Share(results, ip, job)
         IN  /\ AreResults(share, n)
             /\ \A k : k \in DOMAIN share <=>
                  k \in DOMAIN results /\ results[k].ip = ip /\ results[k].family \in job.families
             /\ \A k \in DOMAIN share : share[k] = results[k]
<1> DEFINE share == Filling!Share(results, ip, job)
<1>1. /\ \A k : k \in DOMAIN share <=>
             k \in DOMAIN results /\ results[k].ip = ip /\ results[k].family \in job.families
      /\ \A k \in DOMAIN share : share[k] = results[k]
  BY DEF Filling!Share
<1> HIDE DEF share
<1>2. AreResults(share, n)
  BY <1>1 DEF AreResults
<1>3. QED
  BY <1>1, <1>2 DEF share

WrittenFor(run, jobs) == Filling!Writes(run.targets, run.assets, jobs, run.results, run.append)

\* An evaluated device with a result of a job has a checklist.
LEMMA ChecklistDue ==
  ASSUME NEW run, NEW jobs, NEW k \in DOMAIN run.results, NEW n, AreResults(run.results, n),
         NEW t \in DOMAIN run.targets, run.targets[t] = run.results[k].ip, run.results[k].ip \in DOMAIN run.assets,
         NEW j \in DOMAIN jobs, run.results[k].family \in jobs[j].families
  PROVE  <<t, j>> \in DOMAIN WrittenFor(run, jobs)
<1> DEFINE share == Filling!Share(run.results, run.targets[t], jobs[j])
<1>1. k \in DOMAIN share
  BY SharedResults
<1> HIDE DEF share
<1>2. DOMAIN share # {}
  BY <1>1
<1>3. <<t, j>> \in Filling!Due(run.targets, run.assets, jobs, run.results)
  BY <1>2 DEF Filling!Due, share
<1>4. QED
  BY <1>3 DEF WrittenFor, Filling!Writes

IsLeft(writes, n) ==
  \E m \in DOMAIN writes : /\ writes[m].file = writes[n].file
                           /\ writes[n].file \in DOMAIN Filling!Folder(writes)
                           /\ Filling!Folder(writes)[writes[n].file] = writes[m]

\* One of the files of a run with a name is left in the folder.
LEMMA FileOfRun ==
  ASSUME NEW run, IsRun(run), NEW jobs, NEW selected, NEW ids, AreJobs(jobs, selected, run.paths, ids),
         NEW p \in DOMAIN WrittenFor(run, jobs)
  PROVE  IsLeft(WrittenFor(run, jobs), p)
<1> DEFINE writes == WrittenFor(run, jobs)  a == Len(run.targets)  b == Len(jobs)
<1>1. a \in Nat /\ b \in Nat
  BY DEF IsRun, IsList, AreJobs
<1>2. DOMAIN writes \subseteq (DOMAIN run.targets) \X (DOMAIN jobs)
  BY DEF WrittenFor, Filling!Writes, Filling!Due
<1>3. DOMAIN run.targets = 1 .. a /\ DOMAIN jobs = 1 .. b
  BY DEF IsRun, IsList, AreJobs
<1> HIDE DEF writes, a, b
<1>4. DOMAIN writes \in SUBSET ((1 .. a) \X (1 .. b)) /\ p \in DOMAIN writes
  BY <1>2, <1>3 DEF writes
<1>5. QED
  BY <1>1, <1>4, FileLeft DEF writes, IsLeft

\* The last result with an identifier is in the checklist or is unmatched.
LEMMA ResultIsSaid ==
  ASSUME NEW template, IsTemplate(template), NEW share, NEW n, AreResults(share, n), NEW append,
         NEW v \in StigIds, NEW k, IsLastOf(share, v, k)
  PROVE  LET c == Filling!CompletedCkl(template, share, append)
         IN  \/ v \in c.unmatched
             \/ \E i \in DOMAIN c.entries :
                  c.entries[i].vuln = v /\ c.entries[i].status = Filling!CklStatus(share[k].status)
<1> DEFINE c == Filling!CompletedCkl(template, share, append)
<1>1. k \in DOMAIN share /\ share[k].vuln = v
  BY DEF IsLastOf, Named
<1>2. CASE v \notin Filling!VulnIds(template)
  BY <1>1, <1>2, XmlUnmatched
<1>3. CASE v \in Filling!VulnIds(template)
  <2>1. PICK i \in DOMAIN template : template[i].vuln = v
    BY <1>3 DEF Filling!VulnIds
  <2>2. i \in DOMAIN c.entries
    BY <2>1, XmlDomain
  <2>3. c.entries[i] = [vuln |-> template[i].vuln, status |-> Filling!CklStatus(share[k].status),
                        comments |-> Kept(template[i], append) \o <<share[k].status>>]
    <3>1. template[i].vuln \in StigIds /\ IsLastOf(share, template[i].vuln, k)
      BY <2>1
    <3>2. QED
      BY <3>1, XmlEntryTaken
  <2> HIDE DEF c
  <2>4. c.entries[i].vuln = v /\ c.entries[i].status = Filling!CklStatus(share[k].status)
    BY <2>1, <2>3
  <2>5. QED
    BY <2>2, <2>4 DEF c
<1>4. QED
  BY <1>2, <1>3

HasNoNamesake(run, k) ==
  ~ \E t \in DOMAIN run.targets : /\ run.targets[t] # run.results[k].ip
                                  /\ Filling!SafeName(run.targets[t]) = Filling!SafeName(run.results[k].ip)
IsNotRepeated(run, k) ==
  ~ \E l \in DOMAIN run.results : /\ k < l /\ run.results[l].ip = run.results[k].ip
                                  /\ run.results[l].vuln = run.results[k].vuln

\* Without a namesake and a later result, a result is where it belongs.
LEMMA ResultDelivered ==
  ASSUME NEW run, IsRun(run), NEW jobs, NEW selected, NEW ids, AreJobs(jobs, selected, run.paths, ids),
         AreResults(run.results, Len(run.results)),
         NEW k \in DOMAIN run.results, run.results[k].ip \in DOMAIN run.assets, run.results[k].vuln \in StigIds,
         run.results[k].family \in Filling!Families(jobs),
         HasNoNamesake(run, k), IsNotRepeated(run, k)
  PROVE  Filling!Delivered(run.results[k], WrittenFor(run, jobs))
<1> DEFINE r == run.results[k]
           writes == WrittenFor(run, jobs)
<1>1. PICK t \in DOMAIN run.targets : run.targets[t] = r.ip
  BY DEF IsRun
<1>2. PICK j \in DOMAIN jobs : r.family \in jobs[j].families
  BY DEF Filling!Families
<1>3. <<t, j>> \in DOMAIN writes
  BY <1>1, <1>2, ChecklistDue
<1>4. PICK m \in DOMAIN writes : /\ writes[m].file = writes[<<t, j>>].file
                                 /\ writes[<<t, j>>].file \in DOMAIN Filling!Folder(writes)
                                 /\ Filling!Folder(writes)[writes[<<t, j>>].file] = writes[m]
  <2>1. \A p \in DOMAIN writes : IsLeft(writes, p)
    BY FileOfRun
  <2> HIDE DEF writes
  <2>2. QED
    BY <1>3, <2>1, Zenon DEF IsLeft
<1> DEFINE ip == run.targets[m[1]]  job == jobs[m[2]]  share == Filling!Share(run.results, ip, job)
<1>5. /\ m \in (DOMAIN run.targets) \X (DOMAIN jobs)
      /\ writes[m].file = <<Filling!SafeName(run.assets[ip]), Filling!SafeName(ip), job.label>>
      /\ writes[m].ip = ip /\ writes[m].checklist = Filling!CompletedCkl(job.template, share, run.append)
  BY WrittenFrom DEF WrittenFor
<1>6. /\ writes[<<t, j>>].file = <<Filling!SafeName(run.assets[r.ip]), Filling!SafeName(r.ip), jobs[j].label>>
  <2>1. LET p == <<t, j>>
        IN  writes[p].file = <<Filling!SafeName(run.assets[run.targets[p[1]]]), Filling!SafeName(run.targets[p[1]]),
                               jobs[p[2]].label>>
    BY <1>3, WrittenFrom DEF WrittenFor
  <2> HIDE DEF writes
  <2>2. QED
    BY <1>1, <2>1
<1> HIDE DEF writes
<1>7. Filling!SafeName(ip) = Filling!SafeName(r.ip) /\ job.label = jobs[j].label
  <2>1. <<Filling!SafeName(run.assets[ip]), Filling!SafeName(ip), job.label>>
          = <<Filling!SafeName(run.assets[r.ip]), Filling!SafeName(r.ip), jobs[j].label>>
    BY <1>4, <1>5, <1>6, Zenon
  <2> DEFINE x == Filling!SafeName(run.assets[ip])  y == Filling!SafeName(ip)  z == job.label
             u == Filling!SafeName(run.assets[r.ip])  v == Filling!SafeName(r.ip)  w == jobs[j].label
  <2>2. <<x, y, z>> = <<u, v, w>>
    BY <2>1
  <2> HIDE DEF x, y, z, u, v, w
  <2>3. y = v /\ z = w
    BY <2>2
  <2>4. QED
    BY <2>3 DEF y, v, z, w
<1>8. m[1] \in DOMAIN run.targets /\ m[2] \in DOMAIN jobs
  BY <1>5
<1>9. ip = r.ip
  BY <1>7, <1>8 DEF HasNoNamesake
<1>10. m[2] = j
  BY <1>7, <1>8 DEF AreJobs
<1>11. /\ AreResults(share, Len(run.results)) /\ k \in DOMAIN share /\ share[k] = r
       /\ \A l \in DOMAIN share : l \in DOMAIN run.results /\ share[l] = run.results[l] /\ share[l].ip = r.ip
  BY <1>2, <1>9, <1>10, SharedResults
<1>12. IsLastOf(share, r.vuln, k)
  <2>1. \A l \in DOMAIN share : share[l].vuln = r.vuln => ~ (k < l)
    BY <1>11 DEF IsNotRepeated
  <2>2. k \in Nat /\ \A l \in DOMAIN share : l \in Nat
    BY <1>11 DEF AreResults
  <2> HIDE DEF share, r
  <2>3. QED
    BY <1>11, <2>1, <2>2 DEF IsLastOf, Named
<1> DEFINE c == writes[m].checklist
<1>13. c = Filling!CompletedCkl(jobs[j].template, share, run.append)
  BY <1>5, <1>10
<1>14. IsTemplate(jobs[j].template)
  BY DEF AreJobs, IsRun, Keys
<1> DEFINE f == writes[<<t, j>>].file  folder == Filling!Folder(writes)
<1>15. f \in DOMAIN folder /\ folder[f].ip = r.ip /\ folder[f].checklist = c
  BY <1>4, <1>5, <1>9
<1>16. \/ r.vuln \in c.unmatched
       \/ \E i \in DOMAIN c.entries : c.entries[i].vuln = r.vuln /\ c.entries[i].status = Filling!CklStatus(r.status)
  <2> DEFINE v == r.vuln
  <2>1. v \in StigIds /\ IsLastOf(share, v, k) /\ share[k] = r /\ AreResults(share, Len(run.results))
    BY <1>11, <1>12
  <2> HIDE DEF share, v, r, c
  <2>2. QED
    BY <1>13, <1>14, <2>1, ResultIsSaid DEF v
<1> HIDE DEF r, c, f, folder
<1>17. \E g \in DOMAIN folder :
          LET w == folder[g]
          IN  /\ w.ip = r.ip
              /\ \/ r.vuln \in w.checklist.unmatched
                 \/ \E i \in DOMAIN w.checklist.entries :
                      w.checklist.entries[i].vuln = r.vuln /\ w.checklist.entries[i].status = Filling!CklStatus(r.status)
  BY <1>15, <1>16
<1>18. Filling!Delivered(r, writes)
  BY <1>17, Zenon DEF Filling!Delivered, folder
<1>19. QED
  BY <1>18 DEF r, writes

\* The promises together, for the jobs and files of a run.
LEMMA ChecklistsComplete ==
  ASSUME IdsAssumption, NEW run, IsRun(run)
  PROVE  Filling!ChecklistsAreComplete(run, ChecklistsOf(run).jobs, ChecklistsOf(run).writes)
<1> DEFINE jobs == Filling!TemplateJobs(run.selected, run.paths, run.ids)
           writes == WrittenFor(run, jobs)
<1>1. ChecklistsOf(run).jobs = jobs /\ ChecklistsOf(run).writes = writes
  BY DEF ChecklistsOf, WrittenFor
<1>2. AreJobs(jobs, run.selected, run.paths, run.ids)
  BY JobsAreSound
<1>3. AreResults(run.results, Len(run.results))
  BY DEF IsRun, IsList, AreResults
<1> HIDE DEF jobs
<1>4. Filling!FamiliesAreServed(run.selected, jobs, run.ids)
  BY <1>2, FamiliesServed
<1>5. ASSUME NEW k \in DOMAIN run.results, run.results[k].ip \in DOMAIN run.assets,
             run.results[k].family \in Filling!Families(jobs), run.results[k].vuln \in StigIds,
             HasNoNamesake(run, k), IsNotRepeated(run, k)
      PROVE  Filling!Delivered(run.results[k], writes)
  BY <1>2, <1>3, <1>5, ResultDelivered
<1>6. Filling!ResultsAreDelivered(run.targets, run.assets, Filling!Families(jobs), writes, run.results)
  <2> HIDE DEF writes
  <2>1. \A k \in DOMAIN run.results :
          /\ run.results[k].ip \in DOMAIN run.assets /\ run.results[k].family \in Filling!Families(jobs)
          /\ run.results[k].vuln \in StigIds /\ HasNoNamesake(run, k) /\ IsNotRepeated(run, k)
          => Filling!Delivered(run.results[k], writes)
    BY <1>5
  <2>2. QED
    BY <2>1, Zenon DEF Filling!ResultsAreDelivered, HasNoNamesake, IsNotRepeated
<1>7. ASSUME NEW m \in DOMAIN writes
      PROVE  LET w == writes[m]
             IN  /\ Filling!MarksAreBacked(w.job.template, w.results, w.checklist.entries)
                 /\ run.append => Filling!NotesAreKept(w.job.template, w.checklist.entries)
                 /\ Filling!FormatsAgree(w.job.template, w.results, w.checklist.entries)
  <2> DEFINE job == jobs[m[2]]  template == job.template
             share == Filling!Share(run.results, run.targets[m[1]], job)
             n == Len(run.results)
             w == writes[m]
  <2>1. /\ m \in (DOMAIN run.targets) \X (DOMAIN jobs)
        /\ w.job = job /\ w.results = share
        /\ w.checklist = Filling!CompletedCkl(template, share, run.append)
    BY WrittenFrom DEF WrittenFor
  <2>2. IsTemplate(template)
    BY <1>2, <2>1 DEF AreJobs, IsRun, Keys
  <2>3. AreResults(share, n)
    BY <1>3, SharedResults
  <2> HIDE DEF template, share, n, w
  <2>4. /\ Filling!MarksAreBacked(template, share, Filling!CompletedCkl(template, share, run.append).entries)
        /\ run.append => Filling!NotesAreKept(template, Filling!CompletedCkl(template, share, run.append).entries)
        /\ Filling!FormatsAgree(template, share, Filling!CompletedCkl(template, share, run.append).entries)
    BY <2>2, <2>3, MarksBacked, NotesKept, FormatsSame, Zenon
  <2>5. w.job.template = template
    BY <2>1 DEF template
  <2>6. QED
    BY <2>1, <2>4, <2>5, Zenon DEF w
<1> HIDE DEF writes
<1>8. Filling!ChecklistsAreComplete(run, jobs, writes)
  BY <1>4, <1>6, <1>7, Zenon DEF Filling!ChecklistsAreComplete
<1>9. QED
  BY <1>1, <1>8

--------------------------------------------------------------------------------
(* The theorems                                                                *)

(* For any two releases and any library of checks: every rule of either side   *)
(* is in one place of the comparison, and every new procedure, every lost rule *)
(* and every text that changed is named to the reviewer.                       *)
(* stig_diff.py:173-493, stig_comparator.py:392-596.                           *)
THEOREM ReleasesAreReviewed == JudgeSpec => []ReleaseReviewIsComplete
<1>1. JudgeInv => ReleaseReviewIsComplete
  BY ReleaseIsReviewed DEF JudgeInv, ReleaseReviewIsComplete, Answered
<1>2. QED
  BY <1>1, JudgeInvariance, PTL

(* For any registry of commands written with single spaces, and any library:   *)
(* what a session sends is approved, each command once, however it is spelled. *)
(* command_policy.py:138-183, models.py:95-191, command_planner.py:31-47.      *)
THEOREM PlansStayApproved ==
  ASSUME PolicyAssumption
  PROVE  JudgeSpec => []PlansAreApproved
<1>1. JudgeInv => PlansAreApproved
  BY PlanApproved DEF JudgeInv, IsCase, PlansAreApproved, Answered
<1>2. QED
  BY <1>1, JudgeInvariance, PTL

(* For any targets, library, profile and folders: an audit that is said to be  *)
(* ready can run, and what cannot run is never ready.                          *)
(* preflight_service.py:58-215.                                                *)
THEOREM ReadinessStaysHonest ==
  ASSUME PolicyAssumption
  PROVE  JudgeSpec => []ReadinessIsHonest
<1>1. JudgeInv => ReadinessIsHonest
  BY ReadyIsRunnable DEF JudgeInv, IsCase, ReadinessIsHonest, Answered
<1>2. QED
  BY <1>1, JudgeInvariance, PTL

(* For any templates, targets and results of a run: a checklist marks a rule   *)
(* as compliant only on a result that says so, keeps the notes of an assessor, *)
(* says the same in both formats, and no result of a device is lost.           *)
(* main_window.py:125-241 and 2337-2365, ckl_writer.py, cklb_writer.py.        *)
THEOREM ChecklistsStayTrue ==
  ASSUME IdsAssumption
  PROVE  JudgeSpec => []ChecklistsSayTheResults
<1>1. ASSUME JudgeInv, Answered("checklist")
      PROVE  Filling!ChecklistsAreComplete(case, verdict.jobs, verdict.writes)
  <2>1. IsRun(case) /\ verdict = ChecklistsOf(case)
    BY <1>1 DEF JudgeInv, IsCase, Answered
  <2>2. QED
    BY <2>1, ChecklistsComplete
<1>2. JudgeInv => ChecklistsSayTheResults
  BY <1>1 DEF ChecklistsSayTheResults
<1>3. QED
  BY <1>2, JudgeInvariance, PTL
================================================================================
