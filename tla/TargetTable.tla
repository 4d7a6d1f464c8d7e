------------------------------- MODULE TargetTable -------------------------------
(* The target table of the Professional window (targets_tab.py), its device    *)
(* groups (device_groups.py, main_window.py) and the targets an audit gets.    *)
(* The list of targets and the widgets that show it are kept apart: a widget   *)
(* is found by the number of its row and read back before most operations.     *)
EXTENDS Absence, Integers, FiniteSets, SequencesExt

CONSTANTS
    Hosts, Profiles,  \* addresses; profiles beside None, no override
    Groups,        \* names of device groups
    FileOf(_)      \* safe_group_filename

VARIABLES
    targets,       \* the records: [ip, checked, profile]
    widgets,       \* what the rows show: [checked, profile]
    selected,      \* selected_index, None or a row
    values,        \* the profiles a row may choose
    groups,        \* the stored groups: file -> None or [name, targets]
    audited        \* the targets of the audit just started and what the rows showed
tableVars == <<targets, widgets, selected, values, groups, audited>>

TableAssumption == None \notin Nat    \* the number of a row is told apart from no row

Row(ip, setting) == [ip |-> ip, checked |-> setting.checked, profile |-> setting.profile]
Shown(rows) == [k \in DOMAIN rows |-> [checked |-> rows[k].checked, profile |-> rows[k].profile]]
Listed(rows) == {rows[k].ip : k \in DOMAIN rows}

TableInit ==
  /\ targets = <<>> /\ widgets = <<>> /\ selected = None /\ values = Profiles
  /\ groups = [f \in {FileOf(g) : g \in Groups} |-> None] /\ audited = None

\* _sync_row_state, and _render_rows after it or without it
Synced(rows) ==
  [k \in DOMAIN rows |-> IF k \in DOMAIN widgets THEN Row(rows[k].ip, widgets[k]) ELSE rows[k]]
Draw(rows)      == targets' = rows /\ widgets' = Shown(rows)
SyncAndDraw(rows) == Draw(Synced(rows))

--------------------------------------------------------------------------------
\* The widgets of a row; only the checkbox reads the rows back.
ClickCheck(k) ==
  /\ widgets' = [widgets EXCEPT ![k].checked = ~ @]
  /\ targets' = [i \in DOMAIN targets |-> Row(targets[i].ip, widgets'[i])]
  /\ UNCHANGED <<selected, values, groups>>

ChooseProfile(k) ==
  /\ \E p \in {None} \cup values : widgets' = [widgets EXCEPT ![k].profile = p]
  /\ UNCHANGED <<targets, selected, values, groups>>

(* add_single_ip, add_pasted_ips, import_targets: the addresses not listed are *)
(* appended in their order, each once.                                         *)
Orders(places) ==
  {at \in [1 .. Cardinality(places) -> places] : \A i, j \in DOMAIN at : i < j => at[i] < at[j]}
NewPlaces(ips) ==
  {k \in DOMAIN ips : ips[k] \notin Listed(targets) /\ \A j \in 1 .. k - 1 : ips[j] # ips[k]}
AddTargets(ips) ==
  /\ \E at \in Orders(NewPlaces(ips)) :
       SyncAndDraw(targets \o [i \in DOMAIN at |-> Row(ips[at[i]], [checked |-> TRUE, profile |-> None])])
  /\ selected' = IF NewPlaces(ips) # {} /\ selected = None THEN 1 ELSE selected
  /\ UNCHANGED <<values, groups>>

CheckAll(on) ==
  /\ Draw([k \in DOMAIN targets |-> [targets[k] EXCEPT !.checked = on]])
  /\ UNCHANGED <<selected, values, groups>>

SelectRow(k) ==
  /\ SyncAndDraw(targets) /\ selected' = k
  /\ UNCHANGED <<values, groups>>

(* Removal: the row leaves the list, then the rows are read back from widgets  *)
(* that still stand in their old places.                                       *)
Remaining(rows, at) == IF rows = <<>> THEN None ELSE IF at > Len(rows) THEN Len(rows) ELSE at
RemoveWithoutDrawing(k) ==
  LET rest == RemoveAt(Synced(targets), k)
  IN  /\ targets' = Synced(rest) /\ UNCHANGED widgets
      /\ selected' = Remaining(rest, k)
      /\ UNCHANGED <<values, groups>>

RemoveRow(k) ==
  LET rest == RemoveAt(Synced(targets), k)
  IN  /\ SyncAndDraw(rest)
      /\ selected' = Remaining(rest, k)
      /\ UNCHANGED <<values, groups>>

RemoveSelected ==
  /\ selected # None /\ selected <= Len(targets)
  /\ LET rest == RemoveAt(targets, selected)
     IN  SyncAndDraw(rest) /\ selected' = Remaining(rest, selected)
  /\ UNCHANGED <<values, groups>>

ClearTargets ==
  /\ targets # <<>> /\ Draw(<<>>) /\ selected' = None
  /\ UNCHANGED <<values, groups>>

(* set_targets, for a group, a preset or the failed devices of a run.          *)
SetTargets(rows) ==
  /\ Draw(rows) /\ selected' = IF rows = <<>> THEN None ELSE 1
  /\ UNCHANGED <<values>>

SaveGroup(g) ==
  /\ targets' = Synced(targets) /\ UNCHANGED widgets
  /\ groups' = [groups EXCEPT ![FileOf(g)] = [name |-> g, targets |-> targets']]
  /\ UNCHANGED <<selected, values>>

LoadGroup(g) ==
  /\ groups[FileOf(g)] # None
  /\ SetTargets(groups[FileOf(g)].targets) /\ UNCHANGED groups

RetryFailed(ips) ==
  /\ SetTargets([k \in DOMAIN ips |-> Row(ips[k], [checked |-> TRUE, profile |-> None])])
  /\ UNCHANGED groups

\* refresh_groups after a profile was created or deleted
ProfilesChange ==
  /\ values' \in SUBSET Profiles
  /\ widgets' = [k \in DOMAIN widgets |-> [widgets[k] EXCEPT !.profile = IF @ \in values' THEN @ ELSE None]]
  /\ targets' = [k \in DOMAIN targets |-> Row(targets[k].ip, widgets'[k])]
  /\ UNCHANGED <<selected, groups>>

\* set_device_status of a worker's event
DeviceStatus ==
  /\ SyncAndDraw(targets) /\ UNCHANGED <<selected, values, groups>>

\* get_targets, when an audit of a scope is started
InScope(scope, rows) ==
  {k \in DOMAIN rows : \/ scope = "all"
                       \/ scope = "checked" /\ rows[k].checked
                       \/ scope = "selected" /\ k = selected}
RunAudit(scope) ==
  /\ targets' = Synced(targets) /\ UNCHANGED widgets
  /\ \E at \in Orders(InScope(scope, targets')) :
       audited' = [scope |-> scope, shown |-> widgets, ips |-> [k \in DOMAIN targets |-> targets[k].ip],
                   row |-> selected, targets |-> [i \in DOMAIN at |-> targets'[at[i]]]]
  /\ UNCHANGED <<selected, values, groups>>

Lists == [1 .. 1 -> Hosts] \cup [1 .. 2 -> Hosts]
Operate ==
  \/ \E k \in DOMAIN targets : ClickCheck(k) \/ ChooseProfile(k) \/ SelectRow(k) \/ RemoveRow(k)
  \/ \E ips \in Lists : AddTargets(ips)
  \/ \E ips \in {<<a>> : a \in Hosts} : RetryFailed(ips)
  \/ \E on \in BOOLEAN : CheckAll(on)
  \/ RemoveSelected \/ ClearTargets \/ ProfilesChange \/ DeviceStatus
  \/ \E g \in Groups : SaveGroup(g) \/ LoadGroup(g)

TableNext ==
  \/ Operate /\ audited' = None
  \/ \E scope \in {"checked", "selected", "all"} : RunAudit(scope)

TableSpec == TableInit /\ [][TableNext]_tableVars

--------------------------------------------------------------------------------
(* An audit gets exactly the targets the table shows as its scope, with the    *)
(* overrides it shows, each address once, whatever was clicked, added, removed,*)
(* loaded or reported by a worker before; the table shows one row per target.  *)
(* targets_tab.py:761-769, :1106-1165, :1188-1196.                             *)
AuditIsWhatIsShown ==
  /\ Len(widgets) = Len(targets) /\ Cardinality(Listed(targets)) = Len(targets)
  /\ selected = None \/ selected \in DOMAIN targets
  /\ targets # <<>> => selected # None
  /\ audited # None =>
       \A k \in DOMAIN audited.shown :
         LET asked == CASE audited.scope = "checked"  -> audited.shown[k].checked
                        [] audited.scope = "selected" -> audited.row = k
                        [] OTHER                      -> TRUE
             found == {t \in ToSet(audited.targets) : t.ip = audited.ips[k]}
         IN  found = IF asked THEN {Row(audited.ips[k], audited.shown[k])} ELSE {}

(* "Remove ... from the target list?": a removal takes a target away and       *)
(* leaves what the rows show of the others.  targets_tab.py:1032.              *)
RemovalKeepsTheOthers ==
  [][Len(targets') = Len(targets) - 1 =>
       \A k \in DOMAIN targets', j \in DOMAIN targets :
         targets'[k].ip = targets[j].ip => widgets'[k] = widgets[j]]_tableVars
================================================================================
