------------------------------- MODULE Checklists -------------------------------
(* The results of a run written into DISA checklists: which templates a run of *)
(* the Professional window fills, what is filled in, which files come of it    *)
(* (gui/main_window.py, stig/ckl_writer.py), and the JSON form that is written *)
(* and read back (stig/cklb_writer.py).  A template is a sequence of entries   *)
(* [vuln, status, comments]; a result is [ip, vuln, family, status]; a comment *)
(* is a member of a sequence, the generated one named by the status it quotes. *)
(* Results keep their place in the list of the run also where only some of     *)
(* them are meant.                                                             *)
EXTENDS Integers, FiniteSets, SequencesExt

CONSTANTS None, StigIds   \* StigIds: the identifiers that begin with "V-"

(* Mutant: a check that could not be run is filled in as compliant. *)
CompliantUnlessOpen(status) == IF status \in {"Error", "Skipped"} THEN "NotAFinding" ELSE status

Statuses  == {"NotAFinding", "Open", "Not_Applicable", "Not_Reviewed", "Error", "Skipped"}
Supported == {"IOSXE_L2", "IOSXE_NDM"}

VulnIds(template) == {template[i].vuln : i \in DOMAIN template} \ {None}

(* The status a checklist has for a status of the engine, and back from CKLB. *)
CklStatus(status) == IF status \in {"Error", "Skipped"} THEN "Not_Reviewed" ELSE status
CklbNames == [NotAFinding |-> "not_a_finding", Open |-> "open",
              Not_Applicable |-> "not_applicable", Not_Reviewed |-> "not_reviewed"]
CklbStatus(status) == CklbNames[CklStatus(status)]
Internal(name) ==
  IF \E s \in DOMAIN CklbNames : CklbNames[s] = name
  THEN CHOOSE s \in DOMAIN CklbNames : CklbNames[s] = name
  ELSE "Not_Reviewed"

(* The results by identifier: of two with the same one, the last is kept. *)
ResultsByVuln(results, ids) ==
  [v \in {results[i].vuln : i \in DOMAIN results} \cap ids |->
     LET named == {i \in DOMAIN results : results[i].vuln = v}
     IN  results[CHOOSE i \in named : \A j \in named : j <= i]]

(* "written" gives the name a status of the engine has in the format.          *)
Populate(template, by, written, append) ==
  [i \in DOMAIN template |->
     LET entry == template[i]
     IN  IF entry.vuln \notin DOMAIN by THEN entry
         ELSE LET s == by[entry.vuln].status
              IN  [entry EXCEPT !.status   = written[s],
                                !.comments = (IF append THEN @ ELSE <<>>) \o <<s>>]]

Filled(template, by, written, append) ==
  [entries |-> Populate(template, by, written, append), unmatched |-> DOMAIN by \ VulnIds(template)]

CompletedCkl(template, results, append) ==
  Filled(template, ResultsByVuln(results, StigIds), [s \in Statuses |-> CklStatus(s)], append)

CompletedCklb(template, results, append) ==
  LET named == {results[i].vuln : i \in DOMAIN results} \ {None}
  IN  Filled(template, ResultsByVuln(results, named), [s \in Statuses |-> CklbStatus(s)], append)

ImportedCklb(entries) ==
  [i \in DOMAIN entries |-> [vuln |-> entries[i].vuln, status |-> Internal(entries[i].status)]]

--------------------------------------------------------------------------------
(* The templates of a run, or <<>> where the operator is told to choose others.*)
(* "ids" are the vulnerabilities of the loaded checks of each family.          *)
FitsFamilies(template, families, ids) == \A f \in families : VulnIds(template) \cap ids[f] # {}

TemplateJob(key, families, paths, ids) ==
  IF paths[key] # None /\ FitsFamilies(paths[key], families, ids)
  THEN <<[families |-> families, template |-> paths[key], label |-> key]>>
  ELSE <<>>

TemplateJobs(selected, paths, ids) ==
  LET known    == selected \cap Supported
      own(f)   == TemplateJob(f, {f}, paths, ids)
      both     == TemplateJob("COMBINED", Supported, paths, ids)
      separate == own("IOSXE_L2") \o own("IOSXE_NDM")
  IN  CASE known = {}                                -> <<>>
        [] known = Supported /\ both # <<>>          -> both
        [] known = Supported /\ both = <<>>          -> IF Len(separate) = 2 THEN separate ELSE <<>>
        [] known = {"IOSXE_L2"}                      -> own("IOSXE_L2")
        [] known = {"IOSXE_NDM"}                     -> own("IOSXE_NDM")

(* Every character of a name that a file may not have becomes "_". *)
SafeName(name) == IF name \in {"1::2:3", "1:2::3"} THEN "1_2_3" ELSE name

(* One file for each evaluated device and job that has results of it, numbered *)
(* as the loops go through targets and jobs; "assets" gives the host name of   *)
(* each device that was evaluated.  A later file takes the place of an earlier *)
(* one with the same name.                                                     *)
Share(results, ip, job) ==
  [k \in {k \in DOMAIN results : results[k].ip = ip /\ results[k].family \in job.families} |-> results[k]]

Due(targets, assets, jobs, results) ==
  {n \in (DOMAIN targets) \X (DOMAIN jobs) :
     targets[n[1]] \in DOMAIN assets /\ DOMAIN Share(results, targets[n[1]], jobs[n[2]]) # {}}

Write(ip, host, job, share, append) ==
  [file |-> <<SafeName(host), SafeName(ip), job.label>>, ip |-> ip, job |-> job, results |-> share,
   checklist |-> CompletedCkl(job.template, share, append)]

Writes(targets, assets, jobs, results, append) ==
  [n \in Due(targets, assets, jobs, results) |->
     LET ip == targets[n[1]]  job == jobs[n[2]]
     IN  Write(ip, assets[ip], job, Share(results, ip, job), append)]

NoLater(m, n) == m[1] < n[1] \/ (m[1] = n[1] /\ m[2] <= n[2])

Folder(writes) ==
  [f \in {writes[n].file : n \in DOMAIN writes} |->
     LET named == {n \in DOMAIN writes : writes[n].file = f}
     IN  writes[CHOOSE n \in named : \A m \in named : NoLater(m, n)]]

--------------------------------------------------------------------------------
(* A completed checklist says of a rule what the results of its device or the *)
(* template say; an entry without a result keeps everything it had.            *)
MarksAreBacked(template, results, entries) ==
  \A i \in DOMAIN template :
    LET said == {results[k].status : k \in {k \in DOMAIN results : results[k].vuln = template[i].vuln}}
    IN  IF said = {} \/ template[i].vuln \notin StigIds THEN entries[i] = template[i]
        ELSE /\ entries[i].vuln = template[i].vuln
             /\ entries[i].status = "NotAFinding" => "NotAFinding" \in said
             /\ said = {"Open"} => entries[i].status = "Open"

(* The comments of an assessor in a template are kept when text is appended.   *)
NotesAreKept(template, entries) ==
  \A i \in DOMAIN template : IsPrefix(template[i].comments, entries[i].comments)

(* The JSON form, written and read back, gives the statuses of the XML form.   *)
FormatsAgree(template, results, entries) ==
  LET read == ImportedCklb(CompletedCklb(template, results, TRUE).entries)
  IN  \A i \in DOMAIN template :
        template[i].vuln \in StigIds \cap {results[k].vuln : k \in DOMAIN results}
          => read[i] = [vuln |-> template[i].vuln, status |-> entries[i].status]

(* Each selected family is in exactly one job, whose template holds it.        *)
FamiliesAreServed(selected, jobs, ids) ==
  jobs # <<>> =>
    \A f \in selected \cap Supported :
      \E j \in DOMAIN jobs :
        /\ f \in jobs[j].families /\ VulnIds(jobs[j].template) \cap ids[f] # {}
        /\ \A other \in DOMAIN jobs \ {j} : f \notin jobs[other].families

(* A result of a selected family of an evaluated device is in a checklist of   *)
(* that device that is left in the folder, or is counted as unmatched, unless  *)
(* a later result of the device is for the same rule or another device has an  *)
(* address that is written to the same file name.                              *)
Delivered(r, writes) ==
  LET folder == Folder(writes)
  IN  \E f \in DOMAIN folder :
        LET w == folder[f]
        IN  /\ w.ip = r.ip
            /\ \/ r.vuln \in w.checklist.unmatched
               \/ \E i \in DOMAIN w.checklist.entries :
                    w.checklist.entries[i].vuln = r.vuln /\ w.checklist.entries[i].status = CklStatus(r.status)

ResultsAreDelivered(targets, assets, families, writes, results) ==
  LET namesake(ip) == \E t \in DOMAIN targets : targets[t] # ip /\ SafeName(targets[t]) = SafeName(ip)
      repeated(k)  == \E l \in DOMAIN results :
                        k < l /\ results[l].ip = results[k].ip /\ results[l].vuln = results[k].vuln
  IN  \A k \in DOMAIN results :
        LET r == results[k]
        IN  /\ r.ip \in DOMAIN assets /\ r.family \in families /\ r.vuln \in StigIds
            /\ ~ namesake(r.ip) /\ ~ repeated(k)
            => Delivered(r, writes)

Families(jobs) == UNION {jobs[j].families : j \in DOMAIN jobs}

ChecklistsAreComplete(run, jobs, writes) ==
  /\ FamiliesAreServed(run.selected, jobs, run.ids)
  /\ ResultsAreDelivered(run.targets, run.assets, Families(jobs), writes, run.results)
  /\ \A k \in DOMAIN writes :
       LET w == writes[k]
       IN  /\ MarksAreBacked(w.job.template, w.results, w.checklist.entries)
           /\ run.append => NotesAreKept(w.job.template, w.checklist.entries)
           /\ FormatsAgree(w.job.template, w.results, w.checklist.entries)
================================================================================
