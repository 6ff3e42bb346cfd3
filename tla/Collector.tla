------------------------------ MODULE Collector ------------------------------
(***************************************************************************)
(* One collection of one device: CollectorService.collect                  *)
(* (collector_service.py) over ParamikoSSHCollector.execute_commands       *)
(* (collectors.py).                                                        *)
(*                                                                         *)
(* A collection is a sequence of calls of execute_commands, at the places  *)
(* listed in Site.  Every call opens a connection of its own, with its own *)
(* retries, and sends a batch of probes.  So the connection can be lost    *)
(* at each of these places: some of them pass the CollectorError on, which *)
(* ends the collection, and the others go on as if the batch had said      *)
(* nothing.                                                                *)
(*                                                                         *)
(* A probe is sent at most once at each place, so what the host answers is *)
(* chosen at the start (`host`).  Texts are abstracted to whether the      *)
(* parser of the probe finds anything in them.                             *)
(***************************************************************************)
EXTENDS Naturals, FiniteSets

CONSTANTS
    Case,        \* the devices considered: their type and their host
    Drive,       \* probes smartctl_<name>, one per physical drive
    MaxRetries,  \* RetryStrategy.max_retries
    MaxLost,     \* bound: calls lost in one collection that goes on without them
    Running      \* the collection has not returned

VARIABLES
    device,      \* device["device_type"]
    host,        \* what the machine behind the connection answers
    site,        \* the call of execute_commands under way, or "end"
    attempt,     \* connections that failed in this call
    connects,    \* connections tried in this collection
    caps,        \* tools the capability probes found
    pve,         \* is_pve
    btrfs,       \* has_btrfs
    raw,         \* the output kept for each probe
    dfAnswer,    \* the first answer in df_errors
    buckets,     \* ErrorBuckets
    asked,       \* <<site, probe>> of every answer received
    lost,        \* sites whose call failed and was passed over
    result       \* what collect returns or raises

path == <<site, attempt, connects, asked, lost>>
found == <<caps, pve, btrfs, raw, dfAnswer, buckets>>
vars == <<device, host, path, found, result>>

-------------------------------------------------------------------------------
(* Probes *)

OneShot == {"hostname", "uname", "uptime", "loadavg", "meminfo", "stat_1", "net_1"}

SecondSample == {"stat_2", "net_2"}

\* BASELINE_KEYS: a failure of these is critical.
Baseline == OneShot \cup SecondSample \cup {"df"}

\* The probes behind each `command -v` check.
ToolProbes ==
    [lsblk |-> {"lsblk"}, findmnt |-> {"findmnt_root"}, docker |-> {"docker_info"},
     smartctl |-> {"smartctl_scan"}, zpool |-> {"zpool_list", "zpool_status"},
     zfs |-> {"zfs_list"}, btrfs |-> {"btrfs_show", "btrfs_device_stats", "btrfs_usage"},
     pveversion |-> {"pveversion"}, pvesm |-> {"pvesm"}, qm |-> {"qm_list"},
     pct |-> {"pct_list"}, ip |-> {"ip_br_addr", "ip_s_link"}]

Tool == DOMAIN ToolProbes

\* CAPABILITY_PROBES and PVE_CAPABILITY_PROBES
NasCapabilities ==
    {"lsblk", "smartctl", "zpool", "zfs", "btrfs", "findmnt", "docker", "pveversion", "pvesm"}

PveCapabilities ==
    {"pveversion", "pvesm", "qm", "pct", "zpool", "zfs", "smartctl", "btrfs", "findmnt", "ip"}

\* PVE_DETECTION_PROBES
Detection == {"pveversion", "pvesm", "pve_dir"}

Probe ==
    Baseline \cup (UNION {ToolProbes[t] : t \in Tool}) \cup Drive \cup {"mdstat", "zpool_status_text"}

\* NAS_METRIC_NAMES and PVE_METRIC_NAMES
NasMetrics ==
    {"lsblk", "smartctl_scan", "smart_attributes", "mdstat", "zpool_list", "zpool_status",
     "zfs_list", "btrfs_show", "btrfs_device_stats", "btrfs_usage"}

PveMetrics == {"pveversion", "pvesm", "qm_list", "pct_list", "ip_br_addr", "ip_s_link"}

\* Names that can stand in unavailable_indicators and not_applicable_indicators.
Metric == Probe \cup {"disk_partitions", "cpu", "network", "smart_attributes"}

Output == {"usable", "unusable", "none"}

\* How ErrorBuckets.classify tells errors apart.  A command that timed out, whose
\* channel broke or whose exit status is not 0 has failed.
Error == {"none", "absent", "denied", "failed"}

\* A command that exits with an error may still have printed something.
Answer == [output : Output, error : Error]

DeviceType == {"linux_server", "nas", "docker_host", "proxmox_host", "other"}

\* The places execute_commands is called from, in the order of the code.
Site ==
    {"batch1", "df", "df_P", "df_plain", "detect", "caps", "lsblk", "root", "probes",
     "scan", "drives", "text", "docker_caps", "docker_info", "batch2"}

\* A machine: the tools installed, whether it is a PVE node, where it has a btrfs
\* filesystem, the drives smartctl lists (after _normalize_smart_device), and the
\* probes it answers in a way of its own.
IsHost(h) ==
    /\ DOMAIN h = {"tools", "pve", "btrfs", "drives", "odd"}
    /\ h.tools \subseteq Tool
    /\ h.pve \in BOOLEAN
    /\ h.btrfs \in {"none", "data", "root"}
    /\ h.drives \subseteq Drive
    /\ \A x \in DOMAIN h.odd : h.odd[x] \in Answer

Buckets ==
    [critical : SUBSET Probe, permission : SUBSET Probe, optional : SUBSET Probe,
     unavailable : SUBSET Metric, notApplicable : SUBSET Metric]

ASSUME CollectorAssumption ==
    /\ \A c \in Case : c.type \in DeviceType /\ IsHost(c.host)
    /\ "df" \notin Drive
    /\ MaxRetries \in Nat
    /\ MaxLost \in Nat

-------------------------------------------------------------------------------
(* What is sent, and what comes back *)

PhaseTools ==
    IF pve THEN PveCapabilities \ {"findmnt"} ELSE {"smartctl", "zpool", "zfs", "btrfs", "pvesm"}

\* btrfs commands run only where a btrfs filesystem was seen.
UsableTools == {t \in PhaseTools \cap caps : t = "btrfs" => btrfs}

\* Every NAS has its md arrays read.
PhaseProbes ==
    (UNION {ToolProbes[t] : t \in UsableTools}) \cup (IF pve THEN {} ELSE {"mdstat"})

\* A NAS without pvesm is not told so.
SkippedMetrics ==
    LET skipped == PhaseTools \ (IF pve THEN UsableTools ELSE UsableTools \cup {"pvesm"})
    IN (UNION {ToolProbes[t] : t \in skipped})
          \cup (IF "smartctl" \in skipped THEN {"smart_attributes"} ELSE {})

\* The batch of the call under way.
Batch ==
    CASE site = "batch1" -> OneShot
      [] site \in {"df", "df_P", "df_plain"} -> {"df"}
      [] site = "detect" -> Detection
      [] site = "caps" -> IF pve THEN PveCapabilities ELSE NasCapabilities
      [] site = "lsblk" -> {"lsblk"}
      [] site = "root" -> {"findmnt_root"}
      [] site = "probes" -> PhaseProbes
      [] site = "scan" -> {"smartctl_scan"}
      [] site = "drives" -> host.drives
      [] site = "text" -> {"zpool_status_text"}
      [] site = "docker_caps" -> {"docker"}
      [] site = "docker_info" -> {"docker_info"}
      [] OTHER -> SecondSample

\* Places whose errors are dropped: what they ask is only whether a tool is there.
Silent == {"detect", "caps", "docker_caps"}

Fine == [output |-> "usable", error |-> "none"]
Broken == [output |-> "none", error |-> "failed"]
Gone == [output |-> "none", error |-> "absent"]

\* The answer to probe k, sent at s: a tool that is not there is not found, and
\* anything that is there works, unless `odd` says otherwise.
AnswerAt(s, k) ==
    LET works == CASE s = "detect" -> host.pve
                   [] s \in {"caps", "docker_caps"} -> k \in host.tools
                   [] OTHER -> TRUE
        isThere == s \in Silent \/ \A t \in Tool \ host.tools : k \notin ToolProbes[t]
    IN IF <<s, k>> \in DOMAIN host.odd THEN host.odd[<<s, k>>]
       ELSE IF ~isThere THEN Gone ELSE IF works THEN Fine ELSE Broken

Reply == [k \in Batch |-> AnswerAt(site, k)]

Silence == [k \in {} |-> [output |-> "none", error |-> "none"]]

Says(reply, k) == k \in DOMAIN reply /\ reply[k].output # "none"

With(outputs, reply) ==
    [k \in Probe |-> IF k \in DOMAIN reply THEN reply[k].output ELSE outputs[k]]

Erring(reply, error) == {k \in DOMAIN reply : reply[k].error = error}

\* Mutant: missing permission is left out, as a missing command is.
ClassifiedLeniently(b, reply) ==
    [b EXCEPT !.notApplicable = @ \cup Erring(reply, "absent") \cup Erring(reply, "denied"),
              !.critical = @ \cup (Erring(reply, "failed") \cap Baseline),
              !.optional = @ \cup (Erring(reply, "failed") \ Baseline)]

\* ErrorBuckets.classify, for every error of a batch.
Classified(b, reply) ==
    [b EXCEPT !.notApplicable = @ \cup Erring(reply, "absent"),
              !.permission = @ \cup Erring(reply, "denied"),
              !.critical = @ \cup (Erring(reply, "failed") \cap Baseline),
              !.optional = @ \cup (Erring(reply, "failed") \ Baseline)]

NotApplicable(b, metrics) == [b EXCEPT !.notApplicable = @ \cup metrics]

-------------------------------------------------------------------------------
(* Connections *)

\* Places where a CollectorError is not caught.
Propagates == site \in {"batch1", "batch2"} \/ (site = "caps" /\ ~pve)

\* Mutant: one attempt too many.
ConnectAgain ==
    /\ site # "end"
    /\ attempt <= MaxRetries
    /\ attempt' = attempt + 1
    /\ connects' = connects + 1
    /\ UNCHANGED <<device, host, site, asked, lost, found, result>>

\* The connection cannot be opened, or the login fails: after a delay the call
\* tries again.
ConnectFails ==
    /\ site # "end"
    /\ attempt < MaxRetries
    /\ attempt' = attempt + 1
    /\ connects' = connects + 1
    /\ UNCHANGED <<device, host, site, asked, lost, found, result>>

\* The commands have run; nothing is retried from here on.
Answered ==
    /\ attempt' = 0
    /\ connects' = connects + 1
    /\ asked' = asked \cup ({site} \X Batch)
    /\ UNCHANGED lost

\* A CollectorError: the last attempt failed, or, before any connection, there is
\* no usable credential or a drive's name makes a command that is not allowed.
GivesUp(status) ==
    \/ /\ status = "critical"
       /\ attempt = MaxRetries
       /\ connects' = connects + 1
    \/ /\ status = "warning"
       /\ UNCHANGED connects

\* _safe_execute and the except clauses around df: the error is passed over.
PassedOver ==
    /\ Cardinality(lost) < MaxLost
    /\ \E status \in {"critical", "warning"} : GivesUp(status)
    /\ attempt' = 0
    /\ lost' = lost \cup {site}
    /\ UNCHANGED asked

Received(reply) ==
    \/ Answered /\ reply = Reply
    \/ PassedOver /\ reply = Silence

\* Mutant: the failure is reported, and the phase goes on.
AbortReported ==
    /\ Propagates
    /\ \E status \in {"critical", "warning"} :
          /\ GivesUp(status)
          /\ result' = [ok |-> FALSE, status |-> status]
    /\ site' = IF site = "caps" THEN "probes" ELSE "end"
    /\ attempt' = 0
    /\ UNCHANGED <<device, host, asked, lost, found>>

\* The error leaves collect.
Abort ==
    /\ Propagates
    /\ \E status \in {"critical", "warning"} :
          /\ GivesUp(status)
          /\ result' = [ok |-> FALSE, status |-> status]
    /\ site' = "end"
    /\ UNCHANGED <<device, host, attempt, asked, lost, found>>

-------------------------------------------------------------------------------
(* Where a collection goes next *)

AfterPhase == IF device = "docker_host" THEN "docker_caps" ELSE "batch2"

\* The text form of zpool status is asked for when the JSON form did not parse.
AfterSmart(outputs) ==
    IF "zpool" \in caps /\ outputs["zpool_status"] # "usable" THEN "text" ELSE AfterPhase

\* Mutant: scans until a drive is found.
ScanUntilFound(outputs) ==
    IF outputs["smartctl_scan"] = "usable" /\ host.drives # {} THEN "drives" ELSE "scan"

AfterScan(outputs) ==
    IF outputs["smartctl_scan"] = "usable" /\ host.drives # {} THEN "drives" ELSE AfterSmart(outputs)

AfterProbes(outputs) ==
    IF "smartctl" \in caps /\ outputs["smartctl_scan"] # "usable" THEN "scan"
    ELSE IF "smartctl" \in caps THEN AfterScan(outputs)
    ELSE AfterSmart(outputs)

\* findmnt is asked unless lsblk has shown a btrfs filesystem.
AfterLsblk(tools, seen) == IF ~seen /\ "findmnt" \in tools THEN "root" ELSE "probes"

-------------------------------------------------------------------------------
(* The calls, one action each *)

BatchOne ==
    /\ site = "batch1"
    /\ Answered
    /\ raw' = With(raw, Reply)
    /\ buckets' = Classified(buckets, Reply)
    /\ site' = "df"
    /\ UNCHANGED <<device, host, caps, pve, btrfs, dfAnswer, result>>

\* A device of type proxmox_host is not probed for PVE.
DfDone ==
    /\ pve' = (device = "proxmox_host")
    /\ site' = IF device = "proxmox_host" THEN "caps" ELSE "detect"

\* df -P -B1, then df -P, then df, until one prints something.
DfAnswers ==
    /\ site \in {"df", "df_P", "df_plain"}
    /\ Answered
    /\ Says(Reply, "df")
    /\ raw' = With(raw, Reply)
    /\ DfDone
    /\ UNCHANGED <<device, host, caps, btrfs, dfAnswer, buckets, result>>

FirstDfError(reply) ==
    IF dfAnswer.error = "none" /\ "df" \in DOMAIN reply THEN reply["df"] ELSE dfAnswer

\* When all three stay silent, the first error is classified and no other.
DfSilent ==
    /\ site \in {"df", "df_P", "df_plain"}
    /\ \E reply \in {Reply, Silence} :
          /\ Received(reply)
          /\ ~Says(reply, "df")
          /\ dfAnswer' = FirstDfError(reply)
    /\ \/ /\ site # "df_plain"
          /\ site' = IF site = "df" THEN "df_P" ELSE "df_plain"
          /\ UNCHANGED <<pve, buckets>>
       \/ /\ site = "df_plain"
          /\ buckets' = [Classified(buckets, [k \in {"df"} |-> dfAnswer'])
                            EXCEPT !.unavailable = @ \cup {"disk_partitions"}]
          /\ DfDone
    /\ UNCHANGED <<device, host, caps, btrfs, raw, result>>

\* _detect_pve_host, and the choice of the phase.
Detect ==
    /\ site = "detect"
    /\ \E reply \in {Reply, Silence} :
          /\ Received(reply)
          /\ pve' = (\E k \in Detection : Says(reply, k))
    /\ \/ /\ pve' \/ device = "nas"
          /\ site' = "caps"
          /\ UNCHANGED buckets
       \/ /\ ~(pve' \/ device = "nas")
          /\ site' = AfterPhase
          /\ buckets' = NotApplicable(buckets, NasMetrics \cup PveMetrics)
    /\ UNCHANGED <<device, host, caps, btrfs, raw, dfAnswer, result>>

\* The capability probes of _run_nas_phase and _run_pve_phase.  Only the PVE phase
\* goes on without their answers.
Capabilities ==
    /\ site = "caps"
    /\ \E reply \in {Reply, Silence} :
          /\ IF pve THEN Received(reply) ELSE Answered /\ reply = Reply
          /\ caps' = {t \in Tool : Says(reply, t)}
    /\ \/ /\ ~pve
          /\ "lsblk" \in caps'
          /\ site' = "lsblk"
          /\ UNCHANGED buckets
       \/ /\ pve \/ "lsblk" \notin caps'
          /\ site' = AfterLsblk(caps', FALSE)
          /\ buckets' = IF pve THEN buckets ELSE NotApplicable(buckets, {"lsblk"})
    /\ UNCHANGED <<device, host, pve, btrfs, raw, dfAnswer, result>>

\* Mutant: an lsblk that was not heard of is not applicable.
LsblkOrNone ==
    /\ site = "lsblk"
    /\ \E reply \in {Reply, Silence} :
          /\ Received(reply)
          /\ raw' = With(raw, reply)
          /\ buckets' = IF Says(reply, "lsblk") THEN Classified(buckets, reply)
                        ELSE NotApplicable(Classified(buckets, reply), {"lsblk"})
    /\ btrfs' = (raw'["lsblk"] = "usable" /\ host.btrfs # "none")
    /\ site' = AfterLsblk(caps, btrfs')
    /\ UNCHANGED <<device, host, caps, pve, dfAnswer, result>>

Lsblk ==
    /\ site = "lsblk"
    /\ \E reply \in {Reply, Silence} :
          /\ Received(reply)
          /\ raw' = With(raw, reply)
          /\ buckets' = Classified(buckets, reply)
    /\ btrfs' = (raw'["lsblk"] = "usable" /\ host.btrfs # "none")
    /\ site' = AfterLsblk(caps, btrfs')
    /\ UNCHANGED <<device, host, caps, pve, dfAnswer, result>>

FindmntRoot ==
    /\ site = "root"
    /\ \E reply \in {Reply, Silence} :
          /\ Received(reply)
          /\ btrfs' = (/\ "findmnt_root" \in DOMAIN reply
                       /\ reply["findmnt_root"].output = "usable"
                       /\ host.btrfs = "root")
          /\ buckets' = Classified(buckets, reply)
    /\ site' = "probes"
    /\ UNCHANGED <<device, host, caps, pve, raw, dfAnswer, result>>

\* The one batch of everything the host can be asked.
Phase ==
    /\ site = "probes"
    /\ \E reply \in {Reply, Silence} :
          /\ Received(reply)
          /\ raw' = With(raw, reply)
          /\ buckets' = NotApplicable(Classified(buckets, reply), SkippedMetrics)
    /\ site' = AfterProbes(raw')
    /\ UNCHANGED <<device, host, caps, pve, btrfs, dfAnswer, result>>

\* smartctl --scan, when --scan-open listed no drive.
Scan ==
    /\ site = "scan"
    /\ \E reply \in {Reply, Silence} :
          /\ Received(reply)
          /\ raw' = IF Says(reply, "smartctl_scan") THEN With(raw, reply) ELSE raw
          /\ buckets' = Classified(buckets, reply)
    /\ site' = AfterScan(raw')
    /\ UNCHANGED <<device, host, caps, pve, btrfs, dfAnswer, result>>

Drives ==
    /\ site = "drives"
    /\ \E reply \in {Reply, Silence} :
          /\ Received(reply)
          /\ raw' = With(raw, reply)
          /\ buckets' = Classified(buckets, reply)
    /\ site' = AfterSmart(raw)
    /\ UNCHANGED <<device, host, caps, pve, btrfs, dfAnswer, result>>

\* _run_zpool_status_fallback
ZpoolText ==
    /\ site = "text"
    /\ \E reply \in {Reply, Silence} :
          /\ Received(reply)
          /\ raw' = With(raw, reply)
          /\ buckets' = Classified(buckets, reply)
    /\ site' = AfterPhase
    /\ UNCHANGED <<device, host, caps, pve, btrfs, dfAnswer, result>>

DockerCapability ==
    /\ site = "docker_caps"
    /\ \E reply \in {Reply, Silence} :
          /\ Received(reply)
          /\ \/ /\ Says(reply, "docker")
                /\ site' = "docker_info"
                /\ UNCHANGED buckets
             \/ /\ ~Says(reply, "docker")
                /\ site' = "batch2"
                /\ buckets' = NotApplicable(buckets, {"docker_info"})
    /\ UNCHANGED <<device, host, caps, pve, btrfs, raw, dfAnswer, result>>

DockerInfo ==
    /\ site = "docker_info"
    /\ \E reply \in {Reply, Silence} :
          /\ Received(reply)
          /\ raw' = With(raw, reply)
          /\ buckets' = Classified(buckets, reply)
    /\ site' = "batch2"
    /\ UNCHANGED <<device, host, caps, pve, btrfs, dfAnswer, result>>

-------------------------------------------------------------------------------
(* The result *)

\* The probes each baseline metric is computed from.
Sources ==
    [hostname |-> {"hostname"}, uname |-> {"uname"}, uptime |-> {"uptime"},
     loadavg |-> {"loadavg"}, meminfo |-> {"meminfo"}, df |-> {"df"},
     cpu |-> {"stat_1", "stat_2"}, network |-> {"net_1", "net_2"}]

NoSmart(outputs) == \A k \in Drive : outputs[k] # "usable"

\* The metrics _assemble_payload, _parse_nas_metrics and _parse_pve_metrics find
\* nothing for.
Missing(outputs) ==
    LET unparsed(keys) == {k \in keys : outputs[k] # "usable"}
        smart == IF NoSmart(outputs) THEN {"smart_attributes"} ELSE {}
        interfaces == unparsed({"ip_br_addr", "ip_s_link"})
    IN {m \in DOMAIN Sources : unparsed(Sources[m]) # {}}
          \cup (IF pve
                THEN unparsed({"pveversion", "pvesm", "qm_list", "pct_list", "zpool_list", "zfs_list"})
                       \cup smart
                       \cup (IF Cardinality(interfaces) = 2 THEN interfaces ELSE {})
                ELSE IF device = "nas"
                THEN unparsed({"lsblk", "mdstat", "zpool_list", "zfs_list", "btrfs_show",
                               "btrfs_device_stats", "btrfs_usage"}) \cup smart
                ELSE {})

\* has_blocking_errors
Blocking(b) == b.critical \cup b.permission \cup b.optional

\* The second sample, the payload and the verdict.
BatchTwo ==
    /\ site = "batch2"
    /\ Answered
    /\ raw' = With(raw, Reply)
    /\ LET b == Classified(buckets, Reply)
       IN /\ buckets' = [b EXCEPT !.unavailable = @ \cup Missing(raw')]
          /\ result' = [ok |-> TRUE, status |-> IF Blocking(b) = {} THEN "healthy" ELSE "warning"]
    /\ site' = "end"
    /\ UNCHANGED <<device, host, caps, pve, btrfs, dfAnswer>>

-------------------------------------------------------------------------------

Init ==
    /\ \E c \in Case : device = c.type /\ host = c.host
    /\ site = "batch1"
    /\ attempt = 0
    /\ connects = 0
    /\ caps = {}
    /\ pve = FALSE
    /\ btrfs = FALSE
    /\ raw = [k \in Probe |-> "none"]
    /\ dfAnswer = [output |-> "none", error |-> "none"]
    /\ buckets = [critical |-> {}, permission |-> {}, optional |-> {},
                  unavailable |-> {}, notApplicable |-> {}]
    /\ asked = {}
    /\ lost = {}
    /\ result = Running

PhaseNext ==
    \/ Capabilities
    \/ Lsblk
    \/ FindmntRoot
    \/ Phase
    \/ Scan
    \/ Drives
    \/ ZpoolText

Next ==
    \/ ConnectFails
    \/ Abort
    \/ BatchOne
    \/ DfAnswers
    \/ DfSilent
    \/ Detect
    \/ PhaseNext
    \/ DockerCapability
    \/ DockerInfo
    \/ BatchTwo

\* Connecting and reading have timeouts, and a command that has closed its output
\* is taken to exit: the thread always gets to its next step.
Spec == Init /\ [][Next]_vars /\ WF_vars(Next)

-------------------------------------------------------------------------------
(* Properties *)

Promise == INSTANCE Session

\* Having returned nothing is told apart from every result.
ASSUME RunningAssumption == Running \notin Promise!Results

TypeOK ==
    /\ device \in DeviceType
    /\ IsHost(host)
    /\ site \in Site \cup {"end"}
    /\ attempt \in 0 .. MaxRetries
    /\ connects \in Nat
    /\ caps \subseteq Tool
    /\ pve \in BOOLEAN
    /\ btrfs \in BOOLEAN
    /\ raw \in [Probe -> Output]
    /\ dfAnswer \in Answer
    /\ buckets \in Buckets
    /\ asked \subseteq Site \X (Probe \cup Tool \cup Detection)
    /\ lost \subseteq Site
    /\ result \in Promise!Results \cup {Running}

AnswerTo(x) == AnswerAt(x[1], x[2])

\* The probes, df aside, that the host refused or failed to run.
TroubledIn(answers) ==
    {x[2] : x \in {y \in answers : /\ y[1] \notin Silent
                                   /\ y[2] # "df"
                                   /\ AnswerTo(y).error \in {"denied", "failed"}}}

Troubled == TroubledIn(asked)

\* df counts when all its three forms have stayed silent, by the first error.
DfTroubled ==
    "disk_partitions" \in buckets.unavailable /\ dfAnswer.error \in {"denied", "failed"}

\* "Individual command failures are isolated": they change the verdict and nothing
\* else.  A collection that comes back is a warning exactly when some probe was
\* refused or failed, whichever phase it was in, whatever was asked again in
\* another form and whatever call was lost on the way.  So a missing tool never
\* raises an alarm, a failed probe never goes unreported, and, which is the limit
\* of it, a batch whose connection was lost leaves the collection healthy.
VerdictFollowsAnswers ==
    result # Running /\ result.ok =>
        (result.status = "warning" <=> Troubled # {} \/ DfTroubled)

\* A tool the host has shown in its capability probe is reported as not applicable
\* only when the host itself then said that there is no such command, or there
\* is no btrfs to look at: errors and lost answers are never taken for absence.
ShownToolsApply ==
    result # Running /\ result.ok =>
        \A t \in caps, k \in buckets.notApplicable :
            k \in ToolProbes[t] =>
                \/ t = "btrfs" /\ ~btrfs
                \/ \E x \in asked :
                      x[1] \notin Silent /\ x[2] = k /\ AnswerTo(x).error = "absent"

\* The number of calls that can come before each of the places.
Before ==
    [batch1 |-> 0, df |-> 1, df_P |-> 2, df_plain |-> 3, detect |-> 4, caps |-> 5, lsblk |-> 6,
     root |-> 7, probes |-> 8, scan |-> 9, drives |-> 10, text |-> 11, docker_caps |-> 12,
     docker_info |-> 13, batch2 |-> 14, end |-> 15]

\* However badly the network behaves, a collection opens no more connections than
\* each place it connects from can with its retries: the time it takes of the
\* thread it runs in is bounded, though by far more than the timeout of one call.
EffortBounded == connects <= (MaxRetries + 1) * Before["end"]

\* A collection is one session of its caller: it returns once, with one of the
\* four results, and it does return.
ImplementsSession == Promise!Spec

===============================================================================
