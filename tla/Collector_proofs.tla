--------------------------- MODULE Collector_proofs ---------------------------
(***************************************************************************)
(* Proofs about Collector: types, the number of connections, the verdict,  *)
(* and that a collection is a session that returns once.                   *)
(***************************************************************************)
EXTENDS Collector, Measures, TLAPS

USE CollectorAssumption

-------------------------------------------------------------------------------
(* What comes back from the host *)

\* Whatever is asked wherever, the host gives one of the possible answers.
LEMMA AnswerType ==
    ASSUME IsHost(host), NEW s, NEW k
    PROVE  AnswerAt(s, k) \in Answer
<1>1. Fine \in Answer /\ Broken \in Answer /\ Gone \in Answer
  BY DEF Fine, Broken, Gone, Answer, Output, Error
<1>2. CASE <<s, k>> \in DOMAIN host.odd
  BY <1>2 DEF AnswerAt, IsHost
<1>3. CASE <<s, k>> \notin DOMAIN host.odd
  BY <1>1, <1>3 DEF AnswerAt
<1> QED
  BY <1>2, <1>3

\* The kinds of probe there are.
LEMMA ProbeParts ==
    /\ Baseline \subseteq Probe
    /\ Drive \subseteq Probe
    /\ {"mdstat", "zpool_status_text"} \subseteq Probe
    /\ \A t \in Tool : ToolProbes[t] \subseteq Probe
<1> DEFINE ofTools == UNION {ToolProbes[t] : t \in Tool}
<1>1. \A t \in Tool : ToolProbes[t] \subseteq ofTools
  OBVIOUS
<1>2. Probe = Baseline \cup ofTools \cup Drive \cup {"mdstat", "zpool_status_text"}
  BY Zenon DEF Probe
<1> HIDE DEF ofTools
<1> QED
  BY <1>1, <1>2

\* Each place asks only for what it knows the name of, and only the places that
\* look for tools ask for anything that is not a probe.
LEMMA BatchType ==
    ASSUME TypeOK, site # "end"
    PROVE  /\ Batch \subseteq Probe \cup Tool \cup Detection
           /\ site \notin Silent => Batch \subseteq Probe
           /\ site \notin Silent \cup {"df", "df_P", "df_plain"} => "df" \notin Batch
<1>1. \A t \in Tool : ToolProbes[t] \subseteq Probe /\ "df" \notin ToolProbes[t]
  <2>1. \A t \in Tool : "df" \notin ToolProbes[t]
    BY DEF Tool, ToolProbes
  <2> QED
    BY <2>1, ProbeParts
<1>3. PhaseProbes \subseteq Probe /\ "df" \notin PhaseProbes
  <2>1. UsableTools \subseteq Tool
    BY Zenon DEF UsableTools, TypeOK
  <2> DEFINE ofTools == UNION {ToolProbes[t] : t \in UsableTools}
  <2>2. ofTools \subseteq Probe /\ "df" \notin ofTools
    BY <1>1, <2>1
  <2>3. PhaseProbes \subseteq ofTools \cup {"mdstat"}
    BY Zenon DEF PhaseProbes
  <2>4. "mdstat" \in Probe /\ "df" \notin {"mdstat"}
    BY ProbeParts
  <2> HIDE DEF ofTools
  <2> QED
    BY <2>2, <2>3, <2>4
<1>4. host.drives \subseteq Drive /\ Drive \subseteq Probe
  BY ProbeParts DEF TypeOK, IsHost
<1>5. Baseline \subseteq Probe /\ "zpool_status_text" \in Probe
  BY ProbeParts
<1>6. NasCapabilities \cup PveCapabilities \subseteq Tool
  BY DEF NasCapabilities, PveCapabilities, Tool, ToolProbes
<1>7. /\ "lsblk" \in Probe
      /\ "findmnt_root" \in Probe
      /\ "smartctl_scan" \in Probe
      /\ "docker_info" \in Probe
  BY <1>1 DEF Tool, ToolProbes
<1>8. CASE site \in {"batch1", "batch2", "df", "df_P", "df_plain"}
  BY <1>5, <1>8 DEF Batch, Baseline, OneShot, SecondSample, Silent
<1>9. CASE site \in Silent
  BY <1>6, <1>9 DEF Batch, Silent, Tool, ToolProbes
<1>10. CASE site \in {"lsblk", "root", "scan", "text", "docker_info"}
  BY <1>5, <1>7, <1>10 DEF Batch, Silent
<1>11. CASE site \in {"probes", "drives"}
  BY <1>3, <1>4, <1>11 DEF Batch, Silent
<1> QED
  BY <1>8, <1>9, <1>10, <1>11 DEF TypeOK, Site, Silent

\* What a call can bring back: answers to its batch, or nothing.
IsReply(reply) == reply = Reply \/ reply = Silence

LEMMA ReplyType ==
    ASSUME TypeOK, site \notin Silent \cup {"end"}, NEW reply, IsReply(reply)
    PROVE  /\ DOMAIN reply \subseteq Probe
           /\ \A k \in DOMAIN reply : reply[k] \in Answer
<1>1. Batch \subseteq Probe
  BY BatchType
<1>2. \A k \in Batch : AnswerAt(site, k) \in Answer
  BY AnswerType DEF TypeOK
<1> QED
  BY <1>1, <1>2 DEF IsReply, Reply, Silence

\* Outputs stay outputs when a reply is taken in.
LEMMA WithType ==
    ASSUME raw \in [Probe -> Output], NEW reply, \A k \in DOMAIN reply : reply[k] \in Answer
    PROVE  With(raw, reply) \in [Probe -> Output]
BY DEF With, Answer

\* Errors of probes go to the buckets of probes.
LEMMA ClassifiedType ==
    ASSUME NEW b \in Buckets, NEW reply, DOMAIN reply \subseteq Probe
    PROVE  Classified(b, reply) \in Buckets
<1>1. \A error : Erring(reply, error) \subseteq Probe
  BY DEF Erring
<1>2. Probe \subseteq Metric
  BY DEF Metric
<1> QED
  BY <1>1, <1>2 DEF Classified, Buckets

LEMMA NotApplicableType ==
    ASSUME NEW b \in Buckets, NEW metrics, metrics \subseteq Metric
    PROVE  NotApplicable(b, metrics) \in Buckets
BY DEF NotApplicable, Buckets

\* Names that are reported are metrics.
LEMMA MetricNames ==
    /\ NasMetrics \cup PveMetrics \subseteq Metric
    /\ {"disk_partitions", "lsblk", "docker_info"} \subseteq Metric
    /\ SkippedMetrics \subseteq Metric
    /\ \A outputs : Missing(outputs) \subseteq Metric
<1>1. Probe \subseteq Metric
  BY DEF Metric
<1>2. {"disk_partitions", "cpu", "network", "smart_attributes"} \subseteq Metric
  BY DEF Metric
<1>3. /\ {"lsblk"} \cup {"findmnt_root"} \cup {"docker_info"} \cup {"smartctl_scan"} \subseteq Probe
      /\ {"zpool_list", "zpool_status", "zfs_list", "pveversion", "pvesm"} \subseteq Probe
      /\ {"btrfs_show", "btrfs_device_stats", "btrfs_usage"} \subseteq Probe
      /\ {"qm_list", "pct_list", "ip_br_addr", "ip_s_link"} \subseteq Probe
  BY ProbeParts DEF Tool, ToolProbes
<1>4. Baseline \cup {"mdstat"} \subseteq Metric
  BY <1>1, ProbeParts
<1>5. NasMetrics \cup PveMetrics \cup {"disk_partitions", "lsblk", "docker_info"} \subseteq Metric
  BY <1>1, <1>2, <1>3, <1>4 DEF NasMetrics, PveMetrics
<1>6. SkippedMetrics \subseteq Metric
  <2>1. \A T : T \subseteq Tool => UNION {ToolProbes[t] : t \in T} \subseteq Metric
    BY <1>1, ProbeParts
  <2>2. PhaseTools \subseteq Tool
    BY DEF PhaseTools, PveCapabilities, Tool, ToolProbes
  <2> QED
    BY <2>1, <2>2, <1>2 DEF SkippedMetrics
<1>7. \A outputs : Missing(outputs) \subseteq Metric
  <2>1. DOMAIN Sources \subseteq Metric
    BY <1>2, <1>4 DEF Sources, Baseline, OneShot
  <2> QED
    BY <2>1, <1>1, <1>2, <1>3, <1>4 DEF Missing
<1> QED
  BY <1>5, <1>6, <1>7

-------------------------------------------------------------------------------
(* Types *)

\* What an answered or passed over call leaves of its path.
LEMMA ReceivedType ==
    ASSUME TypeOK, site # "end", NEW reply, IsReply(reply),
           Received(reply) \/ (Answered /\ reply = Reply)
    PROVE  /\ attempt' \in 0 .. MaxRetries
           /\ connects' \in Nat
           /\ asked' \subseteq Site \X (Probe \cup Tool \cup Detection)
           /\ lost' \subseteq Site
<1>1. site \in Site
  BY DEF TypeOK
<1>2. Batch \subseteq Probe \cup Tool \cup Detection
  BY BatchType
<1>3. CASE Answered
  BY <1>1, <1>2, <1>3 DEF TypeOK, Answered
<1>4. CASE PassedOver
  <2>1. connects' \in Nat
    BY <1>4 DEF TypeOK, PassedOver, GivesUp
  <2>2. attempt' \in 0 .. MaxRetries
    BY <1>4 DEF PassedOver
  <2>3. asked' \subseteq Site \X (Probe \cup Tool \cup Detection) /\ lost' \subseteq Site
    BY <1>1, <1>4 DEF TypeOK, PassedOver
  <2> QED
    BY <2>1, <2>2, <2>3
<1> QED
  BY <1>3, <1>4 DEF Received

\* The places a call can lead to, always later ones.
LEMMA Later ==
    /\ AfterPhase \in {"docker_caps", "batch2"}
    /\ \A outputs : AfterSmart(outputs) \in {"text", "docker_caps", "batch2"}
    /\ \A outputs : AfterScan(outputs) \in {"drives", "text", "docker_caps", "batch2"}
    /\ \A outputs : AfterProbes(outputs) \in {"scan", "drives", "text", "docker_caps", "batch2"}
    /\ \A tools, seen : AfterLsblk(tools, seen) \in {"root", "probes"}
<1>1. AfterPhase \in {"docker_caps", "batch2"}
  BY DEF AfterPhase
<1>2. \A outputs : AfterSmart(outputs) \in {"text", "docker_caps", "batch2"}
  BY <1>1 DEF AfterSmart
<1>3. \A outputs : AfterScan(outputs) \in {"drives", "text", "docker_caps", "batch2"}
  BY <1>2 DEF AfterScan
<1>4. \A outputs : AfterProbes(outputs) \in {"scan", "drives", "text", "docker_caps", "batch2"}
  BY <1>2, <1>3 DEF AfterProbes
<1>5. \A tools, seen : AfterLsblk(tools, seen) \in {"root", "probes"}
  BY DEF AfterLsblk
<1> QED
  BY <1>1, <1>2, <1>3, <1>4, <1>5

\* The machine does not change, and stays well formed.
LEMMA HostKept ==
    ASSUME IsHost(host), UNCHANGED host
    PROVE  IsHost(host)'
BY DEF IsHost

LEMMA TypeInit ==
    ASSUME Init
    PROVE  TypeOK
<1>1. PICK c \in Case : device = c.type /\ host = c.host
  BY DEF Init
<1>2. device \in DeviceType /\ IsHost(host)
  BY <1>1
<1>3. raw \in [Probe -> Output] /\ dfAnswer \in Answer
  BY DEF Init, Output, Answer, Error
<1>4. buckets \in Buckets
  BY DEF Init, Buckets
<1>5. /\ site \in Site
      /\ attempt \in 0 .. MaxRetries
      /\ connects \in Nat
      /\ caps = {} /\ asked = {} /\ lost = {}
      /\ result = Running
  BY DEF Init, Site
<1>6. pve \in BOOLEAN /\ btrfs \in BOOLEAN
  BY DEF Init
<1> QED
  BY <1>2, <1>3, <1>4, <1>5, <1>6 DEF TypeOK

\* The actions that end a connection without an answer.
LEMMA TypeOfConnections ==
    ASSUME TypeOK, ConnectFails \/ Abort
    PROVE  TypeOK'
<1>1. IsHost(host)' /\ UNCHANGED <<device, found, asked, lost>>
  BY HostKept DEF TypeOK, ConnectFails, Abort
<1>2. attempt' \in 0 .. MaxRetries /\ connects' \in Nat
  <2>1. attempt \in 0 .. MaxRetries /\ connects \in Nat
    BY DEF TypeOK
  <2>2. CASE ConnectFails
    BY <2>1, <2>2 DEF ConnectFails
  <2>3. CASE Abort
    <3>1. attempt' = attempt /\ connects' \in {connects, connects + 1}
      BY <2>3 DEF Abort, GivesUp
    <3> QED
      BY <2>1, <3>1
  <2> QED
    BY <2>2, <2>3
<1>3. site' \in Site \cup {"end"}
  BY DEF TypeOK, ConnectFails, Abort
<1>4. result' \in Promise!Results \cup {Running}
  <2>1. CASE ConnectFails
    BY <2>1 DEF TypeOK, ConnectFails
  <2>2. CASE Abort
    <3>1. PICK status \in {"critical", "warning"} : result' = [ok |-> FALSE, status |-> status]
      BY <2>2 DEF Abort
    <3> QED
      BY <3>1 DEF Promise!Results
  <2> QED
    BY <2>1, <2>2
<1>5. UNCHANGED <<caps, pve, btrfs, raw, dfAnswer, buckets>>
  BY <1>1 DEF found
<1> QED
  BY <1>1, <1>2, <1>3, <1>4, <1>5 DEF TypeOK

\* The calls made on every device.
LEMMA TypeOfBaseline ==
    ASSUME TypeOK, BatchOne \/ DfAnswers \/ DfSilent \/ Detect \/ BatchTwo
    PROVE  TypeOK'
<1> USE DEF IsReply
<1>0. IsHost(host)' /\ UNCHANGED <<device, caps, btrfs>>
  BY HostKept DEF TypeOK, BatchOne, DfAnswers, DfSilent, Detect, BatchTwo
<1>1. CASE BatchOne
  <2>1. site \notin Silent \cup {"end"}
    BY <1>1 DEF BatchOne, Silent
  <2>2. raw' \in [Probe -> Output] /\ buckets' \in Buckets
    BY <1>1, <2>1, ReplyType, WithType, ClassifiedType DEF TypeOK, BatchOne
  <2>3. site' \in Site /\ UNCHANGED <<pve, dfAnswer, result>>
    BY <1>1 DEF BatchOne, Site
  <2> QED
    BY <1>0, <1>1, <2>1, <2>2, <2>3, ReceivedType DEF TypeOK, BatchOne
<1>2. CASE DfAnswers
  <2>1. site \notin Silent \cup {"end"}
    BY <1>2 DEF DfAnswers, Silent
  <2>2. raw' \in [Probe -> Output]
    BY <1>2, <2>1, ReplyType, WithType DEF TypeOK, DfAnswers
  <2>3. site' \in Site /\ pve' \in BOOLEAN /\ UNCHANGED <<dfAnswer, buckets, result>>
    BY <1>2 DEF DfAnswers, DfDone, Site
  <2> QED
    BY <1>0, <1>2, <2>1, <2>2, <2>3, ReceivedType DEF TypeOK, DfAnswers
<1>3. CASE DfSilent
  <2>1. site \notin Silent \cup {"end"}
    BY <1>3 DEF DfSilent, Silent
  <2>2. PICK reply \in {Reply, Silence} : Received(reply) /\ dfAnswer' = FirstDfError(reply)
    BY <1>3 DEF DfSilent
  <2>3. dfAnswer' \in Answer
    BY <2>1, <2>2, ReplyType DEF TypeOK, FirstDfError
  <2>4. buckets' \in Buckets
    <3> DEFINE first == [k \in {"df"} |-> dfAnswer']
    <3>1. Classified(buckets, first) \in Buckets
      BY ClassifiedType, ProbeParts DEF TypeOK, Baseline
    <3>2. "disk_partitions" \in Metric
      BY MetricNames
    <3> HIDE DEF first
    <3>3. [Classified(buckets, first) EXCEPT !.unavailable = @ \cup {"disk_partitions"}] \in Buckets
      BY <3>1, <3>2 DEF Buckets
    <3> QED
      BY <1>3, <3>3 DEF DfSilent, TypeOK, first
  <2>5. site' \in Site /\ pve' \in BOOLEAN /\ UNCHANGED <<raw, result>>
    BY <1>3 DEF DfSilent, DfDone, Site, TypeOK
  <2> QED
    BY <1>0, <2>1, <2>2, <2>3, <2>4, <2>5, ReceivedType DEF TypeOK
<1>4. CASE Detect
  <2>1. site # "end"
    BY <1>4 DEF Detect
  <2>2. PICK reply \in {Reply, Silence} :
           Received(reply) /\ pve' = (\E k \in Detection : Says(reply, k))
    BY <1>4 DEF Detect
  <2>3. buckets' \in Buckets
    BY <1>4, NotApplicableType, MetricNames DEF Detect, TypeOK
  <2>4. site' \in Site /\ UNCHANGED <<raw, dfAnswer, result>>
    BY <1>4, Later DEF Detect, Site
  <2>5. pve' \in BOOLEAN
    BY Zenon, <2>2
  <2> QED
    BY <1>0, <2>1, <2>2, <2>3, <2>4, <2>5, ReceivedType DEF TypeOK
<1>5. CASE BatchTwo
  <2>1. site \notin Silent \cup {"end"}
    BY <1>5 DEF BatchTwo, Silent
  <2>2. raw' \in [Probe -> Output]
    BY <1>5, <2>1, ReplyType, WithType DEF TypeOK, BatchTwo
  <2>3. buckets' \in Buckets
    <3>1. Classified(buckets, Reply) \in Buckets
      BY <2>1, ReplyType, ClassifiedType DEF TypeOK
    <3>2. [Classified(buckets, Reply) EXCEPT !.unavailable = @ \cup Missing(raw')] \in Buckets
      BY <3>1, MetricNames DEF Buckets
    <3> QED
      BY <1>5, <3>2 DEF BatchTwo
  <2>4. result' \in Promise!Results
    <3>1. PICK b : result' = [ok |-> TRUE, status |-> IF Blocking(b) = {} THEN "healthy" ELSE "warning"]
      BY <1>5 DEF BatchTwo
    <3> QED
      BY <3>1 DEF Promise!Results
  <2>5. site' = "end" /\ UNCHANGED <<pve, dfAnswer>>
    BY <1>5 DEF BatchTwo
  <2> QED
    BY <1>0, <1>5, <2>1, <2>2, <2>3, <2>4, <2>5, ReceivedType DEF TypeOK, BatchTwo
<1> QED
  BY <1>1, <1>2, <1>3, <1>4, <1>5

\* The calls of the phases and of a docker host.
LEMMA TypeOfPhases ==
    ASSUME TypeOK, PhaseNext \/ DockerCapability \/ DockerInfo
    PROVE  TypeOK'
<1> USE DEF IsReply
<1>0. IsHost(host)' /\ UNCHANGED <<device, pve, dfAnswer, result>>
  BY HostKept DEF TypeOK, PhaseNext, Capabilities, Lsblk, FindmntRoot, Phase, Scan, Drives,
                  ZpoolText, DockerCapability, DockerInfo
<1>1. CASE Capabilities
  <2>1. site # "end"
    BY <1>1 DEF Capabilities
  <2>2. PICK reply \in {Reply, Silence} :
           /\ IF pve THEN Received(reply) ELSE Answered /\ reply = Reply
           /\ caps' = {t \in Tool : Says(reply, t)}
    BY <1>1 DEF Capabilities
  <2>3. caps' \subseteq Tool
    BY <2>2
  <2>4. buckets' \in Buckets
    BY <1>1, NotApplicableType, MetricNames DEF Capabilities, TypeOK
  <2>5. site' \in Site /\ UNCHANGED <<btrfs, raw>>
    BY <1>1, Later DEF Capabilities, Site
  <2> QED
    BY <1>0, <2>1, <2>2, <2>3, <2>4, <2>5, ReceivedType DEF TypeOK
<1>2. CASE Lsblk
  <2>1. site \notin Silent \cup {"end"}
    BY <1>2 DEF Lsblk, Silent
  <2>2. PICK reply \in {Reply, Silence} :
           Received(reply) /\ raw' = With(raw, reply) /\ buckets' = Classified(buckets, reply)
    BY <1>2 DEF Lsblk
  <2>3. raw' \in [Probe -> Output] /\ buckets' \in Buckets
    BY <2>1, <2>2, ReplyType, WithType, ClassifiedType DEF TypeOK
  <2>4. site' \in Site /\ UNCHANGED caps
    BY <1>2, Later DEF Lsblk, Site
  <2>5. btrfs' \in BOOLEAN
    BY <1>2, Zenon DEF Lsblk
  <2> QED
    BY <1>0, <2>1, <2>2, <2>3, <2>4, <2>5, ReceivedType DEF TypeOK
<1>3. CASE FindmntRoot
  <2>1. site \notin Silent \cup {"end"}
    BY <1>3 DEF FindmntRoot, Silent
  <2>2. PICK reply \in {Reply, Silence} :
           Received(reply) /\ buckets' = Classified(buckets, reply) /\ btrfs' \in BOOLEAN
    BY <1>3, Zenon DEF FindmntRoot
  <2>3. buckets' \in Buckets
    BY <2>1, <2>2, ReplyType, ClassifiedType DEF TypeOK
  <2>4. site' \in Site /\ UNCHANGED <<caps, raw>>
    BY <1>3 DEF FindmntRoot, Site
  <2> QED
    BY <1>0, <2>1, <2>2, <2>3, <2>4, ReceivedType DEF TypeOK
<1>4. CASE Phase
  <2>1. site \notin Silent \cup {"end"}
    BY <1>4 DEF Phase, Silent
  <2>2. PICK reply \in {Reply, Silence} :
           /\ Received(reply)
           /\ raw' = With(raw, reply)
           /\ buckets' = NotApplicable(Classified(buckets, reply), SkippedMetrics)
    BY <1>4 DEF Phase
  <2>3. raw' \in [Probe -> Output] /\ Classified(buckets, reply) \in Buckets
    BY <2>1, <2>2, ReplyType, WithType, ClassifiedType DEF TypeOK
  <2>4. buckets' \in Buckets
    BY <2>2, <2>3, NotApplicableType, MetricNames
  <2>5. site' \in Site /\ UNCHANGED <<caps, btrfs>>
    BY <1>4, Later DEF Phase, Site
  <2> QED
    BY <1>0, <2>1, <2>2, <2>3, <2>4, <2>5, ReceivedType DEF TypeOK
<1>5. CASE Scan
  <2>1. site \notin Silent \cup {"end"}
    BY <1>5 DEF Scan, Silent
  <2>2. PICK reply \in {Reply, Silence} :
           /\ Received(reply)
           /\ raw' = IF Says(reply, "smartctl_scan") THEN With(raw, reply) ELSE raw
           /\ buckets' = Classified(buckets, reply)
    BY <1>5 DEF Scan
  <2>3. With(raw, reply) \in [Probe -> Output] /\ buckets' \in Buckets
    BY <2>1, <2>2, ReplyType, WithType, ClassifiedType DEF TypeOK
  <2>4. raw' \in [Probe -> Output]
    BY <2>2, <2>3 DEF TypeOK
  <2>5. site' \in Site /\ UNCHANGED <<caps, btrfs>>
    BY <1>5, Later DEF Scan, Site
  <2> QED
    BY <1>0, <2>1, <2>2, <2>3, <2>4, <2>5, ReceivedType DEF TypeOK
<1>6. CASE Drives \/ ZpoolText \/ DockerInfo
  <2>1. site \notin Silent \cup {"end"}
    BY <1>6 DEF Drives, ZpoolText, DockerInfo, Silent
  <2>2. PICK reply \in {Reply, Silence} :
           Received(reply) /\ raw' = With(raw, reply) /\ buckets' = Classified(buckets, reply)
    BY <1>6 DEF Drives, ZpoolText, DockerInfo
  <2>3. raw' \in [Probe -> Output] /\ buckets' \in Buckets
    BY <2>1, <2>2, ReplyType, WithType, ClassifiedType DEF TypeOK
  <2>4. site' \in Site /\ UNCHANGED <<caps, btrfs>>
    BY <1>6, Later DEF Drives, ZpoolText, DockerInfo, Site
  <2> QED
    BY <1>0, <2>1, <2>2, <2>3, <2>4, ReceivedType DEF TypeOK
<1>7. CASE DockerCapability
  <2>1. site # "end"
    BY <1>7 DEF DockerCapability
  <2>2. PICK reply \in {Reply, Silence} : Received(reply)
    BY <1>7 DEF DockerCapability
  <2>3. buckets' \in Buckets
    BY <1>7, NotApplicableType, MetricNames DEF DockerCapability, TypeOK
  <2>4. site' \in Site /\ UNCHANGED <<caps, btrfs, raw>>
    BY <1>7 DEF DockerCapability, Site
  <2> QED
    BY <1>0, <2>1, <2>2, <2>3, <2>4, ReceivedType DEF TypeOK
<1> QED
  BY <1>1, <1>2, <1>3, <1>4, <1>5, <1>6, <1>7 DEF PhaseNext

LEMMA TypeStep ==
    ASSUME TypeOK, [Next]_vars
    PROVE  TypeOK'
<1>1. CASE ConnectFails \/ Abort
  BY <1>1, TypeOfConnections
<1>2. CASE BatchOne \/ DfAnswers \/ DfSilent \/ Detect \/ BatchTwo
  BY <1>2, TypeOfBaseline
<1>3. CASE PhaseNext \/ DockerCapability \/ DockerInfo
  BY <1>3, TypeOfPhases
<1>4. CASE UNCHANGED vars
  BY <1>4, HostKept DEF TypeOK, vars, path, found
<1> QED
  BY <1>1, <1>2, <1>3, <1>4 DEF Next

\* The state of a collection keeps its types, for any machine, any set of drives
\* and any number of retries.
THEOREM TypeCorrect == Spec => []TypeOK
<1>1. Init => TypeOK
  BY TypeInit
<1>2. TypeOK /\ [Next]_vars => TypeOK'
  BY TypeStep
<1> QED
  BY <1>1, <1>2, PTL DEF Spec

-------------------------------------------------------------------------------
(* Sessions *)

\* A collection that has not ended has returned nothing.
Pending == site # "end" => result = Running

\* A step returns a result and ends the collection, or returns nothing.
LEMMA Returns ==
    ASSUME TypeOK, Pending, [Next]_vars
    PROVE  Pending' /\ [Promise!Return]_result
<1>1. TypeOK'
  BY TypeStep
<1>2. CASE Abort \/ BatchTwo
  <2>1. site # "end" /\ site' = "end"
    BY <1>2 DEF Abort, BatchTwo, Propagates
  <2>2. result = Running
    BY <2>1 DEF Pending
  <2>3. result' = Running \/ result' \in Promise!Results
    BY <1>1 DEF TypeOK
  <2> QED
    BY <2>1, <2>2, <2>3 DEF Pending, Promise!Return
<1>3. CASE ~(Abort \/ BatchTwo)
  <2>1. result' = result
    BY <1>3 DEF Next, ConnectFails, BatchOne, DfAnswers, DfSilent, Detect, PhaseNext,
               Capabilities, Lsblk, FindmntRoot, Phase, Scan, Drives, ZpoolText,
               DockerCapability, DockerInfo, vars
  <2>2. site = "end" => site' = "end"
    BY <1>3 DEF Next, ConnectFails, BatchOne, DfAnswers, DfSilent, Detect, PhaseNext,
               Capabilities, Lsblk, FindmntRoot, Phase, Scan, Drives, ZpoolText,
               DockerCapability, DockerInfo, vars, path
  <2> QED
    BY <2>1, <2>2 DEF Pending
<1> QED
  BY <1>2, <1>3

\* A collection does what its caller was promised: it returns at most once, and
\* with one of the results the caller knows.
THEOREM CollectionIsSession == Spec => Promise!Safety
<1>1. Init => TypeOK /\ Pending /\ Promise!Init
  BY TypeInit DEF Init, Pending, Promise!Init
<1>2. TypeOK /\ Pending /\ [Next]_vars => TypeOK' /\ Pending' /\ [Promise!Return]_result
  BY TypeStep, Returns
<1> QED
  BY <1>1, <1>2, PTL DEF Spec, Promise!Safety

-------------------------------------------------------------------------------
(* Connections *)

\* What a collection has spent: the calls behind it with all their retries, and
\* the attempts of the one under way.
Spent ==
    connects <= (MaxRetries + 1) * Before[site] + (IF site = "end" THEN 0 ELSE attempt)

\* One more place costs one more round of attempts.
LEMMA Rounds ==
    ASSUME NEW m \in Nat, NEW a \in Nat, NEW b \in Nat, a < b
    PROVE  m * a + m <= m * b
<1>1. PICK c \in Nat : b = a + 1 + c
  <2>1. b - a - 1 \in Nat
    OBVIOUS
  <2> QED
    BY <2>1
<1>2. m * (a + 1 + c) = m * a + m + m * c
  OBVIOUS
<1>3. m * c \in Nat /\ m * a \in Nat
  OBVIOUS
<1> QED
  BY <1>1, <1>2, <1>3

\* A call that ends, answered or not, opens at most one connection more.
LEMMA OneMore ==
    ASSUME TypeOK, NEW reply, IsReply(reply),
           Received(reply) \/ (Answered /\ reply = Reply)
    PROVE  attempt' = 0 /\ connects' \in {connects, connects + 1}
BY DEF Received, Answered, PassedOver, GivesUp

\* Places are visited in the order of the code.
LEMMA Forward ==
    ASSUME TypeOK, TypeOK', site # "end", attempt' = 0 \/ site' = "end",
           Before[site] < Before[site'], connects' \in {connects, connects + 1}, Spent
    PROVE  Spent'
<1> DEFINE m == MaxRetries + 1
<1>1. Before[site] \in Nat /\ Before[site'] \in Nat
  BY DEF TypeOK, Site, Before
<1>2. m \in Nat /\ attempt <= MaxRetries /\ attempt \in Nat /\ connects \in Nat
  BY DEF TypeOK
<1>3. m * Before[site] + m <= m * Before[site']
  BY <1>1, <1>2, Rounds
<1>4. m * Before[site] \in Nat /\ m * Before[site'] \in Nat
  BY <1>1, <1>2
<1>5. connects <= m * Before[site] + attempt
  BY DEF Spent
<1>6. connects' <= m * Before[site']
  <2> HIDE DEF m
  <2>1. connects' <= connects + 1
    BY <1>2
  <2>2. attempt + 1 <= m
    BY <1>2 DEF m
  <2> QED
    BY <1>2, <1>3, <1>4, <1>5, <2>1, <2>2
<1>7. attempt' \in Nat
  BY DEF TypeOK
<1> QED
  BY <1>2, <1>4, <1>6, <1>7 DEF Spent

LEMMA SpentInit ==
    ASSUME Init
    PROVE  Spent
<1>1. MaxRetries + 1 \in Nat
  OBVIOUS
<1>2. (MaxRetries + 1) * 0 = 0
  BY <1>1
<1> QED
  BY <1>2 DEF Init, Spent, Before

\* Every step tries the connection of the same call again, or leaves the call for a
\* later place.
LEMMA NextPlace ==
    ASSUME TypeOK, Next
    PROVE  /\ site # "end"
           /\ \/ site' = site /\ attempt' = attempt + 1 /\ connects' = connects + 1
              \/ /\ Before[site] < Before[site']
                 /\ attempt' = 0 \/ site' = "end"
                 /\ connects' \in {connects, connects + 1}
<1> USE DEF IsReply
<1>1. CASE ConnectFails
  BY <1>1 DEF ConnectFails
<1>2. CASE Abort
  <2>1. site \in {"batch1", "batch2", "caps"} /\ site' = "end"
    BY <1>2 DEF Abort, Propagates
  <2>2. connects' \in {connects, connects + 1}
    BY <1>2 DEF Abort, GivesUp
  <2>3. Before[site] < Before[site']
    BY <2>1 DEF Before
  <2> QED
    BY <2>1, <2>2, <2>3
<1>3. CASE BatchOne \/ DfAnswers \/ DfSilent \/ Detect \/ BatchTwo
  <2>1. site # "end" /\ \E reply : IsReply(reply) /\ (Received(reply) \/ (Answered /\ reply = Reply))
    BY <1>3 DEF BatchOne, DfAnswers, DfSilent, Detect, BatchTwo
  <2>2. attempt' = 0 /\ connects' \in {connects, connects + 1}
    BY <2>1, OneMore
  <2>3. Before[site] < Before[site']
    <3>1. CASE BatchOne
      BY <3>1 DEF BatchOne, Before
    <3>2. CASE DfAnswers
      <4>1. site \in {"df", "df_P", "df_plain"} /\ site' \in {"caps", "detect"}
        BY <3>2 DEF DfAnswers, DfDone
      <4> QED
        BY <4>1 DEF Before
    <3>3. CASE DfSilent
      <4>1. \/ site = "df" /\ site' = "df_P"
            \/ site = "df_P" /\ site' = "df_plain"
            \/ site = "df_plain" /\ site' \in {"caps", "detect"}
        BY <3>3 DEF DfSilent, DfDone
      <4> QED
        BY <4>1 DEF Before
    <3>4. CASE Detect
      <4>1. site = "detect" /\ site' \in {"caps", "docker_caps", "batch2"}
        BY <3>4, Later DEF Detect
      <4> QED
        BY <4>1 DEF Before
    <3>5. CASE BatchTwo
      BY <3>5 DEF BatchTwo, Before
    <3> QED
      BY <1>3, <3>1, <3>2, <3>3, <3>4, <3>5
  <2> QED
    BY <2>1, <2>2, <2>3
<1>4. CASE PhaseNext \/ DockerCapability \/ DockerInfo
  <2>1. site # "end" /\ \E reply : IsReply(reply) /\ (Received(reply) \/ (Answered /\ reply = Reply))
    BY <1>4 DEF PhaseNext, Capabilities, Lsblk, FindmntRoot, Phase, Scan, Drives, ZpoolText,
                DockerCapability, DockerInfo
  <2>2. attempt' = 0 /\ connects' \in {connects, connects + 1}
    BY <2>1, OneMore
  <2>3. Before[site] < Before[site']
    <3>1. CASE Capabilities
      <4>1. site = "caps" /\ site' \in {"lsblk", "root", "probes"}
        BY <3>1, Later DEF Capabilities
      <4> QED
        BY <4>1 DEF Before
    <3>2. CASE Lsblk
      <4>1. site = "lsblk" /\ site' \in {"root", "probes"}
        BY <3>2, Later DEF Lsblk
      <4> QED
        BY <4>1 DEF Before
    <3>3. CASE FindmntRoot
      BY <3>3 DEF FindmntRoot, Before
    <3>4. CASE Phase
      <4>1. site = "probes" /\ site' \in {"scan", "drives", "text", "docker_caps", "batch2"}
        BY <3>4, Later DEF Phase
      <4> QED
        BY <4>1 DEF Before
    <3>5. CASE Scan
      <4>1. site = "scan" /\ site' \in {"drives", "text", "docker_caps", "batch2"}
        BY <3>5, Later DEF Scan
      <4> QED
        BY <4>1 DEF Before
    <3>6. CASE Drives
      <4>1. site = "drives" /\ site' \in {"text", "docker_caps", "batch2"}
        BY <3>6, Later DEF Drives
      <4> QED
        BY <4>1 DEF Before
    <3>7. CASE ZpoolText
      <4>1. site = "text" /\ site' \in {"docker_caps", "batch2"}
        BY <3>7, Later DEF ZpoolText
      <4> QED
        BY <4>1 DEF Before
    <3>8. CASE DockerCapability \/ DockerInfo
      <4>1. \/ site = "docker_caps" /\ site' \in {"docker_info", "batch2"}
            \/ site = "docker_info" /\ site' = "batch2"
        BY <3>8 DEF DockerCapability, DockerInfo
      <4> QED
        BY <4>1 DEF Before
    <3> QED
      BY <1>4, <3>1, <3>2, <3>3, <3>4, <3>5, <3>6, <3>7, <3>8 DEF PhaseNext
  <2> QED
    BY <2>1, <2>2, <2>3
<1> QED
  BY <1>1, <1>2, <1>3, <1>4 DEF Next

LEMMA SpentStep ==
    ASSUME TypeOK, Spent, [Next]_vars
    PROVE  Spent'
<1>1. ASSUME site' = site, site # "end", attempt' = attempt + 1, connects' = connects + 1
      PROVE  Spent'
  <2>1. (MaxRetries + 1) * Before[site] \in Nat
    BY DEF TypeOK, Site, Before
  <2>2. attempt \in Nat /\ connects \in Nat
    BY DEF TypeOK
  <2> QED
    BY <1>1, <2>1, <2>2 DEF Spent
<1>2. CASE Next
  <2>1. TypeOK'
    BY TypeStep
  <2> QED
    BY <1>1, <1>2, <2>1, NextPlace, Forward
<1>3. CASE UNCHANGED vars
  BY <1>3 DEF vars, path, Spent
<1> QED
  BY <1>2, <1>3

\* What has been spent never exceeds one round of attempts per place.
LEMMA SpentBounds ==
    ASSUME TypeOK, Spent
    PROVE  EffortBounded
<1> DEFINE m == MaxRetries + 1
<1>1. m \in Nat /\ attempt \in Nat /\ attempt <= MaxRetries /\ connects \in Nat
  BY DEF TypeOK
<1>2. CASE site = "end"
  <2>1. Before["end"] \in Nat
    BY DEF Before
  <2>2. m * Before["end"] \in Nat
    BY <1>1, <2>1
  <2>3. connects <= m * Before["end"] + 0
    BY <1>2 DEF Spent
  <2>4. connects <= m * Before["end"]
    <3> HIDE DEF m
    <3> QED
      BY <1>1, <2>2, <2>3
  <2> QED
    BY <2>4 DEF EffortBounded
<1>3. CASE site # "end"
  <2>1. Before[site] \in Nat /\ Before["end"] \in Nat /\ Before[site] < Before["end"]
    BY <1>3 DEF TypeOK, Site, Before
  <2>2. m * Before[site] + m <= m * Before["end"]
    BY <1>1, <2>1, Rounds
  <2>3. m * Before[site] \in Nat /\ m * Before["end"] \in Nat
    BY <1>1, <2>1
  <2>4. connects <= m * Before[site] + attempt
    BY <1>3 DEF Spent
  <2>5. attempt + 1 <= m
    BY <1>1
  <2>6. connects <= m * Before["end"]
    <3> HIDE DEF m
    <3> QED
      BY <1>1, <2>2, <2>3, <2>4, <2>5
  <2> QED
    BY <2>6 DEF EffortBounded
<1> QED
  BY <1>2, <1>3

\* Whatever the network does and however many retries are set, a collection opens
\* at most one round of connections for each of its places.
THEOREM EffortAlwaysBounded == Spec => []EffortBounded
<1>1. Init => TypeOK /\ Spent
  BY TypeInit, SpentInit
<1>2. TypeOK /\ Spent /\ [Next]_vars => TypeOK' /\ Spent'
  BY TypeStep, SpentStep
<1>3. TypeOK /\ Spent => EffortBounded
  BY SpentBounds
<1> QED
  BY <1>1, <1>2, <1>3, PTL DEF Spec

-------------------------------------------------------------------------------
(* Every collection returns *)

\* The attempts a collection can still make.
Left ==
    IF site = "end" THEN 0
    ELSE (MaxRetries + 1) * (Before["end"] - Before[site]) - attempt

\* As long as the collection goes on, at least one attempt is left.
LEMMA LeftType ==
    ASSUME TypeOK
    PROVE  Left \in Nat /\ (site # "end" => Left > 0)
<1> DEFINE m == MaxRetries + 1
           c == Before["end"] - Before[site]
<1>1. CASE site # "end"
  <2>1. c \in Nat /\ 0 < c
    BY <1>1 DEF TypeOK, Site, Before
  <2>2. m \in Nat /\ attempt \in Nat /\ attempt < m
    BY DEF TypeOK
  <2>3. m * 0 = 0 /\ m * c \in Nat
    BY <2>1, <2>2
  <2>4. m * 0 + m <= m * c
    <3> HIDE DEF m, c
    <3> QED
      BY <2>1, <2>2, Rounds
  <2>5. Left = m * c - attempt
    BY <1>1 DEF Left
  <2> HIDE DEF m, c
  <2> QED
    BY <2>2, <2>3, <2>4, <2>5
<1> QED
  BY <1>1 DEF Left

\* Every step uses up an attempt or leaves those of its place behind.
LEMMA LeftFalls ==
    ASSUME TypeOK, TypeOK', Next
    PROVE  Left' < Left
<1> DEFINE m == MaxRetries + 1
           c == Before["end"] - Before[site]
<1>1. site # "end" /\ Left = m * c - attempt
  BY NextPlace DEF Left
<1>2. m \in Nat /\ attempt \in Nat /\ attempt < m
  BY DEF TypeOK
<1>3. c \in Nat /\ m * c \in Nat
  BY <1>1, <1>2 DEF TypeOK, Site, Before
<1>4. CASE site' = site /\ attempt' = attempt + 1
  <2>1. Left' = m * c - (attempt + 1)
    BY <1>1, <1>4 DEF Left
  <2> HIDE DEF m, c
  <2> QED
    BY <1>1, <1>2, <1>3, <2>1
<1>5. CASE site' = "end"
  <2>1. Left' = 0
    BY <1>5 DEF Left
  <2> QED
    BY <1>1, <2>1, LeftType
<1>6. CASE Before[site] < Before[site'] /\ attempt' = 0 /\ site' # "end"
  <2> DEFINE a == Before["end"] - Before[site']
  <2>1. a \in Nat /\ a < c
    BY <1>1, <1>6 DEF TypeOK, Site, Before
  <2>2. Left' = m * a - 0
    BY <1>6 DEF Left
  <2> HIDE DEF m, c, a
  <2>3. m * a + m <= m * c /\ m * a \in Nat
    BY <1>2, <1>3, <2>1, Rounds
  <2> QED
    BY <1>1, <1>2, <1>3, <2>2, <2>3
<1> QED
  BY <1>4, <1>5, <1>6, NextPlace

\* What ended has returned something.
Returned == site = "end" => result # Running

LEMMA ReturnedAlways == Spec => []Returned
<1>1. Init => Returned
  BY DEF Init, Returned
<1>2. TypeOK /\ Returned /\ [Next]_vars => Returned'
  <2> SUFFICES ASSUME TypeOK, Returned, [Next]_vars, site' = "end"
               PROVE  result' # Running
    BY DEF Returned
  <2>1. CASE UNCHANGED vars
    BY <2>1 DEF vars, path, Returned
  <2>2. CASE Abort \/ BatchTwo
    <3>1. CASE Abort
      <4>1. \E status \in {"critical", "warning"} : result' = [ok |-> FALSE, status |-> status]
        BY <3>1 DEF Abort
      <4>2. result' \in Promise!Results
        BY <4>1 DEF Promise!Results
      <4> QED
        BY <4>2, RunningAssumption
    <3>2. CASE BatchTwo
      <4>1. \E status \in {"healthy", "warning"} : result' = [ok |-> TRUE, status |-> status]
        BY <3>2 DEF BatchTwo
      <4>2. result' \in Promise!Results
        BY <4>1 DEF Promise!Results
      <4> QED
        BY <4>2, RunningAssumption
    <3> QED
      BY <2>2, <3>1, <3>2
  <2>3. CASE Next /\ ~(Abort \/ BatchTwo)
    <3>1. site # "end" /\ site' # "end"
      BY <2>3, Later DEF Next, ConnectFails, BatchOne, DfAnswers, DfSilent, DfDone, Detect,
           PhaseNext, Capabilities, Lsblk, FindmntRoot, Phase, Scan, Drives, ZpoolText,
           DockerCapability, DockerInfo
    <3> QED
      BY <3>1
  <2> QED
    BY <2>1, <2>2, <2>3
<1> QED
  BY <1>1, <1>2, TypeCorrect, PTL DEF Spec

(***************************************************************************)
(* The rest is about fairness and rests on two facts of the logic that the *)
(* provers cannot derive and that hold whatever the specification: what    *)
(* ENABLED means for two actions with simple guards, and that a natural    *)
(* number cannot fall for ever.                                            *)
(***************************************************************************)

\* Some call can always be answered as long as the collection has not ended; and what
\* has returned cannot return again.
GuardsDecide ==
    TypeOK =>
        /\ site # "end" => ENABLED <<Next>>_vars
        /\ result # Running => ~ENABLED <<Promise!Return>>_result

\* A collection returns, once, and with one of the results the caller knows, whatever
\* the host answers and however often the connection is lost.
THEOREM CollectionReturns ==
    Spec /\ []GuardsDecide /\ Descent(Left, site = "end") => ImplementsSession
<1>1. Spec /\ []GuardsDecide => LeadsDown(Left, site = "end")
  <2> SUFFICES ASSUME NEW k \in Nat
               PROVE  Spec /\ []GuardsDecide => ((Left = k) ~> (site = "end" \/ Left < k))
    BY DEF LeadsDown
  <2> DEFINE G == site = "end" \/ Left < k
  <2>1. TypeOK /\ TypeOK' /\ Left = k /\ [Next]_vars => (Left = k)' \/ G' \/ G
    <3>1. UNCHANGED vars => Left' = Left
      BY DEF vars, path, Left
    <3> QED
      BY <3>1, LeftFalls
  <2>2. TypeOK /\ TypeOK' /\ Left = k /\ <<Next>>_vars => G' \/ G
    BY LeftFalls
  <2>3. TypeOK /\ GuardsDecide => G \/ ENABLED <<Next>>_vars
    BY DEF GuardsDecide
  <2> QED
    BY <2>1, <2>2, <2>3, TypeCorrect, PTL DEF Spec
<1>2. TypeOK => Left \in Nat
  BY LeftType
<1>3. Returned /\ TypeOK /\ GuardsDecide => ~(site = "end") \/ ~ENABLED <<Promise!Return>>_result
  BY DEF Returned, GuardsDecide
<1> QED
  BY <1>1, <1>2, <1>3, TypeCorrect, ReturnedAlways, CollectionIsSession, PTL
     DEF Descent, ImplementsSession, Promise!Spec

-------------------------------------------------------------------------------
(* The verdict *)

\* The errors counted against the collection are those of the answers received.
Counted ==
    \A k : k \in Blocking(buckets) <=> k \in Troubled \/ (k = "df" /\ DfTroubled)

\* Until the last form of df has stayed silent, df is not in trouble.
DfPending ==
    site \in {"batch1", "df", "df_P", "df_plain"} => "disk_partitions" \notin buckets.unavailable

\* A collection that comes back is judged by the errors counted.
Judged ==
    result # Running /\ result.ok => (result.status = "warning" <=> Blocking(buckets) # {})

Verdict == Counted /\ DfPending /\ Judged

\* The answer to a probe is a matter of the host alone.
LEMMA AnswerKept ==
    ASSUME UNCHANGED host, NEW s, NEW k
    PROVE  AnswerAt(s, k)' = AnswerAt(s, k)
BY DEF AnswerAt

LEMMA TroubledMember ==
    ASSUME NEW answers, \A x \in answers : x = <<x[1], x[2]>> /\ x[1] \in Site, NEW k
    PROVE  k \in TroubledIn(answers) <=>
             \E s \in Site : /\ s \notin Silent
                             /\ k # "df"
                             /\ <<s, k>> \in answers
                             /\ AnswerAt(s, k).error \in {"denied", "failed"}
<1>1. ASSUME k \in TroubledIn(answers)
      PROVE  \E s \in Site : /\ s \notin Silent
                             /\ k # "df"
                             /\ <<s, k>> \in answers
                             /\ AnswerAt(s, k).error \in {"denied", "failed"}
  <2>1. PICK x \in answers : /\ x[1] \notin Silent
                             /\ x[2] # "df"
                             /\ AnswerTo(x).error \in {"denied", "failed"}
                             /\ k = x[2]
    BY <1>1 DEF TroubledIn
  <2> QED
    BY <2>1 DEF AnswerTo
<1>2. ASSUME NEW s \in Site, s \notin Silent, k # "df", <<s, k>> \in answers,
             AnswerAt(s, k).error \in {"denied", "failed"}
      PROVE  k \in TroubledIn(answers)
  <2> DEFINE x == <<s, k>>
  <2>1. x[1] = s /\ x[2] = k /\ x \in answers
    BY <1>2
  <2>2. AnswerTo(x).error \in {"denied", "failed"}
    BY <1>2, <2>1 DEF AnswerTo
  <2> HIDE DEF x
  <2> QED
    BY <1>2, <2>1, <2>2 DEF TroubledIn
<1> QED
  BY <1>1, <1>2

LEMMA TroubledNext ==
    ASSUME UNCHANGED host
    PROVE  Troubled' = TroubledIn(asked')
<1>1. \A x : AnswerTo(x)' = AnswerTo(x)
  BY AnswerKept DEF AnswerTo
<1>2. Troubled' =
        {x[2] : x \in {y \in asked' : /\ y[1] \notin Silent
                                      /\ y[2] # "df"
                                      /\ AnswerTo(y)'.error \in {"denied", "failed"}}}
  BY DEF Troubled, TroubledIn
<1> QED
  BY <1>1, <1>2 DEF TroubledIn

\* An answered batch adds the probes of it that were refused or failed.
LEMMA TroubledGrows ==
    ASSUME TypeOK, TypeOK', UNCHANGED host, Answered, site # "end", NEW k
    PROVE  k \in Troubled' <=>
             \/ k \in Troubled
             \/ /\ site \notin Silent
                /\ k # "df"
                /\ k \in Batch
                /\ AnswerAt(site, k).error \in {"denied", "failed"}
<1>1. \A s : <<s, k>> \in asked' <=> <<s, k>> \in asked \/ (s = site /\ k \in Batch)
  BY DEF Answered
<1>2. \A x \in asked \cup asked' : x = <<x[1], x[2]>> /\ x[1] \in Site
  BY DEF TypeOK
<1>3. site \in Site
  BY DEF TypeOK
<1>4. k \in Troubled' <=>
        \E s \in Site : /\ s \notin Silent
                        /\ k # "df"
                        /\ <<s, k>> \in asked'
                        /\ AnswerAt(s, k).error \in {"denied", "failed"}
  BY <1>2, TroubledMember, TroubledNext
<1>5. k \in Troubled <=>
        \E s \in Site : /\ s \notin Silent
                        /\ k # "df"
                        /\ <<s, k>> \in asked
                        /\ AnswerAt(s, k).error \in {"denied", "failed"}
  BY <1>2, TroubledMember DEF Troubled
<1> QED
  BY <1>1, <1>3, <1>4, <1>5

LEMMA TroubledKept ==
    ASSUME UNCHANGED <<host, asked>>
    PROVE  Troubled' = Troubled
BY TroubledNext DEF Troubled

\* Classification loses no refusal and no failure, and makes none up.
LEMMA ClassifiedBlocking ==
    ASSUME NEW b \in Buckets, NEW reply
    PROVE  /\ Blocking(Classified(b, reply)) =
                Blocking(b) \cup Erring(reply, "denied") \cup Erring(reply, "failed")
           /\ Classified(b, reply).unavailable = b.unavailable
BY DEF Blocking, Classified, Buckets

\* A call, df aside, whose errors are classified keeps the count.
LEMMA CountedByCall ==
    ASSUME TypeOK, TypeOK', UNCHANGED <<host, dfAnswer>>, Counted,
           site \notin Silent \cup {"end", "df", "df_P", "df_plain"},
           NEW reply, IsReply(reply),
           (Answered /\ reply = Reply) \/ (PassedOver /\ reply = Silence),
           Blocking(buckets') = Blocking(Classified(buckets, reply)),
           "disk_partitions" \in buckets'.unavailable
               <=> "disk_partitions" \in buckets.unavailable
    PROVE  Counted'
<1> SUFFICES ASSUME NEW k
             PROVE  k \in Blocking(buckets') <=> k \in Troubled' \/ (k = "df" /\ DfTroubled')
  BY DEF Counted
<1>1. DfTroubled' <=> DfTroubled
  BY DEF DfTroubled
<1>2. k \in Blocking(buckets') <=>
          \/ k \in Blocking(buckets)
          \/ k \in DOMAIN reply /\ reply[k].error \in {"denied", "failed"}
  BY ClassifiedBlocking DEF TypeOK, Erring
<1>3. CASE Answered /\ reply = Reply
  <2>1. k \in DOMAIN reply /\ reply[k].error \in {"denied", "failed"}
            <=> k \in Batch /\ AnswerAt(site, k).error \in {"denied", "failed"}
    BY <1>3 DEF Reply
  <2>2. k \in Batch => k # "df"
    BY BatchType
  <2> QED
    BY <1>1, <1>2, <1>3, <2>1, <2>2, TroubledGrows DEF Counted
<1>4. CASE PassedOver /\ reply = Silence
  <2>1. DOMAIN reply = {} /\ UNCHANGED asked
    BY <1>4 DEF Silence, PassedOver
  <2> QED
    BY <1>1, <1>2, <2>1, TroubledKept DEF Counted
<1> QED
  BY <1>3, <1>4

\* A call whose errors are dropped keeps the count: it asks only for tools.
LEMMA CountedByLook ==
    ASSUME TypeOK, TypeOK', UNCHANGED <<host, dfAnswer>>, Counted,
           site \in Silent,
           Answered \/ PassedOver,
           Blocking(buckets') = Blocking(buckets),
           buckets'.unavailable = buckets.unavailable
    PROVE  Counted'
<1> SUFFICES ASSUME NEW k
             PROVE  k \in Blocking(buckets') <=> k \in Troubled' \/ (k = "df" /\ DfTroubled')
  BY DEF Counted
<1>1. DfTroubled' <=> DfTroubled
  BY DEF DfTroubled
<1>2. k \in Troubled' <=> k \in Troubled
  <2>1. CASE Answered
    BY <2>1, TroubledGrows DEF Silent
  <2>2. CASE PassedOver
    BY <2>2, TroubledKept DEF PassedOver
  <2> QED
    BY <2>1, <2>2
<1> QED
  BY <1>1, <1>2 DEF Counted

\* Names that are not applicable count for nothing.
LEMMA NotApplicableBlocking ==
    ASSUME NEW b \in Buckets, NEW metrics
    PROVE  /\ Blocking(NotApplicable(b, metrics)) = Blocking(b)
           /\ NotApplicable(b, metrics).unavailable = b.unavailable
BY DEF Blocking, NotApplicable, Buckets

\* df: nothing is counted until the last form has stayed silent, and then the
\* first error is.
LEMMA CountedByDf ==
    ASSUME TypeOK, TypeOK', Counted, DfPending, DfAnswers \/ DfSilent
    PROVE  Counted' /\ DfPending'
<1> USE DEF IsReply
<1>1. /\ UNCHANGED host
      /\ site \in {"df", "df_P", "df_plain"}
      /\ "disk_partitions" \notin buckets.unavailable
  BY DEF DfAnswers, DfSilent, DfPending
<1>2. \A k : k \in Troubled' <=> k \in Troubled
  <2>1. CASE Answered
    <3>1. Batch = {"df"}
      BY <1>1 DEF Batch
    <3> QED
      BY <1>1, <2>1, <3>1, TroubledGrows
  <2>2. CASE PassedOver
    BY <1>1, <2>2, TroubledKept DEF PassedOver
  <2> QED
    BY <2>1, <2>2 DEF DfAnswers, DfSilent, Received
<1>3. \A k : k \in Blocking(buckets) <=> k \in Troubled
  BY <1>1 DEF Counted, DfTroubled
<1>4. CASE UNCHANGED buckets
  BY <1>1, <1>2, <1>3, <1>4 DEF Counted, DfTroubled, DfPending
<1>5. CASE buckets' = [Classified(buckets, [k \in {"df"} |-> dfAnswer'])
                          EXCEPT !.unavailable = @ \cup {"disk_partitions"}]
           /\ DfDone
  <2> DEFINE first == [k \in {"df"} |-> dfAnswer']
             b == Classified(buckets, first)
  <2>1. b \in Buckets
    BY ClassifiedType, ProbeParts DEF TypeOK, Baseline
  <2>2. Blocking(b) = Blocking(buckets) \cup Erring(first, "denied") \cup Erring(first, "failed")
    BY ClassifiedBlocking DEF TypeOK
  <2>3. \A k : k \in Erring(first, "denied") \cup Erring(first, "failed")
                  <=> k = "df" /\ dfAnswer'.error \in {"denied", "failed"}
    BY DEF Erring
  <2>4. /\ buckets' = [b EXCEPT !.unavailable = @ \cup {"disk_partitions"}]
        /\ site' \in {"caps", "detect"}
    BY <1>5 DEF DfDone
  <2> HIDE DEF first, b
  <2>5. Blocking(buckets') = Blocking(b) /\ "disk_partitions" \in buckets'.unavailable
    BY <2>1, <2>4 DEF Blocking, Buckets
  <2>6. DfTroubled' <=> dfAnswer'.error \in {"denied", "failed"}
    BY <2>5 DEF DfTroubled
  <2>7. Counted'
    BY <1>2, <1>3, <2>2, <2>3, <2>5, <2>6 DEF Counted
  <2>8. DfPending'
    BY <2>4 DEF DfPending
  <2> QED
    BY <2>7, <2>8
<1> QED
  BY <1>4, <1>5 DEF DfAnswers, DfSilent

\* Every call but df and the last one, which returns.
LEMMA CountedByOthers ==
    ASSUME TypeOK, TypeOK', Counted, DfPending, BatchOne \/ Detect \/ PhaseNext \/ DockerCapability \/ DockerInfo
    PROVE  Counted' /\ DfPending'
<1> USE DEF IsReply
<1>0. UNCHANGED <<host, dfAnswer>> /\ buckets \in Buckets
  BY DEF TypeOK, BatchOne, Detect, PhaseNext, Capabilities, Lsblk, FindmntRoot, Phase, Scan,
         Drives, ZpoolText, DockerCapability, DockerInfo
<1>1. CASE BatchOne
  <2>1. site = "batch1" /\ site' = "df" /\ Answered /\ buckets' = Classified(buckets, Reply)
    BY <1>1 DEF BatchOne
  <2>2. buckets'.unavailable = buckets.unavailable
    BY <1>0, <2>1, ClassifiedBlocking
  <2> QED
    BY <1>0, <2>1, <2>2, CountedByCall DEF Silent, DfPending
<1>2. CASE Detect \/ Capabilities \/ DockerCapability
  <2>1. site \in Silent /\ (Answered \/ PassedOver)
    BY <1>2 DEF Detect, Capabilities, DockerCapability, Silent, Received
  <2>2. buckets' = buckets \/ \E metrics : buckets' = NotApplicable(buckets, metrics)
    BY <1>2 DEF Detect, Capabilities, DockerCapability
  <2>3. Blocking(buckets') = Blocking(buckets) /\ buckets'.unavailable = buckets.unavailable
    BY <1>0, <2>2, NotApplicableBlocking
  <2>4. site' \notin {"batch1", "df", "df_P", "df_plain"}
    BY <1>2, Later DEF Detect, Capabilities, DockerCapability
  <2> QED
    BY <1>0, <2>1, <2>3, <2>4, CountedByLook DEF DfPending
<1>3. CASE Lsblk \/ FindmntRoot \/ Phase \/ Scan \/ Drives \/ ZpoolText \/ DockerInfo
  <2>1. site \notin Silent \cup {"end", "df", "df_P", "df_plain"}
    BY <1>3 DEF Lsblk, FindmntRoot, Phase, Scan, Drives, ZpoolText, DockerInfo, Silent
  <2>2. PICK reply \in {Reply, Silence} :
           /\ Received(reply)
           /\ \/ buckets' = Classified(buckets, reply)
              \/ buckets' = NotApplicable(Classified(buckets, reply), SkippedMetrics)
    BY <1>3 DEF Lsblk, FindmntRoot, Phase, Scan, Drives, ZpoolText, DockerInfo
  <2>3. Classified(buckets, reply) \in Buckets
    BY <1>0, <2>1, ReplyType, ClassifiedType
  <2>4. /\ Blocking(buckets') = Blocking(Classified(buckets, reply))
        /\ buckets'.unavailable = buckets.unavailable
    BY <1>0, <2>2, <2>3, NotApplicableBlocking, ClassifiedBlocking
  <2>5. site' \notin {"batch1", "df", "df_P", "df_plain"}
    BY <1>3, Later DEF Lsblk, FindmntRoot, Phase, Scan, Drives, ZpoolText, DockerInfo
  <2>6. (Answered /\ reply = Reply) \/ (PassedOver /\ reply = Silence)
    BY <2>2 DEF Received
  <2> QED
    BY <1>0, <2>1, <2>4, <2>5, <2>6, CountedByCall DEF DfPending
<1> QED
  BY <1>1, <1>2, <1>3 DEF PhaseNext

\* The last call: its errors count, and the verdict is passed.
LEMMA VerdictAtEnd ==
    ASSUME TypeOK, TypeOK', Counted, BatchTwo
    PROVE  Counted' /\ DfPending' /\ Judged'
<1> USE DEF IsReply
<1> DEFINE b == Classified(buckets, Reply)
<1>1. site = "batch2" /\ site' = "end" /\ Answered /\ UNCHANGED <<host, dfAnswer>>
  BY DEF BatchTwo
<1>2. b \in Buckets
  BY <1>1, ReplyType, ClassifiedType DEF TypeOK, Silent
<1>3. /\ buckets' = [b EXCEPT !.unavailable = @ \cup Missing(raw')]
      /\ result' = [ok |-> TRUE, status |-> IF Blocking(b) = {} THEN "healthy" ELSE "warning"]
  BY DEF BatchTwo
<1>4. b.unavailable = buckets.unavailable
  BY ClassifiedBlocking DEF TypeOK
<1> HIDE DEF b
<1>5. Blocking(buckets') = Blocking(b) /\ buckets'.unavailable = b.unavailable \cup Missing(raw')
  BY <1>2, <1>3 DEF Blocking, Buckets
<1>6. "disk_partitions" \notin Missing(raw')
  BY DEF Missing, Sources
<1>7. Counted'
  <2>1. Blocking(buckets') = Blocking(Classified(buckets, Reply))
    BY <1>5 DEF b
  <2> QED
    BY <1>1, <1>4, <1>5, <1>6, <2>1, CountedByCall DEF Silent
<1>8. DfPending' /\ Judged'
  BY <1>1, <1>3, <1>5 DEF DfPending, Judged
<1> QED
  BY <1>7, <1>8

LEMMA VerdictStep ==
    ASSUME TypeOK, Pending, Verdict, [Next]_vars
    PROVE  Verdict'
<1>0. TypeOK' /\ Counted /\ DfPending /\ Judged
  BY TypeStep DEF Verdict
<1>1. CASE ConnectFails \/ Abort \/ UNCHANGED vars
  <2>1. UNCHANGED <<host, asked, dfAnswer, buckets>> /\ (site' = site \/ site' = "end")
    BY <1>1 DEF ConnectFails, Abort, vars, path, found
  <2>2. Troubled' = Troubled
    BY <2>1, TroubledKept
  <2>3. Counted' /\ DfPending'
    BY <1>0, <2>1, <2>2 DEF Counted, DfPending, DfTroubled
  <2>4. result' = result \/ ~result'.ok
    BY <1>1 DEF ConnectFails, Abort, vars
  <2>5. Judged'
    BY <1>0, <2>1, <2>4 DEF Judged
  <2> QED
    BY <2>3, <2>5 DEF Verdict
<1>2. CASE DfAnswers \/ DfSilent \/ BatchOne \/ Detect \/ PhaseNext \/ DockerCapability \/ DockerInfo
  <2>1. Counted' /\ DfPending'
    BY <1>0, <1>2, CountedByDf, CountedByOthers
  <2>2. site # "end" /\ result' = result
    BY <1>2 DEF DfAnswers, DfSilent, BatchOne, Detect, PhaseNext, Capabilities, Lsblk,
                FindmntRoot, Phase, Scan, Drives, ZpoolText, DockerCapability, DockerInfo
  <2>3. Judged'
    BY <2>2 DEF Pending, Judged
  <2> QED
    BY <2>1, <2>3 DEF Verdict
<1>3. CASE BatchTwo
  BY <1>0, <1>3, VerdictAtEnd DEF Verdict
<1> QED
  BY <1>1, <1>2, <1>3 DEF Next

LEMMA VerdictInit ==
    ASSUME Init
    PROVE  Pending /\ Verdict
<1>1. Troubled = {}
  BY DEF Init, Troubled, TroubledIn
<1>2. Blocking(buckets) = {} /\ ~DfTroubled
  BY DEF Init, Blocking, DfTroubled
<1>3. DfPending /\ Judged /\ Pending
  BY DEF Init, DfPending, Judged, Pending
<1> QED
  BY <1>1, <1>2, <1>3 DEF Verdict, Counted

\* Whatever the machine answers and whichever calls are lost, a collection that
\* comes back is a warning exactly when an answer it received was a refusal or a
\* failure.
THEOREM VerdictAlwaysFollows == Spec => []VerdictFollowsAnswers
<1>1. Init => TypeOK /\ Pending /\ Verdict
  BY TypeInit, VerdictInit
<1>2. TypeOK /\ Pending /\ Verdict /\ [Next]_vars => TypeOK' /\ Pending' /\ Verdict'
  BY TypeStep, Returns, VerdictStep
<1>3. Verdict => VerdictFollowsAnswers
  BY DEF Verdict, Counted, Judged, VerdictFollowsAnswers
<1> QED
  BY <1>1, <1>2, <1>3, PTL DEF Spec

-------------------------------------------------------------------------------
(* Tools that are shown *)

\* The host has said that there is no command for k.
SaidAbsent(k) == \E s \in Site \ Silent : <<s, k>> \in asked /\ AnswerAt(s, k).error = "absent"

\* Places that come before the capabilities are known.
Early == {"batch1", "df", "df_P", "df_plain", "detect", "caps"}

\* Places from the capabilities to the batch that depends on btrfs.
Looking == {"lsblk", "root", "probes"}

\* Before the capabilities are known, only baseline probes can be missing.
Unshown == site \in Early => caps = {} /\ buckets.notApplicable \subseteq Baseline

\* What leads to each phase; only a NAS is asked for docker among its tools.
Routed ==
    /\ "docker" \in caps => device = "nas"
    /\ site \in {"docker_caps", "docker_info"} => device = "docker_host"
    /\ site = "caps" => pve \/ device = "nas"

\* A tool that was shown is missing only because the host then said so, or, once its
\* filesystems are known, for want of btrfs.
Explained ==
    \A t \in caps, k \in buckets.notApplicable :
       k \in ToolProbes[t] => (t = "btrfs" /\ ~btrfs /\ site \notin Looking) \/ SaidAbsent(k)

Shown == Unshown /\ Routed /\ Explained

\* No two tools share a probe, and the baseline needs none of them.
LEMMA ProbesApart ==
    /\ \A t, u \in Tool : \A k : k \in ToolProbes[t] /\ k \in ToolProbes[u] => t = u
    /\ \A t \in Tool : ToolProbes[t] \cap (Baseline \cup {"smart_attributes"}) = {}
    /\ "lsblk" \in ToolProbes["lsblk"] /\ "lsblk" \in Tool
    /\ "docker_info" \in ToolProbes["docker"] /\ "docker" \in Tool
<1>1. \A t, u \in Tool : \A k : k \in ToolProbes[t] /\ k \in ToolProbes[u] => t = u
  BY DEF Tool, ToolProbes
<1>2. \A t \in Tool : ToolProbes[t] \cap (Baseline \cup {"smart_attributes"}) = {}
  BY DEF Tool, ToolProbes, Baseline, OneShot, SecondSample
<1> QED
  BY <1>1, <1>2 DEF Tool, ToolProbes

LEMMA SaidAbsentNext ==
    ASSUME UNCHANGED host, NEW k
    PROVE  SaidAbsent(k)' <=>
             \E s \in Site \ Silent : <<s, k>> \in asked' /\ AnswerAt(s, k).error = "absent"
<1>1. \A s : AnswerAt(s, k)' = AnswerAt(s, k)
  BY AnswerKept
<1> QED
  BY <1>1 DEF SaidAbsent

LEMMA SaidAbsentKept ==
    ASSUME UNCHANGED host, asked \subseteq asked', NEW k, SaidAbsent(k)
    PROVE  SaidAbsent(k)'
BY SaidAbsentNext DEF SaidAbsent

\* Answers are only added.
LEMMA AskedGrows ==
    ASSUME Answered \/ PassedOver
    PROVE  asked \subseteq asked'
BY DEF Answered, PassedOver

\* A name that a batch adds is one the host has said is absent.
LEMMA AbsentByCall ==
    ASSUME TypeOK, UNCHANGED host, site \notin Silent \cup {"end"},
           NEW reply, (Answered /\ reply = Reply) \/ (PassedOver /\ reply = Silence),
           NEW k \in Classified(buckets, reply).notApplicable
    PROVE  k \in buckets.notApplicable \/ SaidAbsent(k)'
<1>1. k \in buckets.notApplicable \/ k \in Erring(reply, "absent")
  BY DEF Classified, TypeOK, Buckets
<1>2. CASE k \in Erring(reply, "absent")
  <2>1. Answered /\ reply = Reply
    BY <1>2 DEF Erring, Silence
  <2>2. k \in Batch /\ AnswerAt(site, k).error = "absent"
    BY <1>2, <2>1 DEF Erring, Reply
  <2>3. <<site, k>> \in asked' /\ site \in Site \ Silent
    BY <2>1, <2>2 DEF Answered, TypeOK
  <2> QED
    BY <2>2, <2>3, SaidAbsentNext
<1> QED
  BY <1>1, <1>2

\* The names of a phase that was skipped are those of tools the host has not shown,
\* or of btrfs.
LEMMA SkippedUnshown ==
    ASSUME TypeOK, NEW t \in caps, NEW k \in SkippedMetrics, k \in ToolProbes[t]
    PROVE  t = "btrfs" /\ ~btrfs
<1>1. t \in Tool /\ k # "smart_attributes"
  BY ProbesApart DEF TypeOK
<1>2. PICK u \in PhaseTools \ UsableTools : k \in ToolProbes[u]
  BY <1>1 DEF SkippedMetrics
<1>3. PhaseTools \subseteq Tool
  BY DEF PhaseTools, PveCapabilities, Tool, ToolProbes
<1>4. t = u
  BY <1>1, <1>2, <1>3, ProbesApart
<1> QED
  BY <1>2, <1>4 DEF UsableTools

\* The calls before the capability probes add baseline names only.
LEMMA ShownEarly ==
    ASSUME TypeOK, TypeOK', Shown, BatchOne \/ DfAnswers \/ DfSilent
    PROVE  Shown'
<1>1. /\ site \in Early
      /\ UNCHANGED <<host, device, caps>>
  BY DEF BatchOne, DfAnswers, DfSilent, Early
<1>2. caps = {} /\ caps' = {} /\ buckets.notApplicable \subseteq Baseline
  BY <1>1 DEF Shown, Unshown
<1>3. buckets'.notApplicable \subseteq Baseline
  <2>1. CASE BatchOne
    <3>1. buckets' = Classified(buckets, Reply) /\ DOMAIN Reply = OneShot
      BY <2>1 DEF BatchOne, Reply, Batch
    <3>2. OneShot \subseteq Baseline
      BY DEF Baseline
    <3> QED
      BY <1>2, <3>1, <3>2 DEF Classified, Erring, TypeOK, Buckets
  <2>2. CASE UNCHANGED buckets
    BY <1>2, <2>2
  <2>3. CASE buckets' = [Classified(buckets, [k \in {"df"} |-> dfAnswer'])
                            EXCEPT !.unavailable = @ \cup {"disk_partitions"}]
    <3> DEFINE first == [k \in {"df"} |-> dfAnswer']
    <3>1. Erring(first, "absent") \subseteq {"df"}
      BY DEF Erring
    <3>2. buckets'.notApplicable = buckets.notApplicable \cup Erring(first, "absent")
      <4> HIDE DEF first
      <4> QED
        BY <2>3 DEF Classified, TypeOK, Buckets, first
    <3> HIDE DEF first
    <3> QED
      BY <1>2, <3>1, <3>2 DEF Baseline
  <2> QED
    BY <2>1, <2>2, <2>3 DEF DfAnswers, DfSilent
<1>4. site' \in {"df", "df_P", "df_plain", "detect", "caps"} /\ (site' = "caps" => pve')
  <2>1. CASE BatchOne
    BY <2>1 DEF BatchOne
  <2>2. CASE DfAnswers \/ DfSilent
    BY <2>2 DEF DfAnswers, DfSilent, DfDone
  <2> QED
    BY <2>1, <2>2
<1> QED
  BY <1>2, <1>3, <1>4 DEF Shown, Unshown, Routed, Explained

\* The routing to a phase, and the capability probes.
LEMMA ShownByLook ==
    ASSUME TypeOK, TypeOK', Shown, Detect \/ Capabilities
    PROVE  Shown'
<1>1. site \in {"detect", "caps"} /\ UNCHANGED <<host, device>>
  BY DEF Detect, Capabilities
<1>2. caps = {} /\ buckets.notApplicable \subseteq Baseline
  BY <1>1 DEF Shown, Unshown, Early
<1>3. CASE Detect
  <2>1. caps' = {}
    BY <1>2, <1>3 DEF Detect
  <2>2. CASE site' = "caps" /\ (pve' \/ device = "nas") /\ UNCHANGED buckets
    BY <1>1, <1>2, <2>1, <2>2 DEF Shown, Unshown, Routed, Explained
  <2>3. CASE site' = AfterPhase
    BY <1>1, <2>1, <2>3 DEF Shown, Unshown, Routed, Explained, AfterPhase, Early
  <2> QED
    BY <1>3, <2>2, <2>3 DEF Detect
<1>4. CASE Capabilities
  <2>1. PICK reply \in {Reply, Silence} : caps' = {t \in Tool : Says(reply, t)}
    BY <1>4 DEF Capabilities
  <2>2. site' \in {"lsblk", "root", "probes"}
    BY <1>4, Later DEF Capabilities
  <2>3. "docker" \in caps' => device' = "nas"
    <3>1. SUFFICES ASSUME "docker" \in caps'
                   PROVE  device = "nas"
      BY <1>1
    <3>2. "docker" \in Batch
      BY <2>1, <3>1 DEF Says, Reply, Silence
    <3>3. site = "caps"
      BY <1>4 DEF Capabilities
    <3>4. ~pve
      BY <3>2, <3>3 DEF Batch, PveCapabilities
    <3> QED
      BY <3>3, <3>4 DEF Shown, Routed
  <2>4. Explained'
    <3> SUFFICES ASSUME NEW t \in caps', NEW k \in buckets'.notApplicable, k \in ToolProbes[t]
                 PROVE  FALSE
      BY DEF Explained
    <3>1. t \in Tool
      BY DEF TypeOK
    <3>2. k \in buckets.notApplicable \/ (k = "lsblk" /\ "lsblk" \notin caps')
      BY <1>4 DEF Capabilities, NotApplicable, TypeOK, Buckets
    <3>3. k \notin Baseline
      BY <3>1, ProbesApart
    <3> QED
      BY <1>2, <3>1, <3>2, <3>3, ProbesApart
  <2> QED
    BY <2>2, <2>3, <2>4 DEF Shown, Unshown, Routed, Early
<1> QED
  BY <1>3, <1>4

\* The calls of a phase.
LEMMA ShownByPhase ==
    ASSUME TypeOK, TypeOK', Shown, Lsblk \/ FindmntRoot \/ Phase \/ Scan \/ Drives \/ ZpoolText \/ DockerInfo
    PROVE  Shown'
<1>1. UNCHANGED <<host, device, caps>> /\ site \notin Silent \cup {"end"}
  BY DEF Lsblk, FindmntRoot, Phase, Scan, Drives, ZpoolText, DockerInfo, Silent
<1>2. PICK reply \in {Reply, Silence} :
         /\ Received(reply)
         /\ \/ buckets' = Classified(buckets, reply)
            \/ Phase /\ buckets' = NotApplicable(Classified(buckets, reply), SkippedMetrics)
  BY DEF Lsblk, FindmntRoot, Phase, Scan, Drives, ZpoolText, DockerInfo
<1>3. (Answered /\ reply = Reply) \/ (PassedOver /\ reply = Silence)
  BY <1>2 DEF Received
<1>4. /\ site' \notin Early
      /\ site \in Looking => (Phase /\ site' \notin Looking /\ btrfs' = btrfs) \/ site' \in Looking
      /\ site \notin Looking => site' \notin Looking /\ btrfs' = btrfs
      /\ site' \in {"docker_caps", "docker_info"} => device = "docker_host"
  <2>1. CASE Lsblk \/ FindmntRoot
    BY <2>1, Later DEF Lsblk, FindmntRoot, Early, Looking
  <2>2. CASE Phase \/ Scan \/ Drives \/ ZpoolText \/ DockerInfo
    <3>1. site' \in {"scan", "drives", "text", "docker_caps", "batch2"} /\ btrfs' = btrfs
      BY <2>2, Later DEF Phase, Scan, Drives, ZpoolText, DockerInfo
    <3>2. site' = "docker_caps" => device = "docker_host"
      BY <2>2 DEF Phase, Scan, Drives, ZpoolText, DockerInfo, AfterProbes, AfterScan, AfterSmart, AfterPhase
    <3> QED
      BY <2>2, <3>1, <3>2 DEF Phase, Scan, Drives, ZpoolText, DockerInfo, Early, Looking
  <2> QED
    BY <2>1, <2>2
<1>5. Explained'
  <2> SUFFICES ASSUME NEW t \in caps', NEW k \in buckets'.notApplicable, k \in ToolProbes[t]
               PROVE  (t = "btrfs" /\ ~btrfs' /\ site' \notin Looking) \/ SaidAbsent(k)'
    BY DEF Explained
  <2>1. t \in caps
    BY <1>1
  <2>2. CASE k \in Classified(buckets, reply).notApplicable
    <3>1. k \in buckets.notApplicable \/ SaidAbsent(k)'
      BY <1>1, <1>3, <2>2, AbsentByCall
    <3>2. CASE k \in buckets.notApplicable
      <4>1. (t = "btrfs" /\ ~btrfs /\ site \notin Looking) \/ SaidAbsent(k)
        BY <2>1, <3>2 DEF Shown, Explained
      <4>2. SaidAbsent(k) => SaidAbsent(k)'
        BY <1>1, <1>3, AskedGrows, SaidAbsentKept
      <4> QED
        BY <1>4, <4>1, <4>2
    <3> QED
      BY <3>1, <3>2
  <2>3. CASE Phase /\ k \in SkippedMetrics
    <3>1. t = "btrfs" /\ ~btrfs
      BY <2>1, <2>3, SkippedUnshown
    <3>2. site \in Looking /\ site' \notin Looking /\ btrfs' = btrfs
      BY <2>3, Later DEF Phase, Looking
    <3> QED
      BY <3>1, <3>2
  <2>4. Classified(buckets, reply) \in Buckets
    BY <1>1, ReplyType, ClassifiedType DEF TypeOK, IsReply
  <2> QED
    BY <1>2, <2>2, <2>3, <2>4 DEF NotApplicable, Buckets
<1>6. site' # "caps"
  BY <1>4 DEF Early
<1> QED
  BY <1>1, <1>4, <1>5, <1>6 DEF Shown, Unshown, Routed

\* The docker check, and the last call.
LEMMA ShownAtEnd ==
    ASSUME TypeOK, TypeOK', Shown, DockerCapability \/ BatchTwo
    PROVE  Shown'
<1>1. /\ UNCHANGED <<host, device, caps, btrfs>>
      /\ site \in {"docker_caps", "batch2"}
      /\ site' \in {"docker_info", "batch2", "end"}
      /\ site' = "docker_info" => site = "docker_caps"
  BY DEF DockerCapability, BatchTwo
<1>2. asked \subseteq asked'
  BY AskedGrows DEF DockerCapability, BatchTwo, Received
<1>3. Explained'
  <2> SUFFICES ASSUME NEW t \in caps', NEW k \in buckets'.notApplicable, k \in ToolProbes[t]
               PROVE  (t = "btrfs" /\ ~btrfs' /\ site' \notin Looking) \/ SaidAbsent(k)'
    BY DEF Explained
  <2>1. t \in caps /\ t \in Tool
    BY <1>1 DEF TypeOK
  <2>2. k \in buckets.notApplicable \/ SaidAbsent(k)'
    <3>1. CASE DockerCapability
      <4>1. k \in buckets.notApplicable \/ k = "docker_info"
        BY <3>1 DEF DockerCapability, NotApplicable, TypeOK, Buckets
      <4>2. "docker" \notin caps
        BY <3>1 DEF DockerCapability, Shown, Routed
      <4> QED
        BY <2>1, <4>1, <4>2, ProbesApart
    <3>2. CASE BatchTwo
      <4>1. Answered /\ site = "batch2"
        BY <3>2 DEF BatchTwo
      <4>2. Classified(buckets, Reply) \in Buckets
        BY <4>1, ReplyType, ClassifiedType DEF TypeOK, IsReply, Silent
      <4>3. k \in Classified(buckets, Reply).notApplicable
        BY <3>2, <4>2 DEF BatchTwo, Buckets
      <4> QED
        BY <1>1, <4>1, <4>3, AbsentByCall DEF Silent
    <3> QED
      BY <3>1, <3>2
  <2>3. k \in buckets.notApplicable => (t = "btrfs" /\ ~btrfs /\ site \notin Looking) \/ SaidAbsent(k)
    BY <2>1 DEF Shown, Explained
  <2>4. SaidAbsent(k) => SaidAbsent(k)'
    BY <1>1, <1>2, SaidAbsentKept
  <2> QED
    BY <1>1, <2>2, <2>3, <2>4 DEF Looking
<1> QED
  BY <1>1, <1>3 DEF Shown, Unshown, Routed, Early

LEMMA ShownStep ==
    ASSUME TypeOK, Shown, [Next]_vars
    PROVE  Shown'
<1>0. TypeOK'
  BY TypeStep
<1>1. CASE ConnectFails \/ Abort \/ UNCHANGED vars
  <2>1. UNCHANGED <<host, device, asked, caps, pve, btrfs, buckets>> /\ (site' = site \/ site' = "end")
    BY <1>1 DEF ConnectFails, Abort, vars, path, found
  <2>2. \A k : SaidAbsent(k)' <=> SaidAbsent(k)
    BY <2>1, SaidAbsentNext DEF SaidAbsent
  <2>3. Explained'
    BY <2>1, <2>2 DEF Shown, Explained, Looking
  <2> QED
    BY <2>1, <2>3 DEF Shown, Unshown, Routed, Early
<1>2. CASE Next /\ ~ConnectFails /\ ~Abort
  BY <1>0, <1>2, ShownEarly, ShownByLook, ShownByPhase, ShownAtEnd DEF Next, PhaseNext
<1> QED
  BY <1>1, <1>2

LEMMA ShownInit ==
    ASSUME Init
    PROVE  Shown
BY DEF Init, Shown, Unshown, Routed, Explained, Early

\* Whatever the machine answers and whichever calls are lost, no error and no lost
\* answer makes a tool that was shown pass for absent.
THEOREM ShownToolsAlwaysApply == Spec => []ShownToolsApply
<1>1. Init => TypeOK /\ Shown
  BY TypeInit, ShownInit
<1>2. TypeOK /\ Shown /\ [Next]_vars => TypeOK' /\ Shown'
  BY TypeStep, ShownStep
<1>3. Shown => ShownToolsApply
  <2> SUFFICES ASSUME Shown, NEW t \in caps, NEW k \in buckets.notApplicable, k \in ToolProbes[t],
                      ~(t = "btrfs" /\ ~btrfs)
               PROVE  \E x \in asked : x[1] \notin Silent /\ x[2] = k /\ AnswerTo(x).error = "absent"
    BY DEF ShownToolsApply
  <2>1. PICK s \in Site \ Silent : <<s, k>> \in asked /\ AnswerAt(s, k).error = "absent"
    BY DEF Shown, Explained, SaidAbsent
  <2> DEFINE x == <<s, k>>
  <2>2. x \in asked /\ x[1] \notin Silent /\ x[2] = k /\ AnswerTo(x).error = "absent"
    BY <2>1 DEF AnswerTo
  <2> HIDE DEF x
  <2> QED
    BY <2>2
<1> QED
  BY <1>1, <1>2, <1>3, PTL DEF Spec

===============================================================================
