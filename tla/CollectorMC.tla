------------------------------ MODULE CollectorMC ------------------------------
(* Small instance of Collector: four machines, each with one thing out of order. *)
EXTENDS Collector, TLC

CONSTANTS d1

MCDrive == {d1}

Machine(tools, isPve, fs, odd) ==
    [tools |-> tools, pve |-> isPve, btrfs |-> fs, odd |-> odd,
     drives |-> IF "smartctl" \in tools THEN {d1} ELSE {}]

\* Forms of a command that older versions do not know.
Old == (<<"df", "df">> :> Broken) @@ (<<"probes", "zpool_status">> :> Broken)
          @@ (<<"probes", "smartctl_scan">> :> Broken)

\* What can be out of order: how a probe is answered instead.
Odd == {[output |-> "unusable", error |-> "none"], [output |-> "none", error |-> "none"],
        [output |-> "usable", error |-> "failed"], [output |-> "none", error |-> "denied"],
        Broken, Gone}

Nothing == [x \in {} |-> Fine]

\* Where one probe stands for those that are treated alike.
Everywhere == {<<"batch1", "stat_1">>, <<"df", "df">>, <<"batch2", "net_2">>}

NasSpots ==
    {<<"detect", "pveversion">>, <<"caps", "smartctl">>, <<"lsblk", "lsblk">>,
     <<"root", "findmnt_root">>, <<"probes", "smartctl_scan">>, <<"probes", "zpool_status">>,
     <<"probes", "btrfs_show">>, <<"drives", d1>>}

PveSpots ==
    {<<"caps", "zpool">>, <<"root", "findmnt_root">>, <<"probes", "ip_br_addr">>}

\* The second form of a command the host is too old for.
SecondForms ==
    {<<"df_P", "df">>, <<"scan", "smartctl_scan">>, <<"text", "zpool_status_text">>}

DockerSpots == {<<"docker_caps", "docker">>, <<"docker_info", "docker_info">>}

Spot(spots) == {x :> a : x \in spots, a \in Odd} \cup {Nothing, Old}

Server == {[type |-> "linux_server", host |-> Machine({"findmnt"}, FALSE, "none", odd)] :
              odd \in Spot(Everywhere)}
Nas == {[type |-> "nas", host |-> Machine(tools, FALSE, fs, odd)] :
              tools \in {NasCapabilities, {"findmnt", "smartctl"}},
              fs \in {"data", "root"}, odd \in Spot(NasSpots)}
Docker == {[type |-> "docker_host", host |-> Machine({"docker", "zpool"}, isPve, "none", odd)] :
              isPve \in BOOLEAN, odd \in Spot(DockerSpots)}
Proxmox == {[type |-> "proxmox_host", host |-> Machine(tools, TRUE, "root", odd)] :
              tools \in {PveCapabilities, {"pvesm", "findmnt", "btrfs"}}, 
              odd \in Spot(PveSpots) \cup {x :> a @@ Old : x \in SecondForms, a \in Odd}}

MCCase == Server \cup Nas \cup Docker \cup Proxmox

===============================================================================
